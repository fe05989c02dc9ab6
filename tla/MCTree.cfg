SPECIFICATION Spec
CONSTANTS
    Trees <- SmallTrees
    Indexes <- NestedIndexes
    Elems <- NewElems
    WordSize = 5
    Parameters <- MCParameters
    Operands <- MCOperands
    Ops <- MostOps
    MixedProducts = FALSE
    Largest = 2
    MaxRank = 2
    MaxSteps = 2
INVARIANTS
    FetchSelects
    AmendReplaces
    IndexLaws
    ArraysBroadcast
    TwinHasType
