SPECIFICATION Spec
CONSTANTS
    Trees <- SmallTrees
    Indexes <- NestedIndexes
    Elems <- NewElems
    WordSize = 5
    Parameters <- MCParameters
    Operands <- MCOperands
    Ops <- OnlyAdd
    MixedProducts = TRUE
    Largest = 2
    MaxRank = 2
    MaxSteps = 3
INVARIANTS
    TwinHasType
