SPECIFICATION Spec
CONSTANTS
    Programs <- MCPrograms
    Slots <- MCSlots
    Scoping <- MCScoping
    Inputs <- MCInputs
    MaxIterations = 6
INVARIANTS
    DefinedBeforeUse
    ConstantsAreUniform
    SameResult
