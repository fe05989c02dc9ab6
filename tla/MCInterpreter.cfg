SPECIFICATION Spec
CONSTANTS
    Builtins <- MCBuiltins
    SymbolOrder <- MCSymbolOrder
    Programs <- MCPrograms
INVARIANTS FramesCoverSlots SameResult LegalAssignments TailCallsReuseFrame
CHECK_DEADLOCK FALSE
