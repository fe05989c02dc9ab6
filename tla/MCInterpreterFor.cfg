SPECIFICATION Spec
CONSTANTS
    Builtins <- MCBuiltins
    SymbolOrder <- MCSymbolOrder
    Programs <- OverflowPrograms
INVARIANT FramesCoverSlots
CHECK_DEADLOCK FALSE
