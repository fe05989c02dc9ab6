SPECIFICATION Spec
CONSTANTS
    Names = {"x", "pi", "_"}
    Std = {"pi", "tau"}
    Max = 2
    Commands <- MCCommands
INVARIANTS
    OutputShown
PROPERTIES
    UnderscoreIsOnlyValue
    DefinitionsTogether
    ExitEnds
