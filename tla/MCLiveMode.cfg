SPECIFICATION Spec
CONSTANTS
    MaxSaves = 2
    MaxTime = 5
    HasEditor = TRUE
    DistinctTimes = TRUE
INVARIANTS
    UnchangedIsShown
PROPERTIES
    LastSaveDisplayed
    EditorEndsCurv
