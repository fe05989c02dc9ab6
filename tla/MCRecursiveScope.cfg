SPECIFICATION Spec
CONSTANTS
    N = 3
    Programs <- MCPrograms
INVARIANTS
    DependencyOrder
    ActionsAreComponents
    RejectsDataCycles
    StackDiscipline
