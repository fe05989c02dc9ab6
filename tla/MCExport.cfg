SPECIFICATION Spec
CONSTANTS
    p1 = p1
    p2 = p2
    f1 = f1
    f2 = f2
    t1 = t1
    t2 = t2
    Procs = {p1, p2}
    Files = {f1, f2}
    Ticks = {t1, t2}
    Jobs <- ExportJobs
    Parts = 2
    Spaces = {"enough", "short"}
    MaxRuns = 2
SYMMETRY Symmetry
INVARIANTS
    NoPartialFile
    NothingLeftBehind
PROPERTIES
    ImplementsAtomicExport
