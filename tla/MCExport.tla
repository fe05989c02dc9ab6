------------------------------- MODULE MCExport -------------------------------
(* Two processes that write the same files: one alone, both as the frames  *)
(* of an image sequence, one after a C++ compilation, or none (stdout).    *)
EXTENDS Export, TLC

CONSTANTS f1, f2, p1, p2, t1, t2

ExportJobs ==
    {[targets |-> <<f1>>, jit |-> FALSE], [targets |-> <<f1>>, jit |-> TRUE],
     [targets |-> <<f1, f2>>, jit |-> FALSE],
     [targets |-> <<Stdout>>, jit |-> FALSE]}

Symmetry == Permutations({p1, p2}) \cup Permutations({t1, t2})
===============================================================================
