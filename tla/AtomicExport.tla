----------------------------- MODULE AtomicExport -----------------------------
(***************************************************************************)
(* What `curv -o file` promises (libcurv/io/output_file.h, curv/export.cc):*)
(* each process replaces its target files one after the other, each in one *)
(* step, and reports success only if it has replaced all of them.  A       *)
(* process that fails, or dies, leaves the rest alone.  The data are       *)
(* complete where every write can be relied on; where a write may fail     *)
(* they may be cut off, which nobody is told.                              *)
(***************************************************************************)
EXTENDS Sequences

CONSTANTS
    Procs,        \* processes
    Files,        \* the files they may be told to write
    Requests,     \* the sequences of targets they may be told to write
    Initial,      \* what a file may hold before
    Whole(_, _),  \* what process p exports to file f
    Cut(_, _)     \* what a write that fails may leave of it

VARIABLES
    reliable, \* no write fails
    file,     \* the data in each file
    todo,     \* the targets a process has yet to replace
    status    \* idle, running, success or failure

vars == <<reliable, file, todo, status>>

Init ==
    /\ reliable \in BOOLEAN
    /\ file \in [Files -> Initial]
    /\ todo = [p \in Procs |-> <<>>]
    /\ status = [p \in Procs |-> "idle"]

Start(p) ==
    /\ status[p] # "running"
    /\ status' = [status EXCEPT ![p] = "running"]
    /\ \E targets \in Requests : todo' = [todo EXCEPT ![p] = targets]
    /\ UNCHANGED <<reliable, file>>

Exports(p, f) == {Whole(p, f)} \cup {data \in Cut(p, f) : ~reliable}

Replace(p) ==
    /\ status[p] = "running" /\ todo[p] # <<>>
    /\ \E data \in Exports(p, Head(todo[p])) :
          file' = [file EXCEPT ![Head(todo[p])] = data]
    /\ todo' = [todo EXCEPT ![p] = Tail(todo[p])]
    /\ UNCHANGED <<reliable, status>>

Succeed(p) ==
    /\ status[p] = "running" /\ todo[p] = <<>>
    /\ status' = [status EXCEPT ![p] = "success"]
    /\ UNCHANGED <<reliable, file, todo>>

Fail(p) ==
    /\ status[p] = "running"
    /\ status' = [status EXCEPT ![p] = "failure"]
    /\ UNCHANGED <<reliable, file, todo>>

Next == \E p \in Procs : Start(p) \/ Replace(p) \/ Succeed(p) \/ Fail(p)

Spec == Init /\ [][Next]_vars
===============================================================================
