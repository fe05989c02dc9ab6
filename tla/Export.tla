-------------------------------- MODULE Export --------------------------------
(***************************************************************************)
(* Batch export (curv/curv.cc, curv/export.cc): each process evaluates a   *)
(* program and writes the result to its targets by way of a temporary file *)
(* (libcurv/io/output_file.cc).  With -O jit it compiles the shape with a  *)
(* C++ compiler first; those files are registered in libcurv/io/tempfile.cc*)
(* and removed at exit.  Any step of it can fail or be the last one.       *)
(*                                                                         *)
(* A file's data is known by who wrote it, for which target, how many of   *)
(* its parts are there, and whether a write to the stream has failed.      *)
(***************************************************************************)
EXTENDS Naturals, Sequences, FiniteSets

CONSTANTS
    Procs,       \* process ids; the system gives them out again
    Files,       \* the files the user names
    Jobs,        \* what curv may be told to do: the targets, and -O jit
    Ticks,       \* the values of clock() at which a temporary file is named
    Parts,       \* a complete file has this many parts
    Spaces,      \* whether the disk has space "enough", or is "short" of it
    MaxRuns      \* bound: how many times curv is started

Stdout == "stdout"    \* the target without -o

ASSUME JobsAssumption ==
    \A j \in Jobs : /\ j.jit \in BOOLEAN
                    /\ j.targets \in Seq(Files) \cup {<<Stdout>>}
                    /\ j.targets # <<>>
                    /\ j.jit => Len(j.targets) = 1  \* -O jit is for meshes
ASSUME BoundsAssumption ==
    /\ Parts \in Nat \ {0} /\ MaxRuns \in Nat /\ Spaces \subseteq {"enough", "short"}

NoJob  == [targets |-> <<>>, jit |-> FALSE]
NoTemp == <<>>
OutputTemp(p, t) == <<p, t>>          \* ,curv-PID-CLOCK.tmp
Registrable(p) == {<<p, s>> : s \in {".cpp", ".o", ".so"}}  \* ,curv-PID-0.cpp
TempsOf(p) == {OutputTemp(p, t) : t \in Ticks} \cup Registrable(p)
Paths == Files \cup UNION {TempsOf(p) : p \in Procs}

(* The temporary files are apart from what the user names; the creators of *)
(* data are processes, the user (before curv ran) and nobody (no file).    *)
ASSUME PathsAssumption ==
    /\ Files \cap {Stdout, NoTemp} = {}
    /\ \A p \in Procs : TempsOf(p) \cap Files = {}
    /\ Ticks \cap {".cpp", ".o", ".so"} = {}
    /\ Procs \cap {"user", "nobody"} = {}

Data(p, f, n, s) == [by |-> p, of |-> f, parts |-> n, stream |-> s]
Absent      == Data("nobody", "nothing", 0, "good")
Old         == Data("user", "before", Parts, "good")
Whole(p, f) == Data(p, f, Parts, "good")
Cut(p, f)   == {Data(p, f, n, "bad") : n \in 0..(Parts - 1)}
Code(p, suffix) == Whole(p, suffix)

VARIABLES
    disk, space, \* what each path holds, and whether a write may fail
    stdout,      \* how much of the result a process has printed
    job, pc,     \* of each process: what it does, and how far it has come
    frame,       \* the number of the target that is next
    temp,        \* Output_File::tempfile_path_
    filled,      \* how many parts the exporter has written
    registered,  \* tempfiles
    error,       \* what the exception says
    found,       \* the temporary files that existed when the process started
    runs         \* the number of processes started so far

processVars == <<job, pc, frame, temp, filled, registered, error, found>>
vars == <<disk, space, stdout, processVars, runs>>

Running == {"eval", "source", "compile", "link", "fill", "copy", "close",
            "unwind", "exit"}
Stopped == {"idle", "success", "failure", "crashed"}
Errors  == {"none", "thrown", "compile"}

Present(paths) == {f \in paths : disk[f] # Absent}
Target(p) == job[p].targets[frame[p]]

Init ==
    /\ disk \in {[f \in Paths |-> IF f \in old THEN Old ELSE Absent] :
                    old \in SUBSET Files}
    /\ space \in Spaces
    /\ stdout = [p \in Procs |-> 0]
    /\ job = [p \in Procs |-> NoJob] /\ pc = [p \in Procs |-> "idle"]
    /\ frame = [p \in Procs |-> 1] /\ temp = [p \in Procs |-> NoTemp]
    /\ filled = [p \in Procs |-> 0]
    /\ registered = [p \in Procs |-> {}] /\ error = [p \in Procs |-> "none"]
    /\ found = [p \in Procs |-> {}] /\ runs = 0

(* main() up to the call of the exporter.  The system may reuse a process  *)
(* id; what that process left on the disk is still there.                  *)
Start(p) ==
    /\ pc[p] \in Stopped /\ runs < MaxRuns
    /\ runs' = runs + 1
    /\ \E j \in Jobs : job' = [job EXCEPT ![p] = j]
    /\ pc' = [pc EXCEPT ![p] = "eval"]
    /\ frame' = [frame EXCEPT ![p] = 1]
    /\ stdout' = [stdout EXCEPT ![p] = 0]
    /\ registered' = [registered EXCEPT ![p] = {}]
    /\ error' = [error EXCEPT ![p] = "none"]
    /\ found' = [found EXCEPT ![p] = Present(TempsOf(p))]
    /\ UNCHANGED <<disk, temp, filled>>

(* Output_File::open() and path(): a name is tried until there is no such  *)
(* file.                                                                   *)
MakeTemp(p) ==
    /\ pc[p] = "eval"
    /\ \E t \in Ticks :
          LET path == OutputTemp(p, t) IN
          /\ disk[path] = Absent
          /\ disk' = [disk EXCEPT ![path] = Data(p, Target(p), 0, "good")]
          /\ temp' = [temp EXCEPT ![p] = path]
    /\ filled' = [filled EXCEPT ![p] = 0]
    /\ pc' = [pc EXCEPT ![p] = IF job[p].jit THEN "source" ELSE "fill"]
    /\ UNCHANGED <<stdout, job, frame, registered, error, found, runs>>

(* A step of the C++ compilation: it registers files and then creates one. *)
Bug_SourceOnly(p, suffixes) ==
    registered' = [registered EXCEPT ![p] = @ \cup {<<p, ".cpp">>}]
Register(p, suffixes) ==
    registered' = [registered EXCEPT ![p] = @ \cup {<<p, s>> : s \in suffixes}]
Create(p, suffix) == disk' = [disk EXCEPT ![<<p, suffix>>] = Code(p, suffix)]
Goto(p, next) ==
    /\ pc' = [pc EXCEPT ![p] = next]
    /\ UNCHANGED <<stdout, job, frame, temp, filled, found, runs>>
Throw(p, e) == Goto(p, "unwind") /\ error' = [error EXCEPT ![p] = e]

CreateSource(p) ==
    /\ pc[p] = "source"
    /\ Register(p, {".cpp"})
    /\ \/ Create(p, ".cpp") /\ Goto(p, "compile") /\ UNCHANGED error
       \/ UNCHANGED disk /\ Throw(p, "thrown")

Compile(p) ==
    /\ pc[p] = "compile"
    /\ Create(p, ".o")
    /\ Goto(p, "link") /\ UNCHANGED <<registered, error>>

(* preserve_tempfile(): the message tells the user to look at the source.  *)
CompileFails(p) ==
    /\ pc[p] = "compile"
    /\ registered' = [registered EXCEPT ![p] = @ \ {<<p, ".cpp">>}]
    /\ Throw(p, "compile")
    /\ UNCHANGED disk

LinkAndLoad(p) ==
    /\ pc[p] = "link"
    /\ Register(p, {".o", ".so"})
    /\ \/ Create(p, ".so") /\ Goto(p, "fill") /\ UNCHANGED error
       \/ (Create(p, ".so") \/ UNCHANGED disk) /\ Throw(p, "thrown")

(* The exporter writes a part.  A stream that has failed ignores the rest, *)
(* and nobody asks whether it has.                                         *)
Fill(p) ==
    /\ pc[p] = "fill" /\ filled[p] < Parts
    /\ filled' = [filled EXCEPT ![p] = @ + 1]
    /\ \/ /\ disk[temp[p]].stream = "good"
          /\ disk' = [disk EXCEPT ![temp[p]].parts = @ + 1]
       \/ /\ disk[temp[p]].stream = "bad" \/ space = "short"
          /\ disk' = [disk EXCEPT ![temp[p]].stream = "bad"]
    /\ UNCHANGED <<stdout, job, pc, frame, temp, registered, error, found, runs>>

(* The exporter has returned.                                              *)
Bug_StreamIsOpen(p) == temp[p] # NoTemp
Complete(p) == filled[p] = Parts

(* The program, the parameters, the compilation to C++ or the exporter     *)
(* throws; or maketemp() does.                                             *)
Fails(p) ==
    /\ pc[p] \in {"eval", "source", "compile", "fill"}
    /\ (pc[p] = "fill") => ~Complete(p)
    /\ Throw(p, "thrown")
    /\ UNCHANGED <<disk, registered>>

(* Output_File::commit() for a file                                        *)
Rename(p) ==
    /\ pc[p] = "fill" /\ Complete(p) /\ Target(p) # Stdout
    /\ disk' = [disk EXCEPT ![Target(p)] = disk[temp[p]], ![temp[p]] = Absent]
    /\ frame' = [frame EXCEPT ![p] = @ + 1]
    /\ pc' = [pc EXCEPT ![p] = "close"]
    /\ UNCHANGED <<stdout, job, temp, filled, registered, error, found, runs>>

Bug_NotChecked(p) ==
    /\ pc[p] = "fill" /\ Complete(p) /\ Target(p) # Stdout
    /\ pc' = [pc EXCEPT ![p] = "close"]
    /\ frame' = [frame EXCEPT ![p] = @ + 1]
    /\ UNCHANGED <<disk, stdout, job, temp, filled, registered, error, found, runs>>
RenameFails(p) ==
    /\ pc[p] = "fill" /\ Complete(p) /\ Target(p) # Stdout
    /\ Throw(p, "thrown")
    /\ UNCHANGED <<disk, registered>>

(* Output_File::commit() for the standard output                           *)
BeginCopy(p) ==
    /\ pc[p] = "fill" /\ Complete(p) /\ Target(p) = Stdout
    /\ Goto(p, "copy")
    /\ UNCHANGED <<disk, registered, error>>

Copy(p) ==
    /\ pc[p] = "copy"
    /\ IF stdout[p] < disk[temp[p]].parts
       THEN /\ stdout' = [stdout EXCEPT ![p] = @ + 1]
            /\ UNCHANGED <<pc, frame>>
       ELSE /\ pc' = [pc EXCEPT ![p] = "close"]
            /\ frame' = [frame EXCEPT ![p] = @ + 1]
            /\ UNCHANGED stdout
    /\ UNCHANGED <<disk, job, temp, filled, registered, error, found, runs>>

(* Output_File::~Output_File(): in the case of an image sequence the next  *)
(* frame follows, otherwise the process ends.                              *)
RemoveTemp(p) ==
    IF temp[p] = NoTemp THEN disk ELSE [disk EXCEPT ![temp[p]] = Absent]

Close(p) ==
    /\ pc[p] \in {"close", "unwind"}
    /\ disk' = RemoveTemp(p)
    /\ temp' = [temp EXCEPT ![p] = NoTemp]
    /\ pc' = [pc EXCEPT ![p] =
                IF pc[p] = "close" /\ frame[p] <= Len(job[p].targets)
                THEN "eval" ELSE "exit"]
    /\ UNCHANGED <<stdout, job, frame, filled, registered, error, found, runs>>

(* remove_all_tempfiles(), at exit                                         *)
Exit(p) ==
    /\ pc[p] = "exit"
    /\ disk' = [f \in Paths |-> IF f \in registered[p] THEN Absent ELSE disk[f]]
    /\ pc' = [pc EXCEPT ![p] = IF error[p] = "none" THEN "success" ELSE "failure"]
    /\ UNCHANGED <<stdout, job, frame, temp, filled, registered, error,
                   found, runs>>

(* The process is killed: no destructor runs.                              *)
Crash(p) ==
    /\ pc[p] \in Running
    /\ pc' = [pc EXCEPT ![p] = "crashed"]
    /\ temp' = [temp EXCEPT ![p] = NoTemp]
    /\ UNCHANGED <<disk, stdout, job, frame, filled, registered, error,
                   found, runs>>

Finished ==
    /\ runs = MaxRuns /\ \A p \in Procs : pc[p] \in Stopped
    /\ UNCHANGED vars

Next ==
    \/ Finished
    \/ \E p \in Procs :
        /\ \/ Start(p) \/ MakeTemp(p) \/ Fill(p) \/ Fails(p)
           \/ CreateSource(p) \/ Compile(p) \/ CompileFails(p) \/ LinkAndLoad(p)
           \/ Rename(p) \/ RenameFails(p) \/ BeginCopy(p) \/ Copy(p)
           \/ Close(p) \/ Exit(p) \/ Crash(p)
        /\ UNCHANGED space

Spec == Init /\ [][Next]_vars

-------------------------------------------------------------------------------

(* "We will not leave behind a partially written file": whenever a reader  *)
(* looks at a target, and whatever fails or is killed, it finds what was   *)
(* there before or the data that one process has exported to that target.  *)
(* That data is complete, but for one case: a write of it has failed for   *)
(* want of space, which commit() does not ask about; then it is cut off    *)
(* there.  Nothing else makes it incomplete.                               *)
Exported(p, f) ==
    {Whole(p, f)} \cup {data \in Cut(p, f) : space = "short"}
NoPartialFile ==
    \A f \in Files :
        disk[f] \in {Absent, Old} \cup UNION {Exported(p, f) : p \in Procs}

(* A process that ends by itself, well or with an error, leaves no         *)
(* temporary file but the C++ source that "c++ compile failed; see ..."    *)
(* names, and that one it does leave.                                      *)
NothingLeftBehind ==
    \A p \in Procs :
        LET named == IF pc[p] = "failure" /\ error[p] = "compile" THEN {<<p, ".cpp">>} ELSE {}
        IN pc[p] \in {"success", "failure"} =>
              /\ Present(TempsOf(p)) \subseteq found[p] \cup named
              /\ named \subseteq Present(TempsOf(p))

(* Each step of a process replaces its next target by the data that it has *)
(* exported to it, or changes none, and success means that it has replaced *)
(* all of them.  The data are complete, unless the disk is short of space. *)
FilesOf(targets) == IF targets = <<Stdout>> THEN <<>> ELSE targets
Todo(p)  == FilesOf(SubSeq(job[p].targets, frame[p], Len(job[p].targets)))
Status(p) == IF pc[p] \in Running THEN "running"
             ELSE IF pc[p] = "crashed" THEN "failure" ELSE pc[p]
Contract == INSTANCE AtomicExport WITH
    Initial  <- {Absent, Old},
    Requests <- {FilesOf(j.targets) : j \in Jobs},
    reliable <- space = "enough",
    file     <- [f \in Files |-> disk[f]],
    todo     <- [p \in Procs |-> Todo(p)],
    status   <- [p \in Procs |-> Status(p)]
ImplementsAtomicExport == Contract!Init /\ [][Contract!Next]_(Contract!vars)
===============================================================================
