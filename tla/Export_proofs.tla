----------------------------- MODULE Export_proofs -----------------------------
(***************************************************************************)
(* Proofs about Export for any processes, targets and sizes of files, and  *)
(* whatever fails or is killed: a process touches its own temporary files  *)
(* until the one step that replaces a target.                              *)
(***************************************************************************)
EXTENDS Export, SequenceTheorems, TLAPS

Step(p) ==
    \/ Start(p) \/ MakeTemp(p) \/ Fill(p) \/ Fails(p)
    \/ CreateSource(p) \/ Compile(p) \/ CompileFails(p) \/ LinkAndLoad(p)
    \/ Rename(p) \/ RenameFails(p) \/ BeginCopy(p) \/ Copy(p)
    \/ Close(p) \/ Exit(p) \/ Crash(p)

Outputs(p) == {OutputTemp(p, t) : t \in Ticks}

Contents ==
        [by : Procs \cup {"user", "nobody"},
         of : Files \cup {Stdout, ".cpp", ".o", ".so", "nothing", "before"},
         parts : 0..Parts, stream : {"good", "bad"}]

TypeOK ==
    /\ disk \in [Paths -> Contents] /\ space \in Spaces
    /\ stdout \in [Procs -> Nat] /\ runs \in Nat
    /\ job \in [Procs -> Jobs \cup {NoJob}]
    /\ pc \in [Procs -> Running \cup Stopped]
    /\ frame \in [Procs -> Nat \ {0}]
    /\ temp \in [Procs -> Paths \cup {NoTemp}]
    /\ filled \in [Procs -> 0..Parts]
    /\ registered \in [Procs -> SUBSET Paths]
    /\ error \in [Procs -> Errors]
    /\ found \in [Procs -> SUBSET Paths]

(* Where the temporary files are: those of one process are apart from the  *)
(* targets, from those of another, and the output from the code.           *)
LEMMA PathFacts ==
    /\ Files \subseteq Paths
    /\ NoTemp \notin Paths
    /\ \A p \in Procs :
         /\ TempsOf(p) \subseteq Paths /\ TempsOf(p) \cap Files = {}
         /\ TempsOf(p) = Outputs(p) \cup Registrable(p)
         /\ Outputs(p) \cap Registrable(p) = {}
         /\ Registrable(p) = {<<p, ".cpp">>, <<p, ".o">>, <<p, ".so">>}
         /\ \A q \in Procs : p # q => TempsOf(p) \cap TempsOf(q) = {}
<1> USE DEF Paths, TempsOf, Outputs, OutputTemp, Registrable, NoTemp
<1>1. Files \subseteq Paths
  OBVIOUS
<1>2. ASSUME NEW p \in Procs
      PROVE  /\ TempsOf(p) \subseteq Paths /\ TempsOf(p) \cap Files = {}
             /\ TempsOf(p) = Outputs(p) \cup Registrable(p)
             /\ Registrable(p) = {<<p, ".cpp">>, <<p, ".o">>, <<p, ".so">>}
  BY <1>2, PathsAssumption
<1>3. ASSUME NEW p \in Procs PROVE Outputs(p) \cap Registrable(p) = {}
  BY <1>3, PathsAssumption
<1>4. ASSUME NEW p \in Procs, NEW q \in Procs, p # q
      PROVE  TempsOf(p) \cap TempsOf(q) = {}
  BY <1>4
<1>5. NoTemp \notin Paths
  BY PathsAssumption
<1>6. QED
  BY <1>1, <1>2, <1>3, <1>4, <1>5

(* The data of files that are distinguished have the type of data.         *)
LEMMA DataFacts ==
    /\ Absent \in Contents /\ Old \in Contents /\ Absent # Old
    /\ \A p \in Procs, s \in {".cpp", ".o", ".so"} :
          Code(p, s) \in Contents /\ Code(p, s) # Absent
    /\ \A p \in Procs, f \in Files : Whole(p, f) \in Contents
  BY BoundsAssumption, PathsAssumption DEF Contents, Data, Absent, Old, Code, Whole

(* The targets of a job that is under way.                                 *)
LEMMA TargetFacts ==
    ASSUME NEW j \in Jobs
    PROVE  /\ j.targets = <<Stdout>> \/ j.targets \in Seq(Files)
           /\ Len(j.targets) \in Nat \ {0}
           /\ \A i \in 1..Len(j.targets) : j.targets[i] \in Files \cup {Stdout}
           /\ \A i \in 1..Len(j.targets) :
                j.targets[i] = Stdout <=> j.targets = <<Stdout>>
<1>1. CASE j.targets = <<Stdout>>
  BY <1>1
<1>2. CASE j.targets \in Seq(Files)
  <2>1. /\ Len(j.targets) \in Nat
        /\ \A i \in 1..Len(j.targets) : j.targets[i] \in Files
    BY <1>2, LenProperties, ElementOfSeq
  <2>2. j.targets # <<>>
    BY JobsAssumption
  <2>3. Len(j.targets) \in Nat \ {0}
    BY <1>2, <2>2, EmptySeq
  <2>4. j.targets # <<Stdout>>
    <3>1. SUFFICES ASSUME j.targets = <<Stdout>> PROVE FALSE
      OBVIOUS
    <3>2. j.targets[1] = Stdout /\ 1 \in 1..Len(j.targets)
      BY <2>3, <3>1
    <3>3. QED
      BY <2>1, <3>2, PathsAssumption
  <2>5. \A i \in 1..Len(j.targets) : j.targets[i] # Stdout
    BY <2>1, PathsAssumption
  <2>6. QED
    BY <1>2, <2>1, <2>3, <2>4, <2>5
<1>3. QED
  BY <1>1, <1>2, JobsAssumption

-----------------------------------------------------------------------------

HasOutput == {"source", "compile", "link", "fill", "copy"}

(* How far a process has come, and which files it holds by now.            *)
ProcInv(p) ==
    /\ pc[p] # "idle" => job[p] \in Jobs
    /\ pc[p] \in HasOutput \cup {"eval"} =>
         frame[p] \in 1..Len(job[p].targets)
    /\ temp[p] \in Outputs(p) \cup {NoTemp}
    /\ pc[p] \in HasOutput => temp[p] \in Outputs(p)
    /\ pc[p] \in Stopped \cup {"eval", "exit"} => temp[p] = NoTemp
    /\ registered[p] \subseteq Registrable(p)
    /\ pc[p] \in HasOutput \cup {"eval", "close", "success"} =>
         error[p] = "none"
    /\ pc[p] = "failure" => error[p] # "none"
    /\ pc[p] = "unwind" => error[p] # "none"
    /\ pc[p] = "copy" => Target(p) = Stdout
    /\ pc[p] = "exit" /\ error[p] = "none" => frame[p] > Len(job[p].targets)

(* The temporary file has the parts that were written, all of them or those*)
(* before a write that failed.                                             *)
Written(p, n) ==
    {Data(p, Target(p), n, "good")} \cup
        (IF space = "short" THEN {Data(p, Target(p), i, "bad") : i \in 0..(n - 1)}
                            ELSE {})

OutputInv(p) == pc[p] \in HasOutput => disk[temp[p]] \in Written(p, filled[p])

(* What a process will remove, and the file it must not remove.            *)
Kept(p) == IF error[p] = "compile" THEN {<<p, ".cpp">>} ELSE {}
Object(p) == IF pc[p] = "link" THEN {<<p, ".o">>} ELSE {}
Here(p) == {x \in TempsOf(p) : disk[x] # Absent}

TempsInv(p) ==
    /\ pc[p] \in Running =>
         Here(p) \subseteq found[p] \cup {temp[p]} \cup registered[p]
                              \cup Kept(p) \cup Object(p)
    /\ pc[p] \in {"success", "failure"} =>
         Here(p) \subseteq found[p] \cup Kept(p)
    /\ pc[p] = "compile" => <<p, ".cpp">> \in Here(p)
    /\ error[p] = "compile" /\ pc[p] \in {"unwind", "exit", "failure"} =>
         <<p, ".cpp">> \in Here(p) /\ <<p, ".cpp">> \notin registered[p]

IInv ==
    /\ TypeOK
    /\ \A p \in Procs : ProcInv(p) /\ OutputInv(p) /\ TempsInv(p)
    /\ NoPartialFile

(* What is written is what can be exported in the end, and is data.        *)
LEMMA WrittenFacts ==
    ASSUME NEW p \in Procs, Target(p) \in Files \cup {Stdout}, NEW n \in 0..Parts
    PROVE  /\ Written(p, n) \subseteq Contents
           /\ Written(p, Parts) = Exported(p, Target(p))
<1>1. ASSUME NEW m \in 0..Parts, NEW c \in {"good", "bad"}
      PROVE  Data(p, Target(p), m, c) \in Contents
  BY <1>1 DEF Data, Contents
<1>2. Written(p, n) \subseteq Contents
  <2>1. n \in 0..Parts /\ \A i \in 0..(n - 1) : i \in 0..Parts
    BY BoundsAssumption
  <2>2. QED
    BY <1>1, <2>1 DEF Written
<1>3. Written(p, Parts) = Exported(p, Target(p))
  BY BoundsAssumption DEF Written, Exported, Cut, Whole
<1>4. QED
  BY <1>2, <1>3

(* Another part, or the write that fails, or one that comes too late.      *)
LEMMA PartWritten ==
    ASSUME NEW p \in Procs, OutputInv(p), Fill(p), filled[p] \in Nat,
           space \in Spaces
    PROVE  \E d \in Written(p, filled[p] + 1) :
               disk' = [disk EXCEPT ![temp[p]] = d]
<1> DEFINE old == disk[temp[p]]
           n   == filled[p]
           R(i, s) == [by |-> p, of |-> Target(p), parts |-> i, stream |-> s]
<1>1. old \in Written(p, n)
  BY DEF OutputInv, HasOutput, Fill
<1>2. \/ old = R(n, "good")
      \/ space = "short" /\ \E i \in 0..(n - 1) : old = R(i, "bad")
  BY <1>1 DEF Written, Data
<1>3. R(n + 1, "good") \in Written(p, n + 1)
  BY DEF Written, Data
<1>4. ASSUME space = "short", NEW i \in 0..n
      PROVE  R(i, "bad") \in Written(p, n + 1)
  <2>1. i \in 0..((n + 1) - 1)
    OBVIOUS
  <2>2. QED
    BY <1>4, <2>1 DEF Written, Data
<1> HIDE DEF R
<1>5. CASE old.stream = "good" /\ disk' = [disk EXCEPT ![temp[p]].parts = @ + 1]
  <2>1. \A i : old # R(i, "bad")
    BY <1>5 DEF R
  <2>2. old = R(n, "good")
    BY <1>2, <2>1
  <2>3. disk' = [disk EXCEPT ![temp[p]] = [old EXCEPT !.parts = old.parts + 1]]
    BY <1>5, Zenon
  <2>4. [old EXCEPT !.parts = old.parts + 1] = R(n + 1, "good")
    BY <2>2 DEF R
  <2>5. disk' = [disk EXCEPT ![temp[p]] = R(n + 1, "good")]
    BY <2>3, <2>4, Zenon
  <2>6. QED
    BY <1>3, <2>5
<1>6. CASE /\ old.stream = "bad" \/ space = "short"
           /\ disk' = [disk EXCEPT ![temp[p]].stream = "bad"]
  <2>1. space = "short"
    BY <1>2, <1>6 DEF R
  <2>2. PICK i \in 0..n, c \in {"good", "bad"} : old = R(i, c)
    BY <1>2
  <2>3. disk' = [disk EXCEPT ![temp[p]] = [old EXCEPT !.stream = "bad"]]
    BY <1>6, Zenon
  <2>4. [old EXCEPT !.stream = "bad"] = R(i, "bad")
    BY <2>2 DEF R
  <2>5. disk' = [disk EXCEPT ![temp[p]] = R(i, "bad")]
    BY <2>3, <2>4, Zenon
  <2>6. QED
    BY <1>4, <2>1, <2>5
<1>7. QED
  BY <1>5, <1>6 DEF Fill

(* Every step of a process keeps the types.                                *)
LEMMA TypeStep ==
    ASSUME TypeOK, NEW p \in Procs, ProcInv(p), OutputInv(p), Step(p),
           UNCHANGED space
    PROVE  TypeOK'
<1> USE DEF TypeOK, Running, Stopped
<1>0. /\ pc[p] \in HasOutput \cup {"eval"} => Target(p) \in Files \cup {Stdout}
      /\ \A s \in {".cpp", ".o", ".so"} : <<p, s>> \in Paths
      /\ Outputs(p) \subseteq Paths /\ Registrable(p) \subseteq Paths
      /\ Files \subseteq Paths
  BY TargetFacts, PathFacts DEF ProcInv, Target, HasOutput
<1>1. CASE Start(p)
  <2>1. Present(TempsOf(p)) \subseteq Paths
    BY PathFacts DEF Present
  <2>2. QED
    BY <1>1, <2>1 DEF Start, Errors
<1>2. CASE MakeTemp(p)
  <2>1. PICK t \in Ticks :
           /\ disk' = [disk EXCEPT ![OutputTemp(p, t)] =
                         Data(p, Target(p), 0, "good")]
           /\ temp' = [temp EXCEPT ![p] = OutputTemp(p, t)]
    BY <1>2 DEF MakeTemp
  <2>2. Data(p, Target(p), 0, "good") \in Contents
    BY <1>0, <1>2, BoundsAssumption DEF MakeTemp, Data, Contents
  <2>3. OutputTemp(p, t) \in Paths
    BY <1>0 DEF Outputs
  <2>4. disk' \in [Paths -> Contents] /\ temp' \in [Procs -> Paths \cup {NoTemp}]
    BY <2>1, <2>2, <2>3
  <2>5. QED
    BY <1>2, <2>4, BoundsAssumption DEF MakeTemp
<1>3. CASE Fill(p)
  <2>1. PICK d \in Written(p, filled[p] + 1) :
               disk' = [disk EXCEPT ![temp[p]] = d]
    BY <1>3, PartWritten, BoundsAssumption
  <2>2. filled[p] + 1 \in 0..Parts /\ filled' = [filled EXCEPT ![p] = @ + 1]
    BY <1>3, BoundsAssumption DEF Fill
  <2>3. Target(p) \in Files \cup {Stdout}
    BY <1>0, <1>3 DEF Fill, HasOutput
  <2>4. d \in Contents
    BY <2>1, <2>2, <2>3, WrittenFacts
  <2>5. disk' \in [Paths -> Contents]
    BY <2>1, <2>4
  <2>6. QED
    BY <1>3, <2>2, <2>5 DEF Fill
<1>4. CASE Fails(p) \/ RenameFails(p) \/ BeginCopy(p)
  BY <1>4 DEF Fails, RenameFails, BeginCopy, Throw, Goto, Errors
<1>5. CASE CreateSource(p) \/ Compile(p) \/ LinkAndLoad(p)
  <2>1. \A s \in {".cpp", ".o", ".so"} :
           Create(p, s) => disk' \in [Paths -> Contents]
    BY <1>0, DataFacts DEF Create
  <2>2. \A S : S \subseteq {".cpp", ".o", ".so"} /\ Register(p, S) =>
           registered' \in [Procs -> SUBSET Paths]
    BY <1>0 DEF Register
  <2>3. disk' \in [Paths -> Contents] /\ registered' \in [Procs -> SUBSET Paths]
    BY <1>5, <2>1, <2>2 DEF CreateSource, Compile, LinkAndLoad
  <2>4. QED
    BY <1>5, <2>3
    DEF CreateSource, Compile, LinkAndLoad, Throw, Goto, Errors
<1>6. CASE CompileFails(p)
  BY <1>6 DEF CompileFails, Throw, Goto, Errors
<1>7. CASE Rename(p)
  <2>1. temp[p] \in Paths /\ disk[temp[p]] \in Contents
    BY <1>0, <1>7 DEF Rename, ProcInv, HasOutput
  <2>2. disk' \in [Paths -> Contents]
    BY <1>7, <2>1, DataFacts DEF Rename
  <2>3. QED
    BY <1>7, <2>2 DEF Rename
<1>8. CASE Copy(p)
  BY <1>8 DEF Copy
<1>9. CASE Close(p)
  <2>1. disk' \in [Paths -> Contents]
    BY <1>9, DataFacts DEF Close, RemoveTemp
  <2>2. QED
    BY <1>9, <2>1 DEF Close
<1>10. CASE Exit(p)
  <2>1. disk' \in [Paths -> Contents]
    BY <1>10, DataFacts DEF Exit
  <2>2. QED
    BY <1>10, <2>1 DEF Exit
<1>11. CASE Crash(p)
  BY <1>11 DEF Crash
<1>12. QED
  BY <1>1, <1>2, <1>3, <1>4, <1>5, <1>6, <1>7, <1>8, <1>9, <1>10, <1>11
  DEF Step

(* What a step of p leaves alone: the other processes, their temporary     *)
(* files and, unless it renames, the targets.                              *)
LEMMA Locality ==
    ASSUME TypeOK, NEW p \in Procs, ProcInv(p), Step(p)
    PROVE  /\ \A q \in Procs \ {p} :
                /\ job'[q] = job[q] /\ pc'[q] = pc[q] /\ frame'[q] = frame[q]
                /\ temp'[q] = temp[q] /\ filled'[q] = filled[q]
                /\ registered'[q] = registered[q]
                /\ error'[q] = error[q] /\ found'[q] = found[q]
           /\ \A q \in Procs \ {p} : \A x \in TempsOf(q) : disk'[x] = disk[x]
           /\ Rename(p) \/ \A f \in Files : disk'[f] = disk[f]
<1> USE DEF TypeOK
<1>1. \A q \in Procs \ {p} :
        /\ job'[q] = job[q] /\ pc'[q] = pc[q] /\ frame'[q] = frame[q]
        /\ temp'[q] = temp[q] /\ filled'[q] = filled[q]
        /\ registered'[q] = registered[q]
        /\ error'[q] = error[q] /\ found'[q] = found[q]
  BY DEF Step, Start, MakeTemp, Fill, Fails, CreateSource, Compile,
         CompileFails, LinkAndLoad, Rename, RenameFails, BeginCopy, Copy,
         Close, Exit, Crash, Throw, Goto, Register
<1>2. ASSUME NEW x \in Paths
      PROVE  \/ disk'[x] = disk[x] \/ x \in TempsOf(p)
             \/ Rename(p) /\ x = Target(p)
  <2>1. /\ \A s \in {".cpp", ".o", ".so"} : <<p, s>> \in TempsOf(p)
        /\ \A t \in Ticks : OutputTemp(p, t) \in TempsOf(p)
        /\ registered[p] \subseteq TempsOf(p)
        /\ temp[p] # NoTemp => temp[p] \in TempsOf(p)
        /\ pc[p] \in HasOutput => temp[p] \in TempsOf(p)
    BY PathFacts DEF ProcInv, Outputs
  <2>2. CASE Fill(p) \/ Rename(p)
    BY <1>2, <2>1, <2>2 DEF Fill, Rename, HasOutput
  <2>3. CASE Exit(p)
    BY <1>2, <2>1, <2>3 DEF Exit
  <2>4. CASE MakeTemp(p)
    BY <1>2, <2>1, <2>4 DEF MakeTemp
  <2>5. CASE CreateSource(p) \/ Compile(p) \/ LinkAndLoad(p)
    <3>1. UNCHANGED disk \/ \E s \in {".cpp", ".o", ".so"} : Create(p, s)
      BY <2>5 DEF CreateSource, Compile, LinkAndLoad
    <3>2. QED
      BY <1>2, <2>1, <3>1 DEF Create
  <2>6. CASE Close(p)
    BY <1>2, <2>1, <2>6 DEF Close, RemoveTemp
  <2>7. CASE UNCHANGED disk
    BY <2>7
  <2>8. QED
    BY <2>2, <2>3, <2>4, <2>5, <2>6, <2>7
    DEF Step, Start, Fails, CompileFails, RenameFails, BeginCopy, Copy, Crash
<1>3. Rename(p) => Target(p) \in Files
  BY TargetFacts DEF Rename, ProcInv, Target, HasOutput
<1>4. \A q \in Procs \ {p} : \A x \in TempsOf(q) : disk'[x] = disk[x]
  BY <1>2, <1>3, PathFacts
<1>5. Rename(p) \/ \A f \in Files : disk'[f] = disk[f]
  BY <1>2, PathFacts
<1>6. QED
  BY <1>1, <1>4, <1>5

(* So what is known of the other processes stays true.                     *)
LEMMA OthersStep ==
    ASSUME IInv, NEW p \in Procs, Step(p), UNCHANGED space,
           NEW q \in Procs, q # p
    PROVE  ProcInv(q)' /\ OutputInv(q)' /\ TempsInv(q)'
<1>1. TypeOK /\ ProcInv(p) /\ ProcInv(q) /\ OutputInv(q) /\ TempsInv(q)
  BY DEF IInv
<1>2. /\ job'[q] = job[q] /\ pc'[q] = pc[q] /\ frame'[q] = frame[q]
      /\ temp'[q] = temp[q] /\ filled'[q] = filled[q]
      /\ registered'[q] = registered[q]
      /\ error'[q] = error[q] /\ found'[q] = found[q]
      /\ \A x \in TempsOf(q) : disk'[x] = disk[x]
  BY <1>1, Locality
<1>3. ProcInv(q)'
  BY <1>1, <1>2 DEF ProcInv, Target
<1>4. OutputInv(q)'
  <2>1. CASE pc[q] \in HasOutput
    <3>1. disk'[temp'[q]] = disk[temp[q]]
      BY <1>1, <1>2, <2>1, PathFacts DEF ProcInv
    <3>2. Target(q)' = Target(q)
      BY <1>2 DEF Target
    <3>3. QED
      BY <1>1, <1>2, <3>1, <3>2 DEF OutputInv, Written, Data
  <2>2. QED
    BY <1>2, <2>1 DEF OutputInv
<1>5. TempsInv(q)'
  <2>1. Here(q)' = Here(q) /\ Kept(q)' = Kept(q) /\ Object(q)' = Object(q)
    BY <1>2 DEF Here, Kept, Object
  <2>2. QED
    BY <1>1, <1>2, <2>1 DEF TempsInv
<1>6. QED
  BY <1>3, <1>4, <1>5

(* A step keeps what its process's position says of it.                    *)
LEMMA ProcStep ==
    ASSUME TypeOK, NEW p \in Procs, ProcInv(p), Step(p), UNCHANGED space
    PROVE  ProcInv(p)'
<1> USE DEF TypeOK, ProcInv, HasOutput, Running, Stopped
<1>1. CASE Start(p)
  <2>1. job'[p] \in Jobs /\ pc'[p] = "eval" /\ frame'[p] = 1
    BY <1>1 DEF Start
  <2>2. 1 \in 1..Len(job'[p].targets)
    BY <2>1, TargetFacts
  <2>3. QED
    BY <1>1, <2>1, <2>2 DEF Start
<1>2. CASE MakeTemp(p)
  BY <1>2 DEF MakeTemp, Outputs
<1>3. CASE Fill(p)
  BY <1>3 DEF Fill
<1>4. CASE Fails(p) \/ RenameFails(p)
  BY <1>4 DEF Fails, RenameFails, Throw, Goto
<1>5. CASE CreateSource(p) \/ Compile(p) \/ LinkAndLoad(p)
  <2>1. registered'[p] \subseteq Registrable(p)
    <3>1. ASSUME NEW S \in SUBSET {".cpp", ".o", ".so"}, Register(p, S)
          PROVE  registered'[p] \subseteq Registrable(p)
      BY <3>1 DEF Register, Registrable
    <3>2. \/ Register(p, {".cpp"}) \/ Register(p, {".o", ".so"})
          \/ UNCHANGED registered
      BY <1>5 DEF CreateSource, Compile, LinkAndLoad
    <3>3. QED
      BY <3>1, <3>2
  <2>2. QED
    BY <1>5, <2>1
    DEF CreateSource, Compile, LinkAndLoad, Throw, Goto, Target
<1>6. CASE CompileFails(p)
  BY <1>6 DEF CompileFails, Throw, Goto
<1>7. CASE Rename(p)
  BY <1>7 DEF Rename
<1>8. CASE BeginCopy(p)
  BY <1>8 DEF BeginCopy, Goto, Target
<1>9. CASE Copy(p)
  BY <1>9 DEF Copy, Target
<1>10. CASE Close(p)
  BY <1>10 DEF Close
<1>11. CASE Exit(p)
  BY <1>11 DEF Exit
<1>12. CASE Crash(p)
  BY <1>12 DEF Crash
<1>13. QED
  BY <1>1, <1>2, <1>3, <1>4, <1>5, <1>6, <1>7, <1>8, <1>9, <1>10, <1>11, <1>12
  DEF Step

(* The temporary file holds what the exporter has written to it.           *)
LEMMA OutputStep ==
    ASSUME TypeOK, NEW p \in Procs, ProcInv(p), OutputInv(p), Step(p),
           UNCHANGED space
    PROVE  OutputInv(p)'
<1> SUFFICES ASSUME pc'[p] \in HasOutput
             PROVE  disk'[temp'[p]] \in Written(p, filled[p])'
  BY DEF OutputInv
<1> USE DEF TypeOK
<1>0. ASSUME Target(p)' = Target(p) PROVE \A n : Written(p, n)' = Written(p, n)
  BY <1>0 DEF Written, Data
<1>1. CASE MakeTemp(p)
  <2>1. PICK t \in Ticks :
           /\ disk' = [disk EXCEPT ![OutputTemp(p, t)] =
                         Data(p, Target(p), 0, "good")]
           /\ temp' = [temp EXCEPT ![p] = OutputTemp(p, t)]
    BY <1>1 DEF MakeTemp
  <2>2. disk'[temp'[p]] = Data(p, Target(p), 0, "good")
    BY <2>1, PathFacts DEF Outputs
  <2>3. filled'[p] = 0 /\ Target(p)' = Target(p)
    BY <1>1 DEF MakeTemp, Target
  <2>4. QED
    BY <2>2, <2>3 DEF Written, Data
<1>2. CASE Fill(p)
  <2>1. /\ temp'[p] = temp[p] /\ Target(p)' = Target(p) /\ pc[p] = "fill"
        /\ filled'[p] = filled[p] + 1 /\ filled[p] \in Nat
    BY <1>2, BoundsAssumption DEF Fill, Target
  <2>2. temp[p] \in Paths
    BY <2>1, PathFacts DEF ProcInv, HasOutput
  <2>3. PICK d \in Written(p, filled[p] + 1) :
               disk' = [disk EXCEPT ![temp[p]] = d]
    BY <1>2, <2>1, PartWritten
  <2>4. disk'[temp'[p]] \in Written(p, filled[p] + 1)
    BY <2>1, <2>2, <2>3
  <2>5. QED
    BY <2>1, <2>4 DEF Written, Data
<1>3. CASE CreateSource(p) \/ Compile(p) \/ LinkAndLoad(p)
  <2>1. /\ temp'[p] = temp[p] /\ Target(p)' = Target(p) /\ pc[p] \in HasOutput
        /\ filled'[p] = filled[p]
    BY <1>3
    DEF CreateSource, Compile, LinkAndLoad, Throw, Goto, Target, HasOutput
  <2>2. temp[p] \in Outputs(p)
    BY <2>1 DEF ProcInv
  <2>3. \A s \in {".cpp", ".o", ".so"} : temp[p] # <<p, s>>
    BY <2>2, PathFacts
  <2>4. disk'[temp[p]] = disk[temp[p]]
    BY <1>3, <2>2, <2>3, PathFacts
    DEF CreateSource, Compile, LinkAndLoad, Create
  <2>5. QED
    BY <2>1, <2>4 DEF OutputInv, Written, Data
<1>4. CASE BeginCopy(p) \/ Copy(p)
  <2>1. /\ temp'[p] = temp[p] /\ Target(p)' = Target(p) /\ pc[p] \in HasOutput
        /\ filled'[p] = filled[p] /\ disk' = disk
    BY <1>4 DEF BeginCopy, Copy, Goto, Target, HasOutput
  <2>2. QED
    BY <2>1 DEF OutputInv, Written, Data
<1>5. QED
  BY <1>1, <1>2, <1>3, <1>4
  DEF Step, Start, Fails, CompileFails, Rename, RenameFails, Close, Exit, Crash,
      Throw, Goto, HasOutput

(* A temporary file that is there was found, or will be removed, or is the *)
(* source that the message names.                                          *)
LEMMA TempsStep ==
    ASSUME TypeOK, NEW p \in Procs, ProcInv(p), TempsInv(p), Step(p),
           UNCHANGED space
    PROVE  TempsInv(p)'
<1> USE DEF TypeOK, Running, Kept, Object, Here
<1>0. /\ TempsOf(p) \subseteq Paths /\ <<p, ".cpp">> \in TempsOf(p)
      /\ \A s \in {".cpp", ".o", ".so"} : <<p, s>> \in TempsOf(p)
      /\ <<p, ".cpp">> \notin Outputs(p)
      /\ NoTemp \notin TempsOf(p)
  BY PathFacts
<1>1. CASE Start(p)
  BY <1>1 DEF Start, TempsInv, Present
<1>2. CASE MakeTemp(p)
  <2>1. PICK x \in Outputs(p) :
           /\ disk' = [disk EXCEPT ![x] = Data(p, Target(p), 0, "good")]
           /\ temp' = [temp EXCEPT ![p] = x]
    BY <1>2 DEF MakeTemp, Outputs
  <2>2. Here(p)' \subseteq Here(p) \cup {x}
    BY <2>1
  <2>3. Here(p) \subseteq found[p] \cup registered[p]
    BY <1>0, <1>2 DEF MakeTemp, TempsInv, ProcInv
  <2>4. error'[p] = "none" /\ pc'[p] \in {"source", "fill"}
        /\ found'[p] = found[p] /\ registered'[p] = registered[p]
        /\ temp'[p] = x
    BY <1>2, <2>1 DEF MakeTemp, ProcInv
  <2>5. QED
    BY <2>2, <2>3, <2>4 DEF TempsInv
<1>3. CASE Fill(p)
  <2>1. \A x \in TempsOf(p) : disk'[x] = disk[x] \/ x = temp[p]
    BY <1>0, <1>3 DEF Fill
  <2>2. Here(p)' \subseteq Here(p) \cup {temp[p]}
    BY <2>1
  <2>3. pc'[p] = "fill" /\ pc[p] = "fill"
        /\ temp'[p] = temp[p] /\ error'[p] = error[p]
        /\ found'[p] = found[p] /\ registered'[p] = registered[p]
    BY <1>3 DEF Fill
  <2>4. QED
    BY <2>2, <2>3 DEF TempsInv
<1>4. CASE Fails(p) \/ RenameFails(p) \/ BeginCopy(p) \/ Copy(p)
  <2>1. /\ Here(p)' = Here(p) /\ temp'[p] = temp[p] /\ found'[p] = found[p]
        /\ registered'[p] = registered[p]
        /\ pc[p] \in {"eval", "source", "compile", "fill", "copy"}
        /\ pc'[p] \in {"unwind", "copy", "close"}
        /\ error'[p] # "compile"
    BY <1>4
    DEF Fails, RenameFails, BeginCopy, Copy, Throw, Goto, HasOutput, ProcInv
  <2>2. error[p] = "none"
    BY <2>1 DEF ProcInv, HasOutput
  <2>3. QED
    BY <2>1, <2>2 DEF TempsInv
<1>5. ASSUME NEW s \in {".cpp", ".o", ".so"}, Create(p, s) \/ UNCHANGED disk
      PROVE  Here(p)' \subseteq Here(p) \cup {<<p, s>>}
  <2>1. \A x \in TempsOf(p) : disk'[x] = disk[x] \/ x = <<p, s>>
    BY <1>0, <1>5 DEF Create
  <2>2. QED
    BY <2>1
<1>6. CASE CreateSource(p)
  <2>1. /\ pc[p] = "source" /\ pc'[p] \in {"compile", "unwind"}
        /\ temp'[p] = temp[p] /\ found'[p] = found[p] /\ error'[p] # "compile"
        /\ registered'[p] = registered[p] \cup {<<p, ".cpp">>}
    BY <1>6 DEF CreateSource, Throw, Goto, Register, ProcInv, HasOutput
  <2>2. Here(p)' \subseteq Here(p) \cup {<<p, ".cpp">>}
    BY <1>5, <1>6 DEF CreateSource
  <2>3. pc'[p] = "compile" => <<p, ".cpp">> \in Here(p)'
    BY <1>0, <1>6, DataFacts DEF CreateSource, Create, Throw, Goto
  <2>4. error[p] = "none"
    BY <2>1 DEF ProcInv, HasOutput
  <2>5. QED
    BY <2>1, <2>2, <2>3, <2>4 DEF TempsInv
<1>7. CASE Compile(p)
  <2>1. /\ pc[p] = "compile" /\ pc'[p] = "link"
        /\ temp'[p] = temp[p] /\ found'[p] = found[p] /\ error'[p] = error[p]
        /\ registered'[p] = registered[p]
    BY <1>7 DEF Compile, Goto
  <2>2. Here(p)' \subseteq Here(p) \cup {<<p, ".o">>}
    BY <1>5, <1>7 DEF Compile
  <2>3. QED
    BY <2>1, <2>2 DEF TempsInv
<1>8. CASE LinkAndLoad(p)
  <2>1. /\ pc[p] = "link" /\ pc'[p] \in {"fill", "unwind"}
        /\ temp'[p] = temp[p] /\ found'[p] = found[p] /\ error'[p] # "compile"
        /\ registered'[p] = registered[p] \cup {<<p, ".o">>, <<p, ".so">>}
    BY <1>8 DEF LinkAndLoad, Throw, Goto, Register, ProcInv, HasOutput
  <2>2. Here(p)' \subseteq Here(p) \cup {<<p, ".so">>}
    BY <1>5, <1>8 DEF LinkAndLoad
  <2>3. error[p] = "none"
    BY <2>1 DEF ProcInv, HasOutput
  <2>4. QED
    BY <2>1, <2>2, <2>3 DEF TempsInv
<1>9. CASE CompileFails(p)
  <2>1. /\ pc[p] = "compile" /\ pc'[p] = "unwind" /\ error'[p] = "compile"
        /\ Here(p)' = Here(p) /\ temp'[p] = temp[p] /\ found'[p] = found[p]
        /\ registered'[p] = registered[p] \ {<<p, ".cpp">>}
    BY <1>9 DEF CompileFails, Throw, Goto
  <2>2. error[p] = "none"
    BY <2>1 DEF ProcInv, HasOutput
  <2>3. QED
    BY <2>1, <2>2 DEF TempsInv
<1>10. CASE Rename(p)
  <2>1. /\ pc[p] = "fill" /\ pc'[p] = "close" /\ temp'[p] = temp[p]
        /\ found'[p] = found[p] /\ registered'[p] = registered[p]
        /\ error'[p] = error[p]
    BY <1>10 DEF Rename
  <2>2. Target(p) \in Files
    BY <1>10, TargetFacts DEF Rename, ProcInv, Target, HasOutput
  <2>3. \A x \in TempsOf(p) : disk'[x] = disk[x] \/ disk'[x] = Absent
    BY <1>0, <1>10, <2>2, PathFacts DEF Rename
  <2>4. Here(p)' \subseteq Here(p)
    BY <2>3
  <2>5. error[p] = "none"
    BY <2>1 DEF ProcInv, HasOutput
  <2>6. QED
    BY <2>1, <2>4, <2>5 DEF TempsInv
<1>11. CASE Close(p)
  <2>1. /\ pc[p] \in {"close", "unwind"} /\ pc'[p] \in {"eval", "exit"}
        /\ temp'[p] = NoTemp /\ found'[p] = found[p]
        /\ registered'[p] = registered[p] /\ error'[p] = error[p]
        /\ pc'[p] = "eval" => pc[p] = "close"
    BY <1>11 DEF Close
  <2>2. \A x \in TempsOf(p) :
           disk'[x] = IF x = temp[p] THEN Absent ELSE disk[x]
    BY <1>0, <1>11 DEF Close, RemoveTemp
  <2>3. Here(p)' = Here(p) \ {temp[p]}
    BY <2>2
  <2>4. temp[p] # <<p, ".cpp">>
    BY <1>0, PathFacts DEF ProcInv
  <2>5. pc[p] = "close" => error[p] = "none"
    BY DEF ProcInv
  <2>6. QED
    BY <2>1, <2>3, <2>4, <2>5 DEF TempsInv
<1>12. CASE Exit(p)
  <2>1. /\ pc[p] = "exit" /\ pc'[p] \in {"success", "failure"}
        /\ found'[p] = found[p] /\ error'[p] = error[p] /\ temp[p] = NoTemp
        /\ registered'[p] = registered[p]
    BY <1>12 DEF Exit, ProcInv
  <2>2. \A x \in TempsOf(p) :
           disk'[x] = IF x \in registered[p] THEN Absent ELSE disk[x]
    BY <1>0, <1>12 DEF Exit
  <2>3. Here(p)' = Here(p) \ registered[p]
    BY <2>2
  <2>4. QED
    BY <1>0, <2>1, <2>3 DEF TempsInv
<1>13. CASE Crash(p)
  BY <1>13 DEF Crash, TempsInv
<1>14. QED
  BY <1>1, <1>2, <1>3, <1>4, <1>6, <1>7, <1>8, <1>9, <1>10, <1>11, <1>12, <1>13
  DEF Step

(* The temporary file becomes the target as it is.                         *)
LEMMA RenameResult ==
    ASSUME IInv, NEW p \in Procs, Rename(p), UNCHANGED space
    PROVE  \E g \in Files, d \in Exported(p, Target(p)) :
             /\ g = Target(p) /\ disk'[g] = d
             /\ \A f \in Files \ {g} : disk'[f] = disk[f]
<1>1. TypeOK /\ ProcInv(p) /\ OutputInv(p)
  BY DEF IInv
<1>2. Target(p) \in Files /\ temp[p] \in Outputs(p) /\ pc[p] = "fill"
      /\ filled[p] = Parts
  BY <1>1, TargetFacts DEF Rename, Complete, ProcInv, Target, HasOutput
<1>3. temp[p] \in Paths \ Files /\ Files \subseteq Paths
  BY <1>2, PathFacts
<1>4. disk[temp[p]] \in Exported(p, Target(p))
  BY <1>1, <1>2, WrittenFacts, BoundsAssumption DEF OutputInv, HasOutput
<1>5. /\ disk'[Target(p)] = disk[temp[p]]
      /\ \A f \in Files : f # Target(p) => disk'[f] = disk[f]
  BY <1>1, <1>2, <1>3 DEF Rename, TypeOK
<1>6. QED
  BY <1>2, <1>4, <1>5

(* A target changes in Rename only, to what the temporary file holds.      *)
LEMMA TargetsStep ==
    ASSUME IInv, NEW p \in Procs, Step(p), UNCHANGED space
    PROVE  NoPartialFile'
<1>1. TypeOK /\ ProcInv(p) /\ NoPartialFile
  BY DEF IInv
<1>2. \A q, f : Exported(q, f)' = Exported(q, f)
  BY DEF Exported
<1>3. CASE \A f \in Files : disk'[f] = disk[f]
  BY <1>1, <1>2, <1>3 DEF NoPartialFile
<1>4. CASE Rename(p)
  <2>1. PICK g \in Files, d \in Exported(p, Target(p)) :
             /\ g = Target(p) /\ disk'[g] = d
             /\ \A f \in Files \ {g} : disk'[f] = disk[f]
    BY <1>4, RenameResult
  <2>2. QED
    BY <1>1, <1>2, <2>1 DEF NoPartialFile
<1>5. QED
  BY <1>1, <1>3, <1>4, Locality

-----------------------------------------------------------------------------

(* Before any process runs there are no temporary files.                   *)
LEMMA InitIInv == Init => IInv
<1> SUFFICES ASSUME Init PROVE IInv
  OBVIOUS
<1> USE DEF Init
<1>1. PICK old \in SUBSET Files :
         disk = [f \in Paths |-> IF f \in old THEN Old ELSE Absent]
  OBVIOUS
<1>2. TypeOK
  BY <1>1, DataFacts, BoundsAssumption DEF TypeOK, Running, Stopped, Errors
<1>3. ASSUME NEW p \in Procs
      PROVE  ProcInv(p) /\ OutputInv(p) /\ TempsInv(p)
  BY <1>3
  DEF ProcInv, OutputInv, TempsInv, HasOutput, Running, Stopped
<1>4. NoPartialFile
  BY <1>1, PathFacts DEF NoPartialFile
<1>5. QED
  BY <1>2, <1>3, <1>4 DEF IInv

(* The invariant is inductive: a step concerns its own process and leaves  *)
(* what is said of the others.                                             *)
LEMMA NextStep == IInv /\ [Next]_vars => IInv'
<1> SUFFICES ASSUME IInv, [Next]_vars PROVE IInv'
  OBVIOUS
<1>1. ASSUME NEW p \in Procs, Step(p), UNCHANGED space
      PROVE  IInv'
  <2>1. TypeOK'
    BY <1>1, TypeStep DEF IInv
  <2>2. ProcInv(p)' /\ OutputInv(p)' /\ TempsInv(p)'
    BY <1>1, ProcStep, OutputStep, TempsStep DEF IInv
  <2>3. \A q \in Procs \ {p} : ProcInv(q)' /\ OutputInv(q)' /\ TempsInv(q)'
    BY <1>1, OthersStep
  <2>4. NoPartialFile'
    BY <1>1, TargetsStep
  <2>5. QED
    BY <2>1, <2>2, <2>3, <2>4 DEF IInv
<1>2. CASE UNCHANGED vars
  <2> USE <1>2 DEF vars, processVars
  <2>1. TypeOK' /\ NoPartialFile'
    BY DEF IInv, TypeOK, NoPartialFile, Exported
  <2>2. ASSUME NEW p \in Procs
        PROVE  ProcInv(p)' /\ OutputInv(p)' /\ TempsInv(p)'
    <3>1. ProcInv(p) /\ OutputInv(p) /\ TempsInv(p)
      BY DEF IInv
    <3>2. ProcInv(p)'
      BY <3>1 DEF ProcInv, Target
    <3>3. OutputInv(p)'
      BY <3>1 DEF OutputInv, Target, Written, Data
    <3>4. TempsInv(p)'
      BY <3>1 DEF TempsInv, Here, Kept, Object
    <3>5. QED
      BY <3>2, <3>3, <3>4
  <2>3. QED
    BY <2>1, <2>2 DEF IInv
<1>3. QED
  BY <1>1, <1>2 DEF Next, Finished, Step

(* The invariant holds whatever the processes do, and whoever is killed.   *)
THEOREM Invariance == Spec => []IInv
BY InitIInv, NextStep, PTL DEF Spec

(* A target holds what it did before, or what one process has exported to  *)
(* it: complete, or cut off where a write of it failed.                    *)
THEOREM WholeFiles == Spec => []NoPartialFile
<1>1. IInv => NoPartialFile
  BY DEF IInv
<1>2. QED
  BY <1>1, Invariance, PTL

(* A process that ends by itself leaves what its message names, and that   *)
(* only.                                                                   *)
THEOREM NothingIsLeft == Spec => []NothingLeftBehind
<1>1. IInv => NothingLeftBehind
  BY DEF IInv, ProcInv, TempsInv, Here, Kept, Present, NothingLeftBehind
<1>2. QED
  BY <1>1, Invariance, PTL

-----------------------------------------------------------------------------
(* Refinement: a step replaces one target by what was exported, or none.   *)

Rest(j, i) == FilesOf(SubSeq(j.targets, i, Len(j.targets)))

(* What is left to be done after the first targets of a job.               *)
LEMMA RestFacts ==
    ASSUME NEW j \in Jobs
    PROVE  /\ Rest(j, 1) = FilesOf(j.targets)
           /\ \A i \in Nat \ {0} :
                i > Len(j.targets) \/ j.targets = <<Stdout>>
                => Rest(j, i) = <<>>
           /\ j.targets # <<Stdout>> =>
                \A i \in 1..Len(j.targets) :
                  /\ Rest(j, i) # <<>> /\ Head(Rest(j, i)) = j.targets[i]
                  /\ Tail(Rest(j, i)) = Rest(j, i + 1)
<1> DEFINE s == j.targets
<1>0. \A x : x = <<Stdout>> => Len(x) = 1 /\ x[1] = Stdout
  OBVIOUS
<1>1. s \in Seq(Files \cup {Stdout}) /\ Len(s) \in Nat \ {0}
  <2>1. CASE s = <<Stdout>>
    BY <2>1
  <2>2. CASE s \in Seq(Files)
    BY <2>2, TargetFacts, SeqMonotonic
  <2>3. QED
    BY <2>1, <2>2, TargetFacts
<1>2. Rest(j, 1) = FilesOf(s)
  BY <1>1, SubSeqFull DEF Rest
<1>3. ASSUME NEW i \in Nat, i > Len(s) PROVE Rest(j, i) = <<>>
  BY <1>1, <1>3, SubSeqEmpty DEF Rest, FilesOf
<1>4. ASSUME NEW i \in Nat \ {0}, s = <<Stdout>> PROVE Rest(j, i) = <<>>
  <2>1. CASE i = 1
    BY <1>2, <1>4, <2>1 DEF FilesOf
  <2>2. CASE i > 1
    BY <1>3, <1>4, <2>2
  <2>3. QED
    BY <2>1, <2>2
<1>5. ASSUME s # <<Stdout>>, NEW i \in 1..Len(s)
      PROVE  /\ Rest(j, i) # <<>> /\ Head(Rest(j, i)) = s[i]
             /\ Tail(Rest(j, i)) = Rest(j, i + 1)
  <2> DEFINE t == SubSeq(s, i, Len(s))
             u == SubSeq(s, i + 1, Len(s))
  <2>1. Head(t) = s[i] /\ Tail(t) = u
    BY <1>1, <1>5, HeadTailOfSubSeq
  <2>2. t # <<>> /\ t # <<Stdout>>
    <3>1. Len(t) # 0 /\ t[1] = s[i]
      BY <1>1, <1>5, SubSeqProperties
    <3>2. s[i] # Stdout
      BY <1>5, TargetFacts
    <3>3. t # <<Stdout>>
      BY <1>0, <3>1, <3>2, Zenon
    <3>4. t # <<>>
      BY <3>1, EmptySeq
    <3>5. QED
      BY <3>3, <3>4
  <2>3. u # <<Stdout>>
    <3>1. SUFFICES ASSUME u = <<Stdout>> PROVE FALSE
      OBVIOUS
    <3>2. Len(u) = 1 /\ u[1] = Stdout
      BY <1>0, <3>1, Zenon
    <3>3. i + 1 <= Len(s) /\ u[1] = s[i + 1]
      BY <1>1, <1>5, <3>2, SubSeqProperties
    <3>4. QED
      BY <1>5, <3>2, <3>3, TargetFacts
  <2>4. QED
    BY <2>1, <2>2, <2>3 DEF Rest, FilesOf
<1>6. QED
  BY <1>1, <1>2, <1>3, <1>4, <1>5

(* A process without a job has nothing to do.                              *)
LEMMA IdleTodo == ASSUME NEW p \in Procs, job[p] = NoJob, frame[p] = 1
                  PROVE  Todo(p) = <<>>
  BY SubSeqEmpty DEF Todo, NoJob, FilesOf

(* What the other processes and, unless one is renamed, the targets look   *)
(* like from outside.                                                      *)
LEMMA AbstractLocality ==
    ASSUME IInv, NEW p \in Procs, Step(p), UNCHANGED space
    PROVE  /\ \A q \in Procs \ {p} :
                Todo(q)' = Todo(q) /\ Status(q)' = Status(q)
           /\ Rename(p) \/ \A f \in Files : disk'[f] = disk[f]
<1>1. TypeOK /\ ProcInv(p)
  BY DEF IInv
<1>2. \A q \in Procs \ {p} : Todo(q)' = Todo(q) /\ Status(q)' = Status(q)
  BY <1>1, Locality DEF Todo, Status
<1>3. Rename(p) \/ \A f \in Files : disk'[f] = disk[f]
  BY <1>1, Locality
<1>4. QED
  BY <1>2, <1>3

(* What a step does to its own process's place in the contract.            *)
LEMMA AbstractStep ==
    ASSUME IInv, NEW p \in Procs, Step(p), UNCHANGED space
    PROVE  \/ /\ Start(p) /\ Status(p) # "running" /\ Status(p)' = "running"
              /\ \E j \in Jobs : Todo(p)' = FilesOf(j.targets)
           \/ /\ Rename(p) /\ Status(p) = "running" /\ Status(p)' = "running"
              /\ Todo(p) # <<>> /\ Head(Todo(p)) = Target(p)
              /\ Todo(p)' = Tail(Todo(p))
           \/ /\ ~Rename(p) /\ Status(p) = "running" /\ Status(p)' = "success"
              /\ Todo(p) = <<>> /\ Todo(p)' = Todo(p)
           \/ /\ ~Rename(p) /\ Status(p) = "running" /\ Status(p)' = "failure"
              /\ Todo(p)' = Todo(p)
           \/ ~Rename(p) /\ Status(p)' = Status(p) /\ Todo(p)' = Todo(p)
<1> USE DEF TypeOK, Running, Stopped, Status
<1>1. TypeOK /\ ProcInv(p) /\ OutputInv(p)
  BY DEF IInv
<1>2. Todo(p) = Rest(job[p], frame[p]) /\ Todo(p)' = Rest(job'[p], frame'[p])
  BY DEF Todo, Rest
<1>3. CASE Start(p)
  <2>1. PICK j \in Jobs : job'[p] = j
    BY <1>1, <1>3 DEF Start
  <2>2. frame'[p] = 1 /\ pc'[p] = "eval" /\ pc[p] \in Stopped
    BY <1>1, <1>3 DEF Start
  <2>3. Todo(p)' = FilesOf(j.targets)
    BY <1>2, <2>1, <2>2, RestFacts
  <2>4. QED
    BY <1>3, <2>2, <2>3
<1>4. CASE Rename(p)
  <2>1. /\ pc[p] = "fill" /\ pc'[p] = "close" /\ job'[p] = job[p]
        /\ frame'[p] = frame[p] + 1 /\ Target(p) # Stdout
    BY <1>1, <1>4 DEF Rename
  <2>2. job[p] \in Jobs /\ frame[p] \in 1..Len(job[p].targets)
    BY <1>1, <2>1 DEF ProcInv, HasOutput
  <2>3. job[p].targets # <<Stdout>>
    BY <2>1, <2>2, TargetFacts DEF Target
  <2>4. Todo(p) # <<>> /\ Head(Todo(p)) = Target(p) /\ Todo(p)' = Tail(Todo(p))
    BY <1>2, <2>1, <2>2, <2>3, RestFacts DEF Target
  <2>5. QED
    BY <1>4, <2>1, <2>4
<1>5. CASE Copy(p)
  <2>1. /\ pc[p] = "copy" /\ pc'[p] \in {"copy", "close"} /\ job'[p] = job[p]
        /\ frame'[p] \in {frame[p], frame[p] + 1}
    BY <1>1, <1>5 DEF Copy
  <2>2. /\ job[p] \in Jobs /\ frame[p] \in 1..Len(job[p].targets)
        /\ Target(p) = Stdout
    BY <1>1, <2>1 DEF ProcInv, HasOutput
  <2>3. job[p].targets = <<Stdout>>
    BY <2>2, TargetFacts DEF Target
  <2>4. Todo(p) = <<>> /\ Todo(p)' = <<>>
    BY <1>2, <2>1, <2>2, <2>3, RestFacts
  <2>5. QED
    BY <2>1, <2>4 DEF Rename
<1>6. CASE Exit(p)
  <2>1. /\ pc[p] = "exit" /\ job'[p] = job[p] /\ frame'[p] = frame[p]
        /\ pc'[p] = IF error[p] = "none" THEN "success" ELSE "failure"
    BY <1>1, <1>6 DEF Exit
  <2>2. error[p] = "none" => Todo(p) = <<>>
    <3>1. job[p] \in Jobs /\ frame[p] \in Nat \ {0}
      BY <1>1, <2>1 DEF ProcInv
    <3>2. error[p] = "none" => frame[p] > Len(job[p].targets)
      BY <1>1, <2>1 DEF ProcInv
    <3>3. QED
      BY <1>2, <3>1, <3>2, RestFacts
  <2>3. QED
    BY <1>2, <2>1, <2>2 DEF Rename
<1>7. CASE Crash(p)
  <2>1. /\ pc[p] \in Running /\ pc'[p] = "crashed" /\ ~Rename(p)
        /\ job'[p] = job[p] /\ frame'[p] = frame[p]
    BY <1>1, <1>7 DEF Crash, Rename
  <2>2. QED
    BY <1>2, <2>1
<1>8. CASE MakeTemp(p) \/ Fill(p) \/ Fails(p) \/ CreateSource(p) \/ Compile(p)
           \/ CompileFails(p) \/ LinkAndLoad(p) \/ RenameFails(p)
           \/ BeginCopy(p) \/ Close(p)
  <2>1. job'[p] = job[p] /\ frame'[p] = frame[p]
    BY <1>8
    DEF MakeTemp, Fill, Fails, CreateSource, Compile, CompileFails,
        LinkAndLoad, RenameFails, BeginCopy, Close, Throw, Goto
  <2>2. pc[p] \in Running /\ pc'[p] \in Running
    BY <1>1, <1>8
    DEF MakeTemp, Fill, Fails, CreateSource, Compile, CompileFails,
        LinkAndLoad, RenameFails, BeginCopy, Close, Throw, Goto
  <2>3. frame'[p] # frame[p] + 1
    BY <1>1, <2>1
  <2>4. ~Rename(p)
    BY <1>1, <2>3 DEF Rename
  <2>5. QED
    BY <1>2, <2>1, <2>2, <2>4
<1>9. QED
  BY <1>3, <1>4, <1>5, <1>6, <1>7, <1>8 DEF Step

(* A step of a process is a step of the contract, or changes nothing there.*)
LEMMA StepRefines ==
    ASSUME IInv, NEW p \in Procs, Step(p), UNCHANGED space
    PROVE  [Contract!Next]_(Contract!vars)
<1> DEFINE todo   == [q \in Procs |-> Todo(q)]
           status == [q \in Procs |-> Status(q)]
           file   == [f \in Files |-> disk[f]]
<1>1. /\ todo' = [todo EXCEPT ![p] = Todo(p)']
      /\ status' = [status EXCEPT ![p] = Status(p)']
  BY AbstractLocality
<1>2. Rename(p) \/ UNCHANGED file
  BY AbstractLocality
<1>3. /\ todo[p] = Todo(p) /\ status[p] = Status(p)
      /\ Todo(p)' = Todo(p) => UNCHANGED todo
      /\ Status(p)' = Status(p) => UNCHANGED status
  BY <1>1
<1> HIDE DEF todo, status, file
<1>4. CASE /\ Start(p) /\ Status(p) # "running" /\ Status(p)' = "running"
           /\ \E j \in Jobs : Todo(p)' = FilesOf(j.targets)
  <2>1. UNCHANGED file
    BY <1>2, <1>4 DEF Start, Rename, Stopped
  <2>2. Contract!Start(p)
    BY <1>1, <1>3, <1>4, <2>1 DEF Contract!Start, todo, status, file
  <2>3. QED
    BY <2>2 DEF Contract!Next
<1>5. CASE /\ Rename(p) /\ Status(p) = "running" /\ Status(p)' = "running"
           /\ Todo(p) # <<>> /\ Head(Todo(p)) = Target(p)
           /\ Todo(p)' = Tail(Todo(p))
  <2>1. PICK g \in Files, d \in Exported(p, Target(p)) :
             /\ g = Target(p) /\ disk'[g] = d
             /\ \A f \in Files \ {g} : disk'[f] = disk[f]
    BY <1>5, RenameResult
  <2>2. file' = [file EXCEPT ![g] = d]
    BY <2>1 DEF file
  <2>3. d \in Contract!Exports(p, g)
    BY <2>1 DEF Exported, Contract!Exports
  <2>4. Contract!Replace(p)
    <3>1. status[p] = "running" /\ todo[p] # <<>> /\ Head(todo[p]) = g
      BY <1>3, <1>5, <2>1
    <3>2. d \in Contract!Exports(p, Head(todo[p]))
      BY <2>3, <3>1
    <3>3. file' = [file EXCEPT ![Head(todo[p])] = d]
      BY <2>2, <3>1
    <3>4. todo' = [todo EXCEPT ![p] = Tail(todo[p])] /\ UNCHANGED status
      BY <1>1, <1>3, <1>5
    <3>5. QED
      BY <3>1, <3>2, <3>3, <3>4 DEF Contract!Replace, todo, status, file
  <2>5. QED
    BY <2>4 DEF Contract!Next
<1>6. CASE /\ ~Rename(p) /\ Status(p) = "running" /\ Status(p)' = "success"
           /\ Todo(p) = <<>> /\ Todo(p)' = Todo(p)
  <2>1. Contract!Succeed(p)
    BY <1>1, <1>2, <1>3, <1>6 DEF Contract!Succeed, todo, status, file
  <2>2. QED
    BY <2>1 DEF Contract!Next
<1>7. CASE /\ ~Rename(p) /\ Status(p) = "running" /\ Status(p)' = "failure"
           /\ Todo(p)' = Todo(p)
  <2>1. Contract!Fail(p)
    BY <1>1, <1>2, <1>3, <1>7 DEF Contract!Fail, todo, status, file
  <2>2. QED
    BY <2>1 DEF Contract!Next
<1>8. CASE ~Rename(p) /\ Status(p)' = Status(p) /\ Todo(p)' = Todo(p)
  BY <1>2, <1>3, <1>8 DEF Contract!vars, todo, status, file
<1>9. QED
  BY <1>4, <1>5, <1>6, <1>7, <1>8, AbstractStep

(* What the files hold at first is what the contract says.                 *)
LEMMA InitRefines == Init => Contract!Init
<1> SUFFICES ASSUME Init PROVE Contract!Init
  OBVIOUS
<1>1. PICK old \in SUBSET Files :
         disk = [f \in Paths |-> IF f \in old THEN Old ELSE Absent]
  BY DEF Init
<1>2. ASSUME NEW f \in Files PROVE disk[f] \in {Absent, Old}
  BY <1>1, <1>2, PathFacts
<1>3. ASSUME NEW p \in Procs PROVE Todo(p) = <<>> /\ Status(p) = "idle"
  <2>1. job[p] = NoJob /\ frame[p] = 1 /\ pc[p] = "idle"
    BY <1>3 DEF Init
  <2>2. QED
    BY <2>1, IdleTodo DEF Status, Running
<1>4. QED
  BY <1>2, <1>3 DEF Contract!Init

(* Whatever fails, and whoever is killed when, export keeps the promise of *)
(* AtomicExport: each step of a process replaces its next target by the    *)
(* data it has exported to it, or none, and success means that all are     *)
(* replaced.  The data are complete where the disk has space enough.       *)
THEOREM Refinement == Spec => ImplementsAtomicExport
<1>1. IInv /\ [Next]_vars => [Contract!Next]_(Contract!vars)
  <2> SUFFICES ASSUME IInv, [Next]_vars PROVE [Contract!Next]_(Contract!vars)
    OBVIOUS
  <2>1. ASSUME NEW p \in Procs, Step(p), UNCHANGED space
        PROVE  [Contract!Next]_(Contract!vars)
    BY <2>1, StepRefines
  <2>2. CASE UNCHANGED vars
    BY <2>2
    DEF vars, processVars, Contract!vars, Todo, Status
  <2>3. QED
    BY <2>1, <2>2 DEF Next, Finished, Step
<1>2. QED
  BY <1>1, InitRefines, Invariance, PTL DEF Spec, ImplementsAtomicExport

(* Every variable of an export and of a compilation has its type.          *)
THEOREM TypeCorrect == Spec => []TypeOK
<1>1. IInv => TypeOK
  BY DEF IInv
<1>2. QED
  BY <1>1, Invariance, PTL
=============================================================================
