---------------------------- MODULE LiveMode_proofs ----------------------------
(***************************************************************************)
(* Proofs about LiveMode for any number of saves, any clock, with an       *)
(* editor or without: what is on its way to the viewer was in the file and *)
(* evaluates to a shape, and older contents never follow newer ones; an    *)
(* unchanged time means that there is nothing new to show; the polling     *)
(* thread keeps to the protocol of the view server; and curv stops only    *)
(* when the editor has quit.                                               *)
(***************************************************************************)
EXTENDS LiveMode, TLAPS

(* Contents that the file once had, and whose value is a shape.            *)
Showable(c) == IsShape(c) /\ c \in Contents /\ c <= writes

(* The file holds what was written last; nobody removes half of a file.    *)
FileInv ==
    /\ writes \in 0..(2 * MaxSaves)
    /\ content \in {Missing, writes}
    /\ writes % 2 = 1 => content = writes
    /\ shapes \subseteq Contents

(* From the read of the file to the frame that is drawn.                   *)
PipelineInv ==
    /\ poll = "display" => Showable(value)
    /\ call.op = "display" => Showable(call.shape)
    /\ status # "idle" => call \in Server!Calls
    /\ shape = Missing \/ Showable(shape)

IInv == FileInv /\ PipelineInv

(* The numbers of contents.                                                *)
LEMMA ContentsFacts ==
    /\ 2 * MaxSaves \in Nat
    /\ Missing \notin Contents
    /\ \A c : c \in Contents <=> c \in Nat /\ 1 <= c /\ c <= 2 * MaxSaves
    /\ Versions \subseteq Contents
  BY BoundsAssumption DEF Contents, Versions, Missing

(* The calls of the server, written out.                                   *)
LEMMA ServerNames ==
    /\ \A s : Server!Display(s) = [op |-> "display", shape |-> s]
    /\ Server!Exit = [op |-> "exit", shape |-> Missing]
    /\ Server!NoCall = [op |-> "none", shape |-> Missing]
    /\ Server!Calls = {Server!Display(s) : s \in Contents} \cup {Server!Exit}
  BY DEF Server!Display, Server!Exit, Server!NoCall, Server!Calls

(* At the start nothing was written.                                      *)
LEMMA InitIInv == Init => IInv
  BY BoundsAssumption, ServerNames
  DEF Init, IInv, FileInv, PipelineInv, Server!Init, Missing, Contents

(* The file changes under the feet of the polling thread, but what was     *)
(* written stays written.                                                  *)
LEMMA FileStep ==
    ASSUME FileInv, [Next]_vars
    PROVE  FileInv' /\ writes <= writes' /\ writes' \in Nat /\ UNCHANGED shapes
<1> USE BoundsAssumption DEF FileInv, Missing
<1>1. CASE BeginSave
  BY <1>1 DEF BeginSave, Write
<1>2. CASE EndSave
  BY <1>2 DEF EndSave, Write
<1>3. CASE RemoveFile
  BY <1>3 DEF RemoveFile, Versions
<1>4. CASE UNCHANGED <<shapes, writes, content>>
  BY <1>4
<1>5. QED
  BY <1>1, <1>2, <1>3, <1>4
  DEF Next, Tick, EditorQuits, EarlyPoll, ServerTakes, Join, Polling, Stat,
      Read, Display, Displayed, PollEditor, Exit, Exited, Compare, Finished,
      vars, fileVars

(* What was showable stays showable.                                       *)
LEMMA ShowableStays ==
    ASSUME FileInv, [Next]_vars, NEW c, Showable(c)
    PROVE  Showable(c)'
  BY FileStep, BoundsAssumption DEF Showable, IsShape, Contents, FileInv

(* Each step of the two threads hands on what it has got.                  *)
LEMMA PipelineStep == IInv /\ [Next]_vars => PipelineInv'
<1> SUFFICES ASSUME IInv, [Next]_vars PROVE PipelineInv'
  OBVIOUS
<1>0. FileInv /\ PipelineInv
  BY DEF IInv
<1>1. CASE Read
  <2>1. /\ UNCHANGED <<writes, shapes, content, call, status, shape>>
        /\ value' = content
        /\ poll' = IF IsShape(content) THEN "display" ELSE "sleep"
    BY <1>1 DEF Read, serverVars, fileVars
  <2>2. ASSUME poll' = "display" PROVE Showable(content)
    <3>1. IsShape(content)
      BY <2>1, <2>2
    <3>2. content \in Contents /\ content <= writes
      BY <1>0, <3>1, ContentsFacts DEF FileInv, IsShape
    <3>3. QED
      BY <3>1, <3>2 DEF Showable
  <2>3. QED
    BY <1>0, <2>1, <2>2, ShowableStays DEF PipelineInv
<1>2. CASE Display
  BY <1>0, <1>2, ShowableStays, ServerNames
  DEF Display, At, PipelineInv, Showable, Server!Call
<1>3. CASE ServerTakes
  BY <1>0, <1>3, ShowableStays, ServerNames
  DEF ServerTakes, PipelineInv, Server!Take, Showable, Missing, Contents,
      pollVars, fileVars, At
<1>4. CASE Displayed \/ Exited
  BY <1>0, <1>4, ShowableStays, ServerNames
  DEF Displayed, Exited, At, PipelineInv, Server!Return
<1>5. CASE Exit
  BY <1>0, <1>5, ShowableStays, ServerNames
  DEF Exit, At, PipelineInv, Server!Call
<1>6. CASE UNCHANGED <<call, status, shape>> /\ poll' # "display"
  BY <1>0, <1>6, ShowableStays, ServerNames DEF PipelineInv, Server!Calls
<1>7. CASE UNCHANGED <<call, status, shape, poll, value>>
  BY <1>0, <1>7, ShowableStays, ServerNames DEF PipelineInv
<1>8. QED
  BY <1>1, <1>2, <1>3, <1>4, <1>5, <1>6, <1>7
  DEF Next, Tick, BeginSave, EndSave, RemoveFile, Write, EditorQuits,
      EarlyPoll, Join, Polling, Stat, PollEditor, Compare, Finished, vars,
      serverVars, pollVars

-----------------------------------------------------------------------------
(* Types.                                                                  *)

Polls == {"stat", "read", "display", "displaying", "sleep", "compare",
          "exit", "exiting", "gone"}

TypeOK ==
    /\ shapes \subseteq Contents
    /\ writes \in 0..(2 * MaxSaves) /\ content \in Contents \cup {Missing}
    /\ now \in Nat /\ mtime \in 0..now /\ st \in 0..now
    /\ editor \in {"none", "running", "zombie", "reaped"}
    /\ main \in {"launched", "run", "failed", "done"}
    /\ poll \in Polls /\ value \in Contents \cup {Missing}
    /\ call \in Server!Calls \cup {Server!NoCall}
    /\ status \in {"idle", "pending", "taken"}
    /\ shape \in Contents \cup {Missing} /\ running \in BOOLEAN

(* The polling thread is in a call where it waits for one, and in no other *)
(* place; exit() is called once, when the editor was reaped, and then it   *)
(* is called for sure; and nothing runs before main has seen the editor    *)
(* start, or after it has joined the thread.                               *)
ProtocolInv ==
    /\ status = "idle" <=> poll \notin {"displaying", "exiting"}
    /\ poll = "displaying" => call.op = "display"
    /\ poll = "exiting" => call = Server!Exit
    /\ running <=> ~(poll = "gone" \/ (poll = "exiting" /\ status = "taken"))
    /\ poll \in {"exit", "exiting", "gone"} => editor = "reaped"
    /\ editor = "reaped" =>
          main = "failed" \/ poll \in {"exit", "exiting", "gone"}
    /\ main \in {"launched", "failed"} => poll = "stat" /\ shape = Missing
    /\ main = "failed" => editor = "reaped"
    /\ main = "done" => poll = "gone"
    /\ editor = "none" <=> ~HasEditor

ThreadInv == TypeOK /\ ProtocolInv

(* The clock starts after the time that a missing file stands for.         *)
LEMMA InitThreadInv == Init => ThreadInv
  BY BoundsAssumption, ModeAssumption, ServerNames
  DEF Init, ThreadInv, TypeOK, ProtocolInv, Polls, Contents, Missing,
      Server!Init

(* What the polling thread displays was read as a shape.                   *)
LEMMA DisplaysContents ==
    ASSUME IInv, poll = "display" PROVE value \in Contents
  BY DEF IInv, PipelineInv, Showable

(* Every variable keeps its type.                                          *)
LEMMA TypeStep == IInv /\ ThreadInv /\ [Next]_vars => TypeOK'
<1> SUFFICES ASSUME IInv, TypeOK, ProtocolInv, [Next]_vars PROVE TypeOK'
  BY DEF ThreadInv
<1> USE BoundsAssumption, ModeAssumption
    DEF TypeOK, Contents, Missing, Polls
<1>1. CASE Tick
  BY <1>1 DEF Tick, serverVars, pollVars
<1>2. CASE BeginSave \/ EndSave
  <2>1. writes < 2 * MaxSaves
    BY <1>2 DEF BeginSave, EndSave, IInv, FileInv
  <2>2. writes' \in Contents
    BY <1>2, <2>1 DEF BeginSave, EndSave, Write
  <2>3. /\ content' \in Contents /\ writes' \in 0..(2 * MaxSaves)
        /\ mtime' = now
        /\ UNCHANGED <<shapes, now, editor, main, pollVars, serverVars>>
    BY <1>2, <2>1, <2>2 DEF BeginSave, EndSave, Write, IInv, FileInv
  <2>4. QED
    BY <2>3 DEF serverVars, pollVars
<1>3. CASE RemoveFile
  BY <1>3 DEF RemoveFile, serverVars, pollVars
<1>4. CASE EditorQuits \/ EarlyPoll \/ Join
  BY <1>4 DEF EditorQuits, EarlyPoll, Join, Reaped, fileVars, serverVars,
              pollVars
<1>5. CASE ServerTakes
  <2>1. /\ status' = "taken" /\ UNCHANGED <<call, fileVars, editor, main, pollVars>>
        /\ running' \in {FALSE, running} /\ shape' \in {shape, call.shape}
    BY <1>5 DEF ServerTakes, Server!Take
  <2>2. call.shape \in Contents \cup {Missing}
    <3>1. call \in Server!Calls \cup {Server!NoCall}
      OBVIOUS
    <3>2. QED
      BY <3>1, ServerNames
  <2>3. shape' \in Contents \cup {Missing} /\ running' \in BOOLEAN
    BY <2>1, <2>2
  <2>4. QED
    BY <2>1, <2>3 DEF fileVars, pollVars
<1>6. CASE Stat \/ Read \/ PollEditor \/ Compare
  BY <1>6 DEF Stat, StatTime, Read, PollEditor, Reaped, Compare, fileVars,
              serverVars
<1>7. CASE Display
  BY <1>7, DisplaysContents, ServerNames
  DEF Display, At, Server!Call, fileVars
<1>8. CASE Displayed \/ Exited
  BY <1>8, ServerNames DEF Displayed, Exited, Server!Return, fileVars
<1>9. CASE Exit
  BY <1>9, ServerNames DEF Exit, Server!Call, fileVars
<1>10. CASE UNCHANGED vars
  BY <1>10 DEF vars, fileVars, pollVars, serverVars
<1>11. QED
  BY <1>1, <1>2, <1>3, <1>4, <1>5, <1>6, <1>7, <1>8, <1>9, <1>10
  DEF Next, Polling, Finished

(* The two threads and the editor keep in step.                            *)
LEMMA ProtocolStep == IInv /\ ThreadInv /\ [Next]_vars => ProtocolInv'
<1> SUFFICES ASSUME IInv, TypeOK, ProtocolInv, [Next]_vars PROVE ProtocolInv'
  BY DEF ThreadInv
<1> USE ServerNames DEF ProtocolInv
<1>1. CASE Tick \/ BeginSave \/ EndSave \/ RemoveFile
  BY <1>1 DEF Tick, BeginSave, EndSave, Write, RemoveFile, serverVars, pollVars
<1>2. CASE EditorQuits \/ EarlyPoll
  BY <1>2 DEF EditorQuits, EarlyPoll, EditorAlive, Reaped, serverVars, pollVars
<1>3. CASE ServerTakes
  BY <1>3 DEF ServerTakes, Server!Take, pollVars, TypeOK
<1>4. CASE Join
  BY <1>4 DEF Join, serverVars, pollVars
<1>5. CASE Stat \/ Read \/ Compare
  BY <1>5 DEF Stat, Read, Compare, At, serverVars
<1>6. CASE PollEditor
  BY <1>6 DEF PollEditor, EditorAlive, Reaped, At, serverVars
<1>7. CASE Display \/ Exit
  BY <1>7 DEF Display, Exit, At, Server!Call
<1>8. CASE Displayed \/ Exited
  BY <1>8 DEF Displayed, Exited, At, Server!Return
<1>9. CASE UNCHANGED vars
  BY <1>9 DEF vars, serverVars, pollVars
<1>10. QED
  BY <1>1, <1>2, <1>3, <1>4, <1>5, <1>6, <1>7, <1>8, <1>9
  DEF Next, Polling, Finished

(* Both invariants hold in every state of live mode.                       *)
THEOREM ThreadInvariance == Spec => [](IInv /\ ThreadInv)
<1>1. Init => IInv /\ ThreadInv
  BY InitIInv, InitThreadInv
<1>2. IInv /\ ThreadInv /\ [Next]_vars => (IInv /\ ThreadInv)'
  BY FileStep, PipelineStep, TypeStep, ProtocolStep DEF IInv, ThreadInv
<1>3. QED
  BY <1>1, <1>2, PTL DEF Spec

(* Every variable of live mode has its type, and the times that stat() has *)
(* reported are never ahead of the clock.                                  *)
THEOREM TypeCorrect == Spec => []TypeOK
<1>1. ThreadInv => TypeOK
  BY DEF ThreadInv
<1>2. QED
  BY <1>1, ThreadInvariance, PTL

(* live_mode() returns only when the editor has ended and its status was   *)
(* taken by waitpid(), by the main thread or by the polling thread; and    *)
(* then no call of the view server is left, and the server has stopped     *)
(* unless it was never started.  Without an editor curv goes on for ever.  *)
(* And waitpid() reports the end of the editor once: whoever gets that     *)
(* report gives up or is on its way to stop the server, and does not poll  *)
(* again.                                                                  *)
CurvOutlivesEditor ==
    /\ main \in {"failed", "done"} =>
         /\ HasEditor /\ editor = "reaped"
         /\ status = "idle"
         /\ main = "done" <=> ~running
         /\ main = "failed" => shape = Missing
    /\ editor = "reaped" =>
         main = "failed" \/ poll \in {"exit", "exiting", "gone"}

(* Curv stops only when the editor has quit, and stops completely.         *)
THEOREM StopsWithEditor == Spec => []CurvOutlivesEditor
<1>1. ThreadInv => CurvOutlivesEditor
  BY ServerNames DEF ThreadInv, TypeOK, ProtocolInv, CurvOutlivesEditor
<1>2. QED
  BY <1>1, ThreadInvariance, PTL

-----------------------------------------------------------------------------
(* The order of what is shown.                                             *)

(* What the viewer gets was in the file at some time, half written         *)
(* perhaps, and its value is a shape; and it is newer than what the viewer *)
(* had: the viewer never goes back to an older state of the file.          *)
ShownInOrder ==
    [][shape' # shape =>
         /\ shape < shape' /\ shape' <= writes /\ IsShape(shape')]_vars

(* The viewer never has what is newer than the contents on their way to it *)
OrderInv ==
    /\ poll = "display" => shape <= value
    /\ call.op = "display" => shape <= call.shape

(* A read takes what was written last, and one call is made at a time.     *)
LEMMA OrderStep ==
    IInv /\ ThreadInv /\ OrderInv /\ [Next]_vars => OrderInv'
<1> SUFFICES ASSUME IInv, ThreadInv, OrderInv, [Next]_vars PROVE OrderInv'
  OBVIOUS
<1> USE ServerNames DEF OrderInv
<1>0. FileInv /\ PipelineInv /\ ProtocolInv
  BY DEF IInv, ThreadInv
<1>1. CASE Read
  <2>1. UNCHANGED <<call, shape>> /\ value' = content
    BY <1>1 DEF Read, serverVars
  <2>2. IsShape(content) => content = writes
    BY <1>0, ContentsFacts DEF FileInv, IsShape
  <2>3. shape <= writes
    BY <1>0, ContentsFacts DEF PipelineInv, FileInv, Showable, Missing
  <2>4. QED
    BY <1>1, <2>1, <2>2, <2>3 DEF Read
<1>2. CASE Display
  BY <1>2 DEF Display, At, Server!Call
<1>3. CASE ServerTakes
  <2>1. poll' # "display" /\ UNCHANGED call /\ status = "pending"
    BY <1>0, <1>3 DEF ServerTakes, Server!Take, ProtocolInv, pollVars
  <2>2. ASSUME call.op = "display" PROVE shape' = call.shape /\ call.shape \in Nat
    BY <1>0, <1>3, <2>2, ContentsFacts
    DEF ServerTakes, Server!Take, PipelineInv, Showable
  <2>3. QED
    BY <2>1, <2>2
<1>4. CASE Displayed \/ Exited
  BY <1>4 DEF Displayed, Exited, Server!Return
<1>5. CASE Exit
  BY <1>5 DEF Exit, Server!Call
<1>6. CASE UNCHANGED <<call, shape>> /\ poll' # "display"
  BY <1>6
<1>7. CASE UNCHANGED <<call, shape, poll, value>>
  BY <1>7
<1>8. QED
  BY <1>1, <1>2, <1>3, <1>4, <1>5, <1>6, <1>7
  DEF Next, Tick, BeginSave, EndSave, RemoveFile, Write, EditorQuits,
      EarlyPoll, Join, Polling, Stat, PollEditor, Compare, Finished, vars,
      serverVars, pollVars

(* The viewer follows the file, in the order in which it was written.      *)
THEOREM ShownAsWritten == Spec => ShownInOrder
<1>1. ASSUME IInv, OrderInv, [Next]_vars, shape' # shape
      PROVE  shape < shape' /\ shape' <= writes /\ IsShape(shape')
  <2>1. ServerTakes
    BY <1>1
    DEF Next, Tick, BeginSave, EndSave, Write, RemoveFile, EditorQuits,
        EarlyPoll, Join, Polling, Stat, Read, Display, Displayed, PollEditor,
        Exit, Exited, Compare, Finished, vars, serverVars, Server!Call,
        Server!Return
  <2>2. call.op = "display" /\ shape' = call.shape
    BY <1>1, <2>1, ServerNames
    DEF ServerTakes, Server!Take, IInv, PipelineInv
  <2>3. shape <= shape' /\ Showable(shape')
    BY <1>1, <2>2 DEF IInv, PipelineInv, OrderInv
  <2>4. shape \in Nat /\ shape' \in Nat
    BY <1>1, <2>3, ContentsFacts DEF IInv, PipelineInv, Showable, Missing
  <2>5. QED
    BY <1>1, <2>3, <2>4 DEF Showable
<1>2. Init => OrderInv
  BY ServerNames DEF Init, OrderInv, Server!Init
<1>3. IInv /\ ThreadInv /\ OrderInv /\ [Next]_vars => OrderInv'
  BY OrderStep
<1>4. IInv /\ OrderInv /\ [Next]_vars =>
        [shape' # shape =>
           /\ shape < shape' /\ shape' <= writes /\ IsShape(shape')]_vars
  BY <1>1
<1>5. QED
  BY <1>2, <1>3, <1>4, ThreadInvariance, PTL DEF Spec, ShownInOrder

-----------------------------------------------------------------------------
(* A change of the file is noticed.                                        *)

(* A file that is being written is no older than what stat() has reported. *)
TimesInv ==
    /\ now > 0
    /\ content = Missing <=> mtime = 0
    /\ writes % 2 = 1 => st <= mtime

(* Once the file was read: if it is the one that stat() has seen, it is    *)
(* the one that was read, and on its way to the viewer.                    *)
SeenInv ==
    DistinctTimes /\ poll \notin {"stat", "read"}
        /\ content \in Versions /\ st = mtime =>
            /\ value = content
            /\ IsShape(value) =>
                 /\ poll = "displaying" => call.shape = value
                 /\ \/ poll = "display"
                    \/ poll = "displaying" /\ status = "pending"
                    \/ shape = value

(* At the start there is no file.                                          *)
LEMMA InitSeen == Init => TimesInv /\ SeenInv
  BY BoundsAssumption DEF Init, TimesInv, SeenInv, Versions, Contents, Missing

(* A write gets the time of the clock, which no earlier time exceeds.      *)
LEMMA TimesStep == FileInv /\ TypeOK /\ TimesInv /\ [Next]_vars => TimesInv'
<1> SUFFICES ASSUME FileInv, TypeOK, TimesInv, [Next]_vars PROVE TimesInv'
  OBVIOUS
<1> USE BoundsAssumption DEF FileInv, TypeOK, TimesInv, Versions, Contents, Missing
<1>1. CASE Tick
  BY <1>1 DEF Tick, pollVars
<1>2. CASE BeginSave
  BY <1>2 DEF BeginSave, Write, pollVars
<1>3. CASE EndSave
  BY <1>3 DEF EndSave, Write, pollVars
<1>4. CASE RemoveFile
  BY <1>4 DEF RemoveFile, pollVars
<1>5. CASE Stat
  BY <1>5 DEF Stat, StatTime, fileVars
<1>6. CASE UNCHANGED <<fileVars, st>>
  BY <1>6 DEF fileVars
<1>7. QED
  BY <1>1, <1>2, <1>3, <1>4, <1>5, <1>6
  DEF Next, EditorQuits, EarlyPoll, ServerTakes, Join, Polling, Read, Display,
      Displayed, PollEditor, Exit, Exited, Compare, Finished, vars, pollVars

(* A version that is completed is newer than what stat() has reported; and *)
(* the thread hands the one that it has read on to the viewer.             *)
LEMMA SeenStep ==
    IInv /\ ThreadInv /\ TimesInv /\ SeenInv /\ [Next]_vars => SeenInv'
<1> SUFFICES ASSUME IInv, TypeOK, ProtocolInv, TimesInv, SeenInv, [Next]_vars,
                    DistinctTimes, poll' \notin {"stat", "read"},
                    content' \in Versions, st' = mtime'
             PROVE  /\ value' = content'
                    /\ IsShape(value)' =>
                         /\ poll' = "displaying" => call'.shape = value'
                         /\ \/ poll' = "display"
                            \/ poll' = "displaying" /\ status' = "pending"
                            \/ shape' = value'
  BY DEF ThreadInv, SeenInv
<1> USE DEF SeenInv, IsShape
<1>1. shapes' = shapes
  BY FileStep DEF IInv
<1>2. CASE Tick
  BY <1>2 DEF Tick, pollVars, serverVars
<1>3. ~BeginSave /\ ~RemoveFile
  <2>1. ~RemoveFile
    BY ContentsFacts DEF RemoveFile
  <2>2. ~BeginSave
    <3> SUFFICES ASSUME BeginSave PROVE FALSE
      OBVIOUS
    <3>1. content' = writes + 1 /\ writes % 2 = 0 /\ writes \in Nat
      BY DEF BeginSave, Write, IInv, FileInv
    <3>2. content' % 2 = 0
      BY DEF Versions
    <3>3. QED
      BY <3>1, <3>2
  <2>3. QED
    BY <2>1, <2>2
<1>4. ~EndSave
  <2> SUFFICES ASSUME EndSave PROVE FALSE
    OBVIOUS
  <2>1. writes % 2 = 1 /\ now > mtime /\ mtime' = now /\ st' = st
    BY DEF EndSave, Write, pollVars
  <2>2. st <= mtime /\ st \in Nat /\ mtime \in Nat /\ now \in Nat
    BY <2>1 DEF TimesInv, TypeOK
  <2>3. QED
    BY <2>1, <2>2
<1>5. CASE Stat
  <2>1. content = Missing /\ content' = content
    BY <1>5 DEF Stat, fileVars
  <2>2. QED
    BY <2>1, BoundsAssumption DEF Versions, Contents, Missing
<1>6. CASE Read
  BY <1>1, <1>6 DEF Read, fileVars
<1>7. CASE Display
  BY <1>1, <1>7, ServerNames DEF Display, At, Server!Call, fileVars
<1>8. CASE ServerTakes
  <2>1. /\ UNCHANGED <<content, mtime, st, poll, value, call>>
        /\ status = "pending"
        /\ call # Server!Exit => shape' = call.shape
    BY <1>8 DEF ServerTakes, Server!Take, fileVars, pollVars
  <2>2. poll \in {"displaying", "exiting"}
    BY <2>1 DEF ProtocolInv
  <2>3. CASE poll = "displaying"
    <3>1. call # Server!Exit
      BY <2>3, ServerNames DEF ProtocolInv
    <3>2. QED
      BY <1>1, <2>1, <2>3, <3>1
  <2>4. CASE poll = "exiting"
    <3>1. call = Server!Exit
      BY <2>4 DEF ProtocolInv
    <3>2. shape' = shape
      BY <1>8, <3>1 DEF ServerTakes, Server!Take
    <3>3. QED
      BY <1>1, <2>1, <2>4, <3>2
  <2>5. QED
    BY <2>2, <2>3, <2>4
<1>9. CASE Displayed \/ Exited
  BY <1>1, <1>9 DEF Displayed, Exited, At, Server!Return, fileVars
<1>10. CASE Exit
  BY <1>1, <1>10 DEF Exit, At, Server!Call, fileVars
<1>11. CASE PollEditor
  BY <1>1, <1>11 DEF PollEditor, At, fileVars, serverVars
<1>12. CASE Compare
  BY <1>1, <1>12 DEF Compare, At, fileVars, serverVars
<1>13. CASE UNCHANGED <<fileVars, pollVars, serverVars>>
  BY <1>1, <1>13 DEF fileVars, pollVars, serverVars
<1>14. QED
  BY <1>2, <1>3, <1>4, <1>5, <1>6, <1>7, <1>8, <1>9, <1>10, <1>11, <1>12,
     <1>13
  DEF Next, EditorQuits, EarlyPoll, Join, Polling, Finished, vars

(* An unchanged time means that the viewer has what is in the file.        *)
THEOREM NothingIsMissed == Spec => []UnchangedIsShown
<1>1. Init => TimesInv /\ SeenInv
  BY InitSeen
<1>2. IInv /\ ThreadInv /\ TimesInv /\ SeenInv /\ [Next]_vars
        => TimesInv' /\ SeenInv'
  BY TimesStep, SeenStep DEF IInv, ThreadInv
<1>3. SeenInv => UnchangedIsShown
  BY DEF SeenInv, UnchangedIsShown, IsShape
<1>4. QED
  BY <1>1, <1>2, <1>3, ThreadInvariance, PTL DEF Spec

-----------------------------------------------------------------------------
(* The view server.                                                        *)

(* The guards of ViewService hold wherever the thread is about to call:    *)
(* composing it with the service takes no behaviour away from the code.    *)
CallAccepted ==
    /\ At("display") \/ At("exit") => status = "idle" /\ running
    /\ At("display") => Server!Display(value) \in Server!Calls

(* Live mode is a client that the view server can serve: what its two      *)
(* threads do to the server is what ViewService allows.  It starts no call *)
(* while another is in progress or when the server has stopped, displays   *)
(* nothing but what was in the file, and goes on only when the call has    *)
(* returned; and no call that it wants to make is ruled out.               *)
THEOREM ObeysService ==
    Spec => /\ Server!Init /\ [][Server!Next]_(Server!vars)
            /\ []CallAccepted
<1>1. Init => Server!Init
  BY DEF Init
<1>2. [Next]_vars => [Server!Next]_(Server!vars)
  <2> SUFFICES ASSUME [Next]_vars, ~UNCHANGED serverVars
               PROVE  Server!Next
    BY DEF Server!vars, serverVars
  <2>1. \/ ServerTakes \/ Display \/ Exit \/ Displayed \/ Exited
    BY DEF Next, Tick, BeginSave, EndSave, RemoveFile, Write, EditorQuits,
           EarlyPoll, Join, Polling, Stat, Read, PollEditor, Compare,
           Finished, vars
  <2>2. QED
    BY <2>1 DEF ServerTakes, Display, Exit, Displayed, Exited, Server!Next
<1>3. IInv /\ ThreadInv => CallAccepted
  <2> SUFFICES ASSUME IInv, ThreadInv PROVE CallAccepted
    OBVIOUS
  <2>1. poll \in {"display", "exit"} => status = "idle" /\ running
    BY DEF ThreadInv, ProtocolInv
  <2>2. poll = "display" => Server!Display(value) \in Server!Calls
    BY DisplaysContents DEF Server!Calls
  <2>3. QED
    BY <2>1, <2>2 DEF CallAccepted, At
<1>4. QED
  BY <1>1, <1>2, <1>3, ThreadInvariance, PTL DEF Spec
=============================================================================
