------------------------------- MODULE LiveMode -------------------------------
(***************************************************************************)
(* Live editing mode (curv/livemode.cc).  The main thread launches the     *)
(* editor and runs the view server; a second thread polls the source file  *)
(* and displays its value, and polls the editor to find out when to stop.  *)
(* The view server is the atomic service of module ViewService, which      *)
(* ViewServer implements.                                                  *)
(*                                                                         *)
(* A save of the file takes two writes: the first leaves the beginning of  *)
(* the new version there, the second the whole of it.  Each sets the       *)
(* modification time, which stat() reports in whole seconds.  Contents of  *)
(* the file are numbered in the order of the writes; any of them, complete *)
(* or not, may be a program whose value is a shape.                        *)
(***************************************************************************)
EXTENDS Naturals

CONSTANTS
    MaxSaves,       \* bound: how often the user saves the file
    MaxTime,        \* bound: how many seconds the run lasts
    HasEditor,      \* curv -le rather than curv -l
    DistinctTimes   \* no two writes of the file fall into the same second

ASSUME BoundsAssumption == MaxSaves \in Nat /\ MaxTime \in Nat
ASSUME ModeAssumption == HasEditor \in BOOLEAN /\ DistinctTimes \in BOOLEAN

Contents == 1..(2 * MaxSaves)
Versions == {c \in Contents : c % 2 = 0}  \* the complete ones
Missing  == 0   \* there is no file; its st_mtime is taken to be 0

VARIABLES
    shapes,    \* the contents whose value is recognised as a shape
    writes,    \* how often the file was written
    content,   \* what is in the file
    mtime,     \* the modification time of the file
    now,       \* the clock
    editor,    \* the editor process
    main,      \* the main thread, in live_mode()
    poll,      \* the polling thread, in poll_file()
    st,        \* st.st_mtime of poll_file()
    value,     \* the contents that were read
    call, status, shape, running  \* the view server

fileVars   == <<shapes, writes, content, mtime, now>>
pollVars   == <<poll, st, value>>
serverVars == <<call, status, shape, running>>
vars == <<fileVars, editor, main, pollVars, serverVars>>

Server == INSTANCE ViewService WITH Shapes <- Contents, NoShape <- Missing

Init ==
    /\ shapes \in SUBSET Contents
    /\ writes = 0 /\ content = Missing /\ mtime = 0 /\ now = 1
    /\ editor = IF HasEditor THEN "running" ELSE "none"
    /\ main = IF HasEditor THEN "launched" ELSE "run"
    /\ poll = "stat" /\ st = 0 /\ value = Missing
    /\ Server!Init

-----------------------------------------------------------------------------
(* The environment: the clock, the user's saves, the end of the editor. *)

Tick ==
    /\ now < MaxTime
    /\ now' = now + 1
    /\ UNCHANGED <<shapes, writes, content, mtime, editor, main, pollVars,
                   serverVars>>

Write ==
    /\ DistinctTimes => now > mtime
    /\ writes' = writes + 1 /\ content' = writes' /\ mtime' = now
    /\ UNCHANGED <<shapes, now, editor, main, pollVars, serverVars>>

BeginSave == writes % 2 = 0 /\ writes < 2 * MaxSaves /\ Write

EndSave == writes % 2 = 1 /\ Write

(* A user, or an editor that replaces the file, may remove it for a while. *)
RemoveFile ==
    /\ content \in Versions
    /\ content' = Missing /\ mtime' = 0
    /\ UNCHANGED <<shapes, writes, now, editor, main, pollVars, serverVars>>

EditorQuits ==
    /\ editor = "running"
    /\ editor' = "zombie"
    /\ UNCHANGED <<fileVars, main, pollVars, serverVars>>

-----------------------------------------------------------------------------
(* The main thread. *)

(* waitpid(WNOHANG) reports the end of the editor once; later on it fails, *)
(* which poll_editor() takes for an editor that is alive.                  *)
Reaped(e) == IF e = "zombie" THEN "reaped" ELSE e

Bug_AlwaysAlive == TRUE

EditorAlive == editor # "zombie"

(* live_mode() gives up if the editor could not even start. *)
EarlyPoll ==
    /\ main = "launched"
    /\ editor' = Reaped(editor)
    /\ main' = IF EditorAlive THEN "run" ELSE "failed"
    /\ UNCHANGED <<fileVars, pollVars, serverVars>>

(* run() takes the requests of the polling thread. *)
ServerTakes ==
    /\ main = "run" /\ Server!Take
    /\ UNCHANGED <<fileVars, editor, main, pollVars>>

(* run() has returned: wait for the polling thread to end. *)
Join ==
    /\ main = "run" /\ ~running /\ poll = "gone"
    /\ main' = "done"
    /\ UNCHANGED <<fileVars, editor, pollVars, serverVars>>

-----------------------------------------------------------------------------
(* The polling thread, which main starts. *)

At(loc) == main = "run" /\ poll = loc

(* st_mtime as stat() reports it. *)
StatTime == mtime

Stat ==
    /\ At("stat")
    /\ st' = StatTime
    /\ poll' = IF content = Missing THEN "sleep" ELSE "read"
    /\ UNCHANGED <<fileVars, editor, main, value, serverVars>>

(* Only a value that is recognised as a shape is sent to the viewer; any   *)
(* other, and an error, is reported and forgotten.                         *)
IsShape(c) == c \in shapes

(* File_Source reads the file as it is now, whatever stat() saw: it may be *)
(* half written or gone by now.                                            *)
Read ==
    /\ At("read")
    /\ value' = content
    /\ poll' = IF IsShape(content) THEN "display" ELSE "sleep"
    /\ UNCHANGED <<fileVars, editor, main, st, serverVars>>

(* display_shape(): the thread goes on when the call has returned. *)
Display ==
    /\ At("display") /\ Server!Call /\ call' = Server!Display(value)
    /\ poll' = "displaying"
    /\ UNCHANGED <<fileVars, editor, main, st, value>>

Bug_StatAfterDisplay ==
    /\ At("displaying") /\ Server!Return
    /\ st' = StatTime
    /\ poll' = "sleep"
    /\ UNCHANGED <<fileVars, editor, main, value>>

Displayed ==
    /\ At("displaying") /\ Server!Return
    /\ poll' = "sleep"
    /\ UNCHANGED <<fileVars, editor, main, st, value>>

(* Half a second later: has the editor quit? *)
PollEditor ==
    /\ At("sleep")
    /\ editor' = Reaped(editor)
    /\ poll' = IF EditorAlive THEN "compare" ELSE "exit"
    /\ UNCHANGED <<fileVars, main, st, value, serverVars>>

Exit ==
    /\ At("exit") /\ Server!Call /\ call' = Server!Exit
    /\ poll' = "exiting"
    /\ UNCHANGED <<fileVars, editor, main, st, value>>

Exited ==
    /\ At("exiting") /\ Server!Return
    /\ poll' = "gone"
    /\ UNCHANGED <<fileVars, editor, main, st, value>>

Bug_SinceLastPoll == mtime + 1 > now

Changed == StatTime # st

Compare ==
    /\ At("compare")
    /\ poll' = IF Changed THEN "stat" ELSE "sleep"
    /\ UNCHANGED <<fileVars, editor, main, st, value, serverVars>>

Polling ==
    \/ Stat \/ Read \/ Display \/ Displayed \/ PollEditor \/ Exit \/ Exited
    \/ Compare

Finished == main \in {"failed", "done"} /\ UNCHANGED vars

Next ==
    \/ Tick \/ BeginSave \/ EndSave \/ RemoveFile \/ EditorQuits
    \/ EarlyPoll \/ ServerTakes \/ Join
    \/ Polling \/ Finished

(* Curv's two threads run; a save that was begun is completed. *)
Spec ==
    /\ Init /\ [][Next]_vars
    /\ WF_vars(EarlyPoll) /\ WF_vars(ServerTakes) /\ WF_vars(Join)
    /\ WF_vars(Polling) /\ WF_vars(Tick) /\ WF_vars(EndSave)

-----------------------------------------------------------------------------
(* Properties. *)

(* "Evaluate & display result each time file changes": a version that      *)
(* stays in the file and is a shape gets to the viewer, unless the editor  *)
(* quits; whatever was saved, truncated or removed while the file was      *)
(* being evaluated.                                                        *)
LastSaveDisplayed ==
    \A v \in Versions :
        [](<>[](content = v) /\ IsShape(v)
              => <>(shape = v \/ editor \in {"zombie", "reaped"}))

(* A poll that finds the time of the file unchanged is right, if no two    *)
(* writes happen in the same second: a complete version in the file is the *)
(* one that was evaluated, and if it is a shape the viewer shows it; even  *)
(* if the file was half written, replaced or removed between stat() and    *)
(* the read, and the viewer was given a shape that nobody saved.           *)
UnchangedIsShown ==
    /\ DistinctTimes /\ poll \in {"sleep", "compare"}
    /\ st = mtime /\ content \in Versions
    => value = content /\ (IsShape(content) => shape = content)

(* "When you close the text editor window, the curv command will exit."    *)
EditorEndsCurv ==
    (editor = "zombie") ~> (main \in {"failed", "done"})

=============================================================================
