----------------------------- MODULE ViewService -----------------------------
(***************************************************************************)
(* What View_Server (curv/view_server.h) promises its client, the thread   *)
(* that runs the REPL or watches the file of live mode.  A call of         *)
(* display_shape() or exit() is made, the server takes it exactly once,    *)
(* and only then does the call return.  Shapes reach the viewer in the     *)
(* order of the calls, and exit() is the last call that is taken.          *)
(* There is no mutex, no condition variable and no window here: module     *)
(* ViewServer has them, and implements this specification.                 *)
(***************************************************************************)
CONSTANTS
    Shapes,    \* the shape programs the client may display
    NoShape    \* an empty Viewed_Shape

VARIABLES
    call,      \* the call in progress, NoCall between calls
    status,    \* how far the call has come
    shape,     \* the shape the viewer holds
    running    \* the server has not taken an exit() yet

vars == <<call, status, shape, running>>

Display(s) == [op |-> "display", shape |-> s]
Exit       == [op |-> "exit", shape |-> NoShape]
NoCall     == [op |-> "none", shape |-> NoShape]
Calls      == {Display(s) : s \in Shapes} \cup {Exit}

Init ==
    /\ call = NoCall
    /\ status = "idle"
    /\ shape = NoShape
    /\ running = TRUE

Call ==
    /\ status = "idle" /\ running
    /\ call' \in Calls
    /\ status' = "pending"
    /\ UNCHANGED <<shape, running>>

Take ==
    /\ status = "pending"
    /\ status' = "taken"
    /\ IF call = Exit
       THEN running' = FALSE /\ shape' = shape
       ELSE running' = running /\ shape' = call.shape
    /\ call' = call

Return ==
    /\ status = "taken"
    /\ status' = "idle"
    /\ call' = NoCall
    /\ UNCHANGED <<shape, running>>

Next == Call \/ Take \/ Return

(* The server owes the client an answer; the client owes nobody a call. *)
Spec == Init /\ [][Next]_vars /\ WF_vars(Take) /\ WF_vars(Return)

=============================================================================
