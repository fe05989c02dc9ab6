------------------------------ MODULE ViewServer ------------------------------
(***************************************************************************)
(* View_Server (curv/view_server.h): two threads of one process share one  *)
(* request slot, one mutex and one condition variable that serves both     *)
(* directions.  The client thread calls display_shape() and exit(); the    *)
(* server is the main thread, which runs the viewer window.                *)
(*                                                                         *)
(* A thread that holds request_mutex_ only to test the request, and then   *)
(* goes on or waits, does so in one step; the mutex stays held across      *)
(* steps where the code does more under it.                                *)
(***************************************************************************)
CONSTANTS
    Shapes,    \* the shape programs the client may display
    NoShape,   \* an empty Viewed_Shape
    Modes      \* what Viewer_Config::lazy_ may be: the option -O lazy

ASSUME ShapeAssumption == NoShape \notin Shapes
ASSUME ModesAssumption == Modes \subseteq BOOLEAN

VARIABLES
    client,        \* where the client thread is
    job,           \* the argument of the client's call
    request,       \* request_
    requestShape,  \* request_shape_, which no lock protects
    mutex,         \* the owner of request_mutex_
    waiters,       \* the threads blocked on request_condition_
    lazy,          \* lazy_, false until run() assigns it
    server,        \* where the server thread is
    id,            \* id_ of the message being handled
    exiting,       \* the local variable of run()
    viewShape,     \* view_.shape_
    window,        \* window_: null, open, or open and told to close
    events,        \* what waits in the GLFW event queue
    drawn          \* view_.shape_ was rendered since it was set

clientVars == <<client, job>>
slotVars   == <<request, requestShape>>
syncVars   == <<mutex, waiters>>
serverVars == <<lazy, server, id, exiting>>
viewVars   == <<viewShape, window, events, drawn>>
vars == <<clientVars, slotVars, syncVars, serverVars, viewVars>>

Request == {"none", "display", "exit"}

Display(s) == [op |-> "display", shape |-> s]
Exit       == [op |-> "exit", shape |-> NoShape]
NoCall     == [op |-> "none", shape |-> NoShape]

Init ==
    /\ client = "idle" /\ job = NoCall
    /\ request = "none" /\ requestShape = NoShape
    /\ mutex = "free" /\ waiters = {}
    /\ lazy = FALSE /\ server = "start" /\ id = "none" /\ exiting = FALSE
    /\ viewShape = NoShape /\ window = "closed" /\ events = {} /\ drawn = FALSE

-----------------------------------------------------------------------------
(* The condition variable. *)

Bug_NotifyNobody(t) == waiters' = waiters

(* notify_one(): no more than one thread ever waits. *)
Notify(t) == waiters' = waiters \ {t}

Bug_AnyWakeup == client = "wait" \/ request = "none"

(* The predicate of the client's wait(), tested before it blocks, too. *)
Replied == request = "none"

-----------------------------------------------------------------------------
(* The client thread: display_shape(), exit() and send(). *)

Bug_SkipWrite == "store"

(* display_shape() fills the slot before it sends. *)
FirstStep == "write"

Begin(call, loc) ==
    /\ client = "idle"
    /\ client' = loc /\ job' = call
    /\ UNCHANGED <<slotVars, syncVars, serverVars, viewVars>>

(* The assignment (or swap) of request_shape_ takes time and no lock. *)
WriteShape ==
    /\ client = "write"
    /\ client' = "store" /\ requestShape' = job.shape
    /\ UNCHANGED <<job, request, syncVars, serverVars, viewVars>>

StoreRequest ==
    /\ client = "store" /\ mutex = "free"
    /\ client' = "notify" /\ request' = job.op
    /\ UNCHANGED <<job, requestShape, syncVars, serverVars, viewVars>>

NotifyServer ==
    /\ client = "notify"
    /\ client' = "lock" /\ Notify("server")
    /\ UNCHANGED <<job, slotVars, mutex, serverVars, viewVars>>

ReturnFromSend ==
    /\ client' = IF job = Exit THEN "gone" ELSE "idle"
    /\ job' = NoCall
    /\ mutex' = "free" /\ UNCHANGED waiters

BlockAt(loc) ==
    /\ client' = loc
    /\ waiters' = waiters \cup {"client"}
    /\ mutex' = "free" /\ UNCHANGED job

WaitAt(loc) == IF Replied THEN ReturnFromSend ELSE BlockAt(loc)

Locked(loc) ==
    /\ client' = loc
    /\ mutex' = "client"
    /\ UNCHANGED <<job, waiters>>

(* lazy_ and is_open() are read under the mutex, but written outside it. *)
LockForReply ==
    /\ client = "lock" /\ mutex = "free"
    /\ IF lazy /\ window # "closed" THEN Locked("post") ELSE WaitAt("wait")
    /\ UNCHANGED <<slotVars, serverVars, viewVars>>

Bug_NoEvent == events

Posted == events \cup {"wake"}

(* glfwPostEmptyEvent(), then wait_for() blocks for at most 10ms. *)
PostEvent ==
    /\ client = "post"
    /\ events' = Posted
    /\ WaitAt("timedwait")
    /\ UNCHANGED <<slotVars, serverVars, viewShape, window, drawn>>

(* Notified or not: a wake-up leads to another test of the predicate. *)
AwaitReply(loc) ==
    /\ client = loc /\ mutex = "free" /\ "client" \notin waiters
    /\ WaitAt(loc)
    /\ UNCHANGED <<slotVars, serverVars, viewVars>>

TimeOut ==
    /\ client = "timedwait"
    /\ client' = "expired" /\ waiters' = waiters \ {"client"}
    /\ UNCHANGED <<job, slotVars, mutex, serverVars, viewVars>>

PostAgain ==
    /\ client = "expired" /\ mutex = "free"
    /\ IF Replied THEN ReturnFromSend ELSE Locked("post")
    /\ UNCHANGED <<slotVars, serverVars, viewVars>>

Send ==
    \/ WriteShape \/ StoreRequest \/ NotifyServer \/ LockForReply
    \/ AwaitReply("wait") \/ AwaitReply("timedwait") \/ PostEvent \/ PostAgain

-----------------------------------------------------------------------------
(* The server thread: run(), receive(), try_receive() and reply(). *)

(* The client was started first: it can already be inside send(). *)
Start ==
    /\ server = "start"
    /\ server' = "receive" /\ lazy' \in Modes
    /\ UNCHANGED <<clientVars, slotVars, syncVars, id, exiting, viewVars>>

Bug_AcknowledgeOnly ==
    /\ mutex' = "server" /\ id' = request
    /\ server' = IF window = "closed" /\ request = "display"
                 THEN "set" ELSE "reply"

(* A request is handled with the mutex held, up to the reply. *)
Handle ==
    /\ mutex' = "server" /\ id' = request
    /\ server' = IF request = "display" THEN "set" ELSE "reply"

Receive ==
    /\ server = "receive" /\ mutex = "free" /\ "server" \notin waiters
    /\ IF request = "none"
       THEN waiters' = waiters \cup {"server"} /\ UNCHANGED <<mutex, server, id>>
       ELSE Handle /\ UNCHANGED waiters
    /\ UNCHANGED <<clientVars, slotVars, lazy, exiting, viewVars>>

(* try_receive(): wait_for(0ms) tests the predicate and blocks ... *)
TryReceive ==
    /\ server = "try" /\ mutex = "free"
    /\ IF request = "none"
       THEN /\ waiters' = waiters \cup {"server"} /\ server' = "retry"
            /\ UNCHANGED <<mutex, id, exiting>>
       ELSE Handle /\ exiting' = (request = "exit") /\ UNCHANGED waiters
    /\ UNCHANGED <<clientVars, slotVars, lazy, viewVars>>

(* ... and, the time being over, tests it once more. *)
RetryReceive ==
    /\ server = "retry" /\ mutex = "free"
    /\ waiters' = waiters \ {"server"}
    /\ IF request = "none"
       THEN server' = "draw" /\ UNCHANGED <<mutex, id, exiting>>
       ELSE Handle /\ exiting' = (request = "exit")
    /\ UNCHANGED <<clientVars, slotVars, lazy, viewVars>>

Bug_CopiedFrom == requestShape
Bug_Unspecified == "garbage"

(* What std::move leaves in request_shape_. *)
MovedFrom == NoShape

SetShape ==
    /\ server = "set"
    /\ server' = "reply"
    /\ viewShape' = requestShape /\ drawn' = FALSE
    /\ requestShape' = MovedFrom
    /\ UNCHANGED <<clientVars, request, syncVars, lazy, id, exiting, window,
                   events>>

(* The slot is emptied and the mutex unlocked first ... *)
Reply ==
    /\ server = "reply"
    /\ server' = "notify" /\ request' = "none" /\ mutex' = "free"
    /\ UNCHANGED <<clientVars, requestShape, waiters, lazy, id, exiting,
                   viewVars>>

(* ... and the client notified after.  The window is open in the inner     *)
(* loop of run() and closed in the outer one.                              *)
NotifyClient ==
    /\ server = "notify"
    /\ server' = IF window = "closed"
                 THEN IF id = "exit" THEN "done" ELSE "open"
                 ELSE IF id = "exit" THEN "close" ELSE "draw"
    /\ Notify("client")
    /\ UNCHANGED <<clientVars, slotVars, mutex, lazy, id, exiting, viewVars>>

(* A new window may or may not start with events of its own. *)
OpenWindow ==
    /\ server = "open"
    /\ server' = "try"
    /\ window' = "open" /\ events' \in {{}, {"wake"}}
    /\ UNCHANGED <<clientVars, slotVars, syncVars, lazy, id, exiting,
                   viewShape, drawn>>

Bug_AlwaysSleeps == events # {}

(* glfwWaitEvents() sleeps until there is an event, glfwPollEvents() not. *)
PollReturns == lazy => events # {}

(* A close event is noticed by the next draw_frame(), not by this one. *)
DrawFrame ==
    /\ server = "draw"
    /\ IF window = "closing"
       THEN server' = "close" /\ UNCHANGED <<window, events, drawn>>
       ELSE /\ PollReturns
            /\ server' = "try" /\ events' = {} /\ drawn' = TRUE
            /\ window' = IF "close" \in events THEN "closing" ELSE window
    /\ UNCHANGED <<clientVars, slotVars, syncVars, lazy, id, exiting,
                   viewShape>>

Bug_NeverExits == "receive"

AfterClose == IF exiting THEN "done" ELSE "receive"

CloseWindow ==
    /\ server = "close"
    /\ server' = AfterClose /\ window' = "closed" /\ events' = {}
    /\ UNCHANGED <<clientVars, slotVars, syncVars, lazy, id, exiting,
                   viewShape, drawn>>

ServerLocks == Receive \/ TryReceive \/ RetryReceive

ServerRuns ==
    \/ Start \/ SetShape \/ Reply \/ NotifyClient
    \/ OpenWindow \/ DrawFrame \/ CloseWindow

-----------------------------------------------------------------------------
(* The environment: the user at the window, and spurious wake-ups. *)

UserInput(e) ==
    /\ window # "closed"
    /\ events' = events \cup {e}
    /\ UNCHANGED <<clientVars, slotVars, syncVars, serverVars, viewShape,
                   window, drawn>>

SpuriousWakeup(t) ==
    /\ t \in waiters
    /\ waiters' = waiters \ {t}
    /\ UNCHANGED <<clientVars, slotVars, mutex, serverVars, viewVars>>

(* run() has returned and the client thread is joined. *)
Terminated == client = "gone" /\ server = "done" /\ UNCHANGED vars

Next ==
    \/ \E s \in Shapes : Begin(Display(s), FirstStep)
    \/ Begin(Exit, "store")
    \/ Send \/ TimeOut
    \/ ServerLocks \/ ServerRuns
    \/ \E e \in {"wake", "close"} : UserInput(e)
    \/ \E t \in {"client", "server"} : SpuriousWakeup(t)
    \/ Terminated

(***************************************************************************)
(* Both threads are scheduled.  The server locks under strong fairness:    *)
(* a lazy client takes the mutex again and again while it waits, and lets  *)
(* go of it for 10ms each time.  Nothing is assumed of the user, and no    *)
(* wait() is assumed to wake without a notification.                       *)
(***************************************************************************)
Fairness ==
    /\ WF_vars(Send) /\ WF_vars(TimeOut)
    /\ WF_vars(ServerRuns) /\ SF_vars(ServerLocks)

Spec == Init /\ [][Next]_vars /\ Fairness

-----------------------------------------------------------------------------
(* Properties. *)

ClientType ==
    /\ client \in {"idle", "write", "store", "notify", "lock", "wait",
                   "post", "timedwait", "expired", "gone"}
    /\ job \in {Display(s) : s \in Shapes} \cup {Exit, NoCall}
    /\ request \in Request
    /\ requestShape \in Shapes \cup {NoShape}
    /\ mutex \in {"free", "client", "server"}
    /\ waiters \subseteq {"client", "server"}

ServerType ==
    /\ lazy \in BOOLEAN /\ exiting \in BOOLEAN
    /\ server \in {"start", "receive", "set", "reply", "notify", "open",
                   "try", "retry", "draw", "close", "done"}
    /\ id \in Request
    /\ viewShape \in Shapes \cup {NoShape}
    /\ window \in {"closed", "open", "closing"}
    /\ events \subseteq {"wake", "close"}
    /\ drawn \in BOOLEAN

(* The variables have the types of view_server.h. *)
TypeOK == ClientType /\ ServerType

(* request_shape_ has no lock of its own: display_shape() writes it before *)
(* send() locks.  The handshake alone keeps the server from moving it out  *)
(* at the same time.                                                       *)
NoShapeRace == ~(client = "write" /\ server = "set")

(* The assertion before each set_shape(): the shape is there, and it is    *)
(* the one of the call in progress.                                        *)
ShapePresent ==
    server = "set" => requestShape \in Shapes /\ job = Display(requestShape)

(* When display_shape() returns, the viewer holds its shape and the slot   *)
(* is empty: what the assertion commented out after send() would say.      *)
DeliveredOnReturn ==
    [][client # "idle" /\ client' = "idle" =>
          job = Display(viewShape) /\ requestShape = NoShape]_vars

(* One condition variable serves both directions and only one thread is    *)
(* notified: a thread that is blocked although its predicate holds is      *)
(* about to be notified.                                                   *)
NoLostWakeup ==
    /\ "server" \in waiters /\ server = "receive" /\ request # "none"
         => client = "notify"
    /\ "client" \in waiters /\ request = "none" => server = "notify"

(* Every call of display_shape() and exit() returns, whether the window is *)
(* closed, open, or closed by the user while the call waits.               *)
CallReturns == (job # NoCall) ~> (job = NoCall)

(* After exit() both threads end and no window is left on the screen.      *)
ExitStops ==
    (job = Exit) ~> [](server = "done" /\ client = "gone" /\ window = "closed")

(* Without -O lazy, a shape that replaces another in an open window is     *)
(* rendered, unless the user closes the window or the client exits.        *)
EagerChangeIsDrawn ==
    (server = "reply" /\ id = "display" /\ window = "open" /\ ~lazy)
        ~> (drawn \/ window # "open" \/ exiting)

(* The server takes a call when it has the shape, or once it knows it is   *)
(* to exit: before it empties the request slot.                            *)
CallStatus ==
    IF job = NoCall THEN "idle"
    ELSE IF client \in {"write", "store"} \/ (request # "none" /\ server # "reply")
    THEN "pending" ELSE "taken"

Stopped == id = "exit"

(* View_Server implements the atomic service of module ViewService, its    *)
(* progress included.                                                      *)
Service == INSTANCE ViewService WITH
    call <- job, status <- CallStatus, shape <- viewShape, running <- ~Stopped
ImplementsService == Service!Spec

=============================================================================
