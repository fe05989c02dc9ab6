-------------------------- MODULE ViewServer_proofs --------------------------
(***************************************************************************)
(* Proofs about ViewServer for any set of shapes and both modes: the       *)
(* handshake over the request slot needs nothing but the mutex, the slot   *)
(* and one notification per direction.                                     *)
(***************************************************************************)
EXTENDS ViewServer, TLAPS

Waiting == {"notify", "lock", "wait", "post", "timedwait", "expired"}

(* The mutex is held across steps in these places only, and only a thread  *)
(* that is in a wait() is among the waiters.                               *)
LockInv ==
    /\ mutex = "client" <=> client = "post"
    /\ mutex = "server" <=> server \in {"set", "reply"}
    /\ "client" \in waiters => client \in {"wait", "timedwait"}
    /\ "server" \in waiters => server \in {"receive", "retry"}

(* A request in the slot is the call of a client that waits for its reply. *)
SlotInv ==
    /\ job = NoCall <=> client \in {"idle", "gone"}
    /\ client = "write" => job.op = "display"
    /\ request # "none" => request = job.op /\ client \in Waiting
    /\ server \in {"set", "reply"} => request # "none" /\ id = request
    /\ server = "set" => request = "display"

(* The shape is in request_shape_ from the client's write to the server's  *)
(* move, and in the viewer from then on.                                   *)
ShapeInv ==
    /\ requestShape =
         IF \/ client = "store"
            \/ request = "display" /\ server # "reply"
         THEN job.shape ELSE NoShape
    /\ job.op = "display" /\ client \in Waiting
         /\ (request = "none" \/ server = "reply") => viewShape = job.shape

(* An exit that was taken is the last call, and leads out of run().        *)
ExitInv ==
    /\ id = "exit" =>
         /\ (client \in Waiting /\ job = Exit) \/ client = "gone"
         /\ server \in {"reply", "notify", "close", "done"}
         /\ window # "closed" => exiting
    /\ server \in {"start", "receive", "open", "done"} => window = "closed"
    /\ server \in {"try", "retry", "draw", "close"} => window # "closed"

IInv == TypeOK /\ LockInv /\ SlotInv /\ ShapeInv /\ NoLostWakeup /\ ExitInv

(* Initially, in the static object before any thread runs. *)
LEMMA InitIInv == Init => IInv
  BY ShapeAssumption
  DEF Init, IInv, TypeOK, ClientType, ServerType, LockInv, SlotInv, ShapeInv,
      NoLostWakeup, ExitInv, Request, NoCall, Exit, Display, Waiting

(* Every step of either thread, the user or the condition variable keeps   *)
(* the types.                                                              *)
LEMMA TypeStep == TypeOK /\ [Next]_vars => TypeOK'
<1> SUFFICES ASSUME TypeOK, [Next]_vars PROVE TypeOK'
  OBVIOUS
<1> USE ModesAssumption
    DEF TypeOK, ClientType, ServerType, Request, clientVars, slotVars,
        syncVars, serverVars, viewVars
<1>1. ASSUME NEW s \in Shapes, Begin(Display(s), FirstStep)
      PROVE  TypeOK'
  BY <1>1 DEF Begin, FirstStep
<1>2. CASE Begin(Exit, "store")
  BY <1>2 DEF Begin
<1>3. CASE WriteShape
  BY <1>3 DEF WriteShape, Display, Exit, NoCall
<1>4. CASE StoreRequest
  BY <1>4 DEF StoreRequest, Display, Exit, NoCall
<1>5. CASE NotifyServer
  BY <1>5 DEF NotifyServer, Notify
<1>6. CASE LockForReply
  <2>1. ClientType'
    BY <1>6 DEF LockForReply, Locked, WaitAt, Replied, ReturnFromSend, BlockAt
  <2>2. ServerType'
    BY <1>6 DEF LockForReply, Locked, WaitAt, Replied, ReturnFromSend, BlockAt
  <2> QED
    BY <2>1, <2>2
<1>7. CASE AwaitReply("wait")
  <2>1. ClientType'
    BY <1>7 DEF AwaitReply, WaitAt, Replied, ReturnFromSend, BlockAt
  <2>2. ServerType'
    BY <1>7 DEF AwaitReply, WaitAt, Replied, ReturnFromSend, BlockAt
  <2> QED
    BY <2>1, <2>2
<1>8. CASE AwaitReply("timedwait")
  <2>1. ClientType'
    BY <1>8 DEF AwaitReply, WaitAt, Replied, ReturnFromSend, BlockAt
  <2>2. ServerType'
    BY <1>8 DEF AwaitReply, WaitAt, Replied, ReturnFromSend, BlockAt
  <2> QED
    BY <2>1, <2>2
<1>9. CASE PostEvent
  <2>1. ClientType'
    BY <1>9 DEF PostEvent, Posted, WaitAt, Replied, ReturnFromSend, BlockAt
  <2>2. ServerType'
    BY <1>9 DEF PostEvent, Posted, WaitAt, Replied, ReturnFromSend, BlockAt
  <2> QED
    BY <2>1, <2>2
<1>10. CASE PostAgain
  <2>1. ClientType'
    BY <1>10 DEF PostAgain, Replied, ReturnFromSend, Locked
  <2>2. ServerType'
    BY <1>10 DEF PostAgain, Replied, ReturnFromSend, Locked
  <2> QED
    BY <2>1, <2>2
<1>11. CASE TimeOut
  BY <1>11 DEF TimeOut
<1>12. CASE Receive
  <2>1. ClientType'
    BY <1>12 DEF Receive, Handle
  <2>2. ServerType'
    BY <1>12 DEF Receive, Handle
  <2> QED
    BY <2>1, <2>2
<1>13. CASE TryReceive
  <2>1. ClientType'
    BY <1>13 DEF TryReceive, Handle
  <2>2. ServerType'
    BY <1>13 DEF TryReceive, Handle
  <2> QED
    BY <2>1, <2>2
<1>14. CASE RetryReceive
  <2>1. ClientType'
    BY <1>14 DEF RetryReceive, Handle
  <2>2. ServerType'
    BY <1>14 DEF RetryReceive, Handle
  <2> QED
    BY <2>1, <2>2
<1>15. CASE Start
  BY <1>15 DEF Start
<1>16. CASE SetShape
  <2>1. ClientType'
    BY <1>16 DEF SetShape, MovedFrom
  <2>2. ServerType'
    BY <1>16 DEF SetShape, MovedFrom
  <2> QED
    BY <2>1, <2>2
<1>17. CASE Reply
  BY <1>17 DEF Reply
<1>18. CASE NotifyClient
  BY <1>18 DEF NotifyClient, Notify
<1>19. CASE OpenWindow
  BY <1>19 DEF OpenWindow
<1>20. CASE DrawFrame
  <2>1. ClientType'
    BY <1>20 DEF DrawFrame
  <2>2. ServerType'
    BY <1>20 DEF DrawFrame
  <2> QED
    BY <2>1, <2>2
<1>21. CASE CloseWindow
  BY <1>21 DEF CloseWindow, AfterClose
<1>22. ASSUME NEW e \in {"wake", "close"}, UserInput(e)
      PROVE  TypeOK'
  BY <1>22 DEF UserInput
<1>23. ASSUME NEW t \in {"client", "server"}, SpuriousWakeup(t)
      PROVE  TypeOK'
  BY <1>23 DEF SpuriousWakeup
<1>24. CASE UNCHANGED vars
  BY <1>24 DEF vars
<1>25. QED
  BY <1>1, <1>2, <1>3, <1>4, <1>5, <1>6, <1>7, <1>8, <1>9, <1>10, <1>11,
     <1>12, <1>13, <1>14, <1>15, <1>16, <1>17, <1>18, <1>19, <1>20, <1>21,
     <1>22, <1>23, <1>24
     DEF Next, Send, ServerLocks, ServerRuns, Terminated

(* The handshake: the parts of the invariant need each other. *)
HandshakeInv == LockInv /\ SlotInv /\ ShapeInv /\ NoLostWakeup /\ ExitInv

(* Every step keeps the handshake. *)
LEMMA HandshakeStep == IInv /\ [Next]_vars => HandshakeInv'
<1> SUFFICES ASSUME IInv, [Next]_vars PROVE HandshakeInv'
  OBVIOUS
<1> USE ShapeAssumption
    DEF HandshakeInv, IInv, TypeOK, ClientType, ServerType, LockInv, SlotInv,
        ShapeInv, NoLostWakeup, ExitInv, Request, NoCall, Exit, Display,
        Waiting, clientVars, slotVars, syncVars, serverVars, viewVars
<1>1. ASSUME NEW s \in Shapes, Begin(Display(s), FirstStep)
      PROVE  HandshakeInv'
  BY <1>1 DEF Begin, FirstStep
<1>2. CASE Begin(Exit, "store")
  BY <1>2 DEF Begin
<1>3. CASE WriteShape
  BY <1>3 DEF WriteShape
<1>4. CASE StoreRequest
  BY <1>4 DEF StoreRequest
<1>5. CASE NotifyServer
  BY <1>5 DEF NotifyServer, Notify
<1>6. CASE LockForReply
  BY <1>6 DEF LockForReply, Locked, WaitAt, Replied, ReturnFromSend, BlockAt
<1>7. CASE AwaitReply("wait")
  BY <1>7 DEF AwaitReply, WaitAt, Replied, ReturnFromSend, BlockAt
<1>8. CASE AwaitReply("timedwait")
  BY <1>8 DEF AwaitReply, WaitAt, Replied, ReturnFromSend, BlockAt
<1>9. CASE PostEvent
  BY <1>9 DEF PostEvent, Posted, WaitAt, Replied, ReturnFromSend, BlockAt
<1>10. CASE PostAgain
  BY <1>10 DEF PostAgain, Replied, ReturnFromSend, Locked
<1>11. CASE TimeOut
  BY <1>11 DEF TimeOut
<1>12. CASE Receive
  <2>1. LockInv'
    BY <1>12 DEF Receive, Handle
  <2>2. NoLostWakeup'
    BY <1>12 DEF Receive, Handle
  <2>3. SlotInv'
    BY <1>12 DEF Receive, Handle
  <2>4. ShapeInv'
    BY <1>12 DEF Receive, Handle
  <2>5. ExitInv'
    BY <1>12 DEF Receive, Handle
  <2> QED
    BY <2>1, <2>2, <2>3, <2>4, <2>5
<1>13. CASE TryReceive
  <2>1. LockInv'
    BY <1>13 DEF TryReceive, Handle
  <2>2. NoLostWakeup'
    BY <1>13 DEF TryReceive, Handle
  <2>3. SlotInv'
    BY <1>13 DEF TryReceive, Handle
  <2>4. ShapeInv'
    BY <1>13 DEF TryReceive, Handle
  <2>5. ExitInv'
    <3>1. request = "exit" => exiting'
      BY <1>13, Zenon DEF TryReceive, Handle
    <3>2. window # "closed"
      BY <1>13 DEF TryReceive
    <3>3. QED
      BY <1>13, <3>1, <3>2 DEF TryReceive, Handle
  <2> QED
    BY <2>1, <2>2, <2>3, <2>4, <2>5
<1>14. CASE RetryReceive
  <2>1. LockInv'
    BY <1>14 DEF RetryReceive, Handle
  <2>2. NoLostWakeup'
    BY <1>14 DEF RetryReceive, Handle
  <2>3. SlotInv'
    BY <1>14 DEF RetryReceive, Handle
  <2>4. ShapeInv'
    BY <1>14 DEF RetryReceive, Handle
  <2>5. ExitInv'
    <3>1. request = "exit" => exiting'
      BY <1>14, Zenon DEF RetryReceive, Handle
    <3>2. window # "closed"
      BY <1>14 DEF RetryReceive
    <3>3. QED
      BY <1>14, <3>1, <3>2 DEF RetryReceive, Handle
  <2> QED
    BY <2>1, <2>2, <2>3, <2>4, <2>5
<1>15. CASE Start
  BY <1>15 DEF Start
<1>16. CASE SetShape
  BY <1>16 DEF SetShape, MovedFrom
<1>17. CASE Reply
  BY <1>17 DEF Reply
<1>18. CASE NotifyClient
  BY <1>18 DEF NotifyClient, Notify
<1>19. CASE OpenWindow
  BY <1>19 DEF OpenWindow
<1>20. CASE DrawFrame
  BY <1>20 DEF DrawFrame
<1>21. CASE CloseWindow
  BY <1>21 DEF CloseWindow, AfterClose
<1>22. ASSUME NEW e \in {"wake", "close"}, UserInput(e)
      PROVE  HandshakeInv'
  BY <1>22 DEF UserInput
<1>23. ASSUME NEW t \in {"client", "server"}, SpuriousWakeup(t)
      PROVE  HandshakeInv'
  BY <1>23 DEF SpuriousWakeup
<1>24. CASE UNCHANGED vars
  BY <1>24 DEF vars
<1>25. QED
  BY <1>1, <1>2, <1>3, <1>4, <1>5, <1>6, <1>7, <1>8, <1>9, <1>10, <1>11,
     <1>12, <1>13, <1>14, <1>15, <1>16, <1>17, <1>18, <1>19, <1>20, <1>21,
     <1>22, <1>23, <1>24
     DEF Next, Send, ServerLocks, ServerRuns, Terminated

-----------------------------------------------------------------------------

(* The variables keep their types, and the handshake invariant holds in    *)
(* every state of View_Server.                                             *)
THEOREM Invariance == Spec => []IInv
<1>1. Init => IInv
  BY InitIInv
<1>2. IInv /\ [Next]_vars => IInv'
  BY TypeStep, HandshakeStep DEF IInv, HandshakeInv
<1>3. QED
  BY <1>1, <1>2, PTL DEF Spec

(* The variables of both threads have their types in every state.          *)
THEOREM TypeCorrect == Spec => []TypeOK
<1>1. IInv => TypeOK
  BY DEF IInv
<1>2. QED
  BY <1>1, Invariance, PTL

(* display_shape() never writes request_shape_ while the server moves the  *)
(* shape out of it: while the client writes, the slot holds no request.    *)
THEOREM RaceFreedom == Spec => []NoShapeRace
<1>1. IInv => NoShapeRace
  BY DEF IInv, SlotInv, NoShapeRace, Waiting
<1>2. QED
  BY <1>1, Invariance, PTL

(* The assertions before set_shape() hold, with the shape of the call.     *)
THEOREM ShapeAlwaysPresent == Spec => []ShapePresent
<1>1. IInv => ShapePresent
  BY ShapeAssumption
  DEF IInv, TypeOK, ClientType, SlotInv, ShapeInv, ShapePresent, Waiting,
      Display, Exit, NoCall
<1>2. QED
  BY <1>1, Invariance, PTL

(* No thread sleeps through the change of the slot that it waits for.      *)
THEOREM WakeupsArrive == Spec => []NoLostWakeup
<1>1. IInv => NoLostWakeup
  BY DEF IInv
<1>2. QED
  BY <1>1, Invariance, PTL

(* Only three steps return from send(), and they do so with the slot empty. *)
LEMMA ReturnStep ==
    ASSUME IInv, [Next]_vars, client # "idle", client' = "idle"
    PROVE  /\ job = Display(viewShape) /\ requestShape = NoShape
           /\ request = "none" /\ job # NoCall /\ job # Exit
           /\ job' = NoCall
           /\ UNCHANGED <<slotVars, serverVars, viewShape>>
<1> USE DEF clientVars, slotVars, syncVars, serverVars, viewVars
<1>1. /\ client \in Waiting /\ request = "none" /\ job # Exit
      /\ job' = NoCall /\ UNCHANGED <<slotVars, serverVars, viewShape>>
  <2>1. CASE LockForReply
    BY <2>1 DEF LockForReply, WaitAt, Replied, ReturnFromSend, BlockAt, Locked,
       Waiting
  <2>2. CASE \E loc \in {"wait", "timedwait"} : AwaitReply(loc)
    BY <2>2 DEF AwaitReply, WaitAt, Replied, ReturnFromSend, BlockAt, Waiting
  <2>3. CASE PostEvent
    BY <2>3 DEF PostEvent, WaitAt, Replied, ReturnFromSend, BlockAt, Waiting
  <2>4. CASE PostAgain
    BY <2>4 DEF PostAgain, Replied, ReturnFromSend, Locked, Waiting
  <2>5. CASE UNCHANGED client
    BY <2>5
  <2>6. CASE client' # "idle"
    BY <2>6
  <2>7. QED
    BY <2>1, <2>2, <2>3, <2>4, <2>5, <2>6
    DEF Next, Begin, Send, WriteShape, StoreRequest, NotifyServer, TimeOut,
        ServerLocks, ServerRuns, Receive, TryReceive, RetryReceive, Start,
        SetShape, Reply, NotifyClient, OpenWindow, DrawFrame, CloseWindow,
        UserInput, SpuriousWakeup, Terminated, vars
<1>2. job = Display(viewShape) /\ requestShape = NoShape /\ job # NoCall
  BY <1>1, ShapeAssumption
  DEF IInv, TypeOK, ClientType, SlotInv, ShapeInv, Waiting, Display, Exit,
      NoCall
<1>3. QED
  BY <1>1, <1>2

(* When display_shape() returns, its shape is in the viewer, and nothing   *)
(* is left in request_shape_.                                              *)
THEOREM Delivery == Spec => DeliveredOnReturn
<1>1. IInv /\ [Next]_vars
        => [client # "idle" /\ client' = "idle" =>
              job = Display(viewShape) /\ requestShape = NoShape]_vars
  BY ReturnStep
<1>2. QED
  BY <1>1, Invariance, PTL DEF Spec, DeliveredOnReturn

-----------------------------------------------------------------------------
(* Refinement: each step is a step of the atomic service, or a stutter.    *)

LEMMA InitRefines == Init => Service!Init
  BY DEF Init, Service!Init, CallStatus, Stopped, Service!NoCall, NoCall

(* The steps that leave the call, its status, the shape and the server's   *)
(* decision to stop as they are.                                           *)
LEMMA Stuttering ==
    ASSUME UNCHANGED <<job, CallStatus, viewShape, Stopped>>
    PROVE  UNCHANGED Service!vars
  BY DEF Service!vars

LEMMA StepRefines ==
    ASSUME IInv, IInv', [Next]_vars
    PROVE  [Service!Next]_(Service!vars)
<1> USE ShapeAssumption
    DEF clientVars, slotVars, syncVars, serverVars, viewVars, CallStatus,
        Service!Next, Service!Display, Service!Exit, Service!NoCall,
        Service!Calls, Stopped, Display, Exit, NoCall
<1>1. ASSUME NEW s \in Shapes, Begin(Display(s), FirstStep)
      PROVE  Service!Call
  BY <1>1 DEF Begin, FirstStep, Service!Call, IInv, SlotInv, ExitInv
<1>2. CASE Begin(Exit, "store")
  <2>1. Service!Call
    BY <1>2 DEF Begin, Service!Call, IInv, SlotInv, ExitInv
  <2>2. QED
    BY <2>1
<1>3. CASE SetShape
  <2>1. Service!Take
    BY <1>3 DEF SetShape, Service!Take, IInv, SlotInv, ShapeInv, TypeOK,
                ClientType, Waiting
  <2>2. QED
    BY <2>1
<1>4. CASE ServerLocks
  <2>1. CASE request = "none"
    BY <1>4, <2>1, Stuttering
    DEF ServerLocks, Receive, TryReceive, RetryReceive
  <2>2. CASE request = "display"
    BY <1>4, <2>2, Stuttering
    DEF ServerLocks, Receive, TryReceive, RetryReceive, Handle, IInv,
        ExitInv, SlotInv, Waiting
  <2>3. CASE request = "exit"
    <3>1. Service!Take
      BY <1>4, <2>3
      DEF ServerLocks, Receive, TryReceive, RetryReceive, Handle,
          Service!Take, IInv, SlotInv, TypeOK, ClientType, Waiting
    <3>2. QED
      BY <3>1
  <2>4. QED
    BY <2>1, <2>2, <2>3 DEF IInv, TypeOK, ClientType, Request
<1>5. CASE LockForReply \/ (\E loc \in {"wait", "timedwait"} : AwaitReply(loc))
           \/ PostEvent \/ PostAgain
  <2> USE <1>5 DEF LockForReply, AwaitReply, PostEvent, PostAgain, WaitAt,
          Replied, ReturnFromSend, BlockAt, Locked
  <2>1. client \in Waiting /\ job # NoCall
    BY DEF IInv, SlotInv, Waiting
  <2>2. UNCHANGED <<request, server, viewShape, id>>
    OBVIOUS
  <2>3. CASE job' = job /\ client' \in Waiting
    BY <2>1, <2>2, <2>3, Stuttering DEF Waiting
  <2>4. CASE ReturnFromSend /\ request = "none"
    <3>1. Service!Return
      BY <2>1, <2>2, <2>4 DEF Service!Return, Waiting
    <3>2. QED
      BY <3>1
  <2>5. QED
    BY <2>3, <2>4 DEF Waiting
<1>6. CASE WriteShape \/ StoreRequest \/ NotifyServer \/ TimeOut
  <2>1. CASE WriteShape
    BY <2>1, Stuttering DEF WriteShape
  <2>2. CASE StoreRequest
    <3>1. job.op # "none" /\ server # "reply" /\ job # NoCall
      BY <2>2 DEF StoreRequest, IInv, SlotInv, TypeOK, ClientType, Waiting
    <3>2. QED
      BY <2>2, <3>1, Stuttering DEF StoreRequest
  <2>3. CASE NotifyServer \/ TimeOut
    BY <2>3, Stuttering DEF NotifyServer, TimeOut
  <2>4. QED
    BY <1>6, <2>1, <2>2, <2>3
<1>7. CASE Start \/ OpenWindow \/ DrawFrame \/ CloseWindow
  BY <1>7, Stuttering
  DEF Start, OpenWindow, DrawFrame, CloseWindow, AfterClose
<1>8. CASE NotifyClient
  BY <1>8, Stuttering DEF NotifyClient
<1>9. CASE Reply
  BY <1>9, Stuttering DEF Reply, IInv, SlotInv, Waiting
<1>10. ASSUME NEW e \in {"wake", "close"}, UserInput(e)
      PROVE  UNCHANGED Service!vars
  BY <1>10, Stuttering DEF UserInput
<1>11. ASSUME NEW t \in {"client", "server"}, SpuriousWakeup(t)
      PROVE  UNCHANGED Service!vars
  BY <1>11, Stuttering DEF SpuriousWakeup
<1>12. CASE UNCHANGED vars
  BY <1>12, Stuttering DEF vars
<1>13. QED
  BY <1>1, <1>2, <1>3, <1>4, <1>5, <1>6, <1>7, <1>8, <1>9, <1>10,
     <1>11, <1>12
  DEF Next, Send, ServerRuns, Terminated

(* View_Server does nothing that the atomic service of ViewService could   *)
(* not do: calls are taken one at a time, each once, before they return,   *)
(* and none after an exit().                                               *)
THEOREM ServiceSafety == Spec => Service!Init /\ [][Service!Next]_(Service!vars)
<1>1. IInv /\ IInv' /\ [Next]_vars => [Service!Next]_(Service!vars)
  BY StepRefines
<1>2. QED
  BY <1>1, InitRefines, Invariance, PTL DEF Spec

=============================================================================
