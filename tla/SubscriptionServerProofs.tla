----------------------- MODULE SubscriptionServerProofs -----------------------
(***************************************************************************)
(* RunningIsRegistered for every set of operations and ids. The invariant   *)
(* is inductive once it is known that an entry of the map is an operation   *)
(* of that id which was not cancelled: Cancel(id) then stops exactly the    *)
(* operation it takes out of the map.                                       *)
(***************************************************************************)
EXTENDS SubscriptionServer, TLAPS

\* An entry names an operation with that id that was started and not cancelled.
EntriesAreLive ==
    \A id \in IDs : cancellations[id] # NoOp =>
        /\ IDOf[cancellations[id]] = id
        /\ opAt[cancellations[id]] \notin {"none", "refused"}
        /\ cancellations[id] \notin stopped

\* An operation is not cancelled before it is started.
NotStartedNotStopped ==
    \A o \in Ops : opAt[o] \in {"none", "refused"} => o \notin stopped

\* The inductive invariant.
ServerInv ==
    /\ TypeOK /\ EntriesAreLive /\ NotStartedNotStopped /\ RunningIsRegistered

OpStates == {"none", "refused", "execute", "emit", "wait", "cancel", "ended"}

\* Cancel keeps map and contexts in step, whoever calls it and whatever becomes
\* of an operation's program counter, as long as nothing is started.
LEMMA CancelKeepsInv ==
    ASSUME ServerInv, NEW id \in IDs, Cancel(id), opAt' \in [Ops -> OpStates],
           \A o \in Ops : Running(o)' => Running(o),
           \A o \in Ops : opAt'[o] \in {"none", "refused"} <=> opAt[o] \in {"none", "refused"}
    PROVE  /\ cancellations' \in [IDs -> Ops \cup {NoOp}] /\ stopped' \in SUBSET Ops
           /\ EntriesAreLive' /\ NotStartedNotStopped' /\ RunningIsRegistered'
<1>0. /\ cancellations \in [IDs -> Ops \cup {NoOp}] /\ stopped \in SUBSET Ops
      /\ IDOf \in [Ops -> IDs] /\ NoOp \notin Ops
  BY ConstantsAssumption DEF ServerInv, TypeOK
<1>1. cancellations' \in [IDs -> Ops \cup {NoOp}] /\ stopped' \in SUBSET Ops
  BY <1>0 DEF Cancel
<1>2. EntriesAreLive'
  BY <1>0 DEF Cancel, ServerInv, EntriesAreLive
<1>3. RunningIsRegistered'
  BY <1>0 DEF Cancel, ServerInv, RunningIsRegistered, EntriesAreLive
<1>4. NotStartedNotStopped'
  BY <1>0 DEF Cancel, ServerInv, NotStartedNotStopped, EntriesAreLive
<1> QED BY <1>1, <1>2, <1>3, <1>4

\* A step that neither cancels nor starts anything keeps the invariant.
LEMMA QuietKeepsInv ==
    ASSUME ServerInv, UNCHANGED <<cancellations, stopped>>, opAt' \in [Ops -> OpStates],
           \A o \in Ops : Running(o)' => Running(o),
           \A o \in Ops : opAt'[o] \in {"none", "refused"} <=> opAt[o] \in {"none", "refused"}
    PROVE  EntriesAreLive' /\ NotStartedNotStopped' /\ RunningIsRegistered'
<1>0. /\ cancellations \in [IDs -> Ops \cup {NoOp}] /\ stopped \in SUBSET Ops
      /\ IDOf \in [Ops -> IDs] /\ NoOp \notin Ops
  BY ConstantsAssumption DEF ServerInv, TypeOK
<1>1. EntriesAreLive' /\ NotStartedNotStopped'
  BY <1>0 DEF ServerInv, NotStartedNotStopped, EntriesAreLive
<1>2. RunningIsRegistered'
  BY <1>0 DEF ServerInv, RunningIsRegistered
<1> QED BY <1>1, <1>2

\* The types are kept by every step.
LEMMA TypeStep == TypeOK /\ [Next]_vars => TypeOK'
<1> SUFFICES ASSUME TypeOK, [Next]_vars PROVE TypeOK'
  OBVIOUS
<1> USE ConstantsAssumption DEF TypeOK
<1>1. CASE UNCHANGED vars
  BY <1>1 DEF vars, handlerVars, connVars, protoVars, opVars
<1>2. CASE HandlerStep
  <2>1. CASE Open
    BY <2>1 DEF Open, IsTransport, handlerVars, connVars, protoVars, opVars
  <2>2. CASE NextRound
    BY <2>2 DEF NextRound, handlerVars, connVars, protoVars, opVars
  <2>3. CASE ReadClosed
    BY <2>3 DEF ReadClosed, handlerVars, connVars, protoVars, opVars
  <2>4. CASE ReadFails
    BY <2>4 DEF ReadFails, handlerVars, connVars, protoVars, opVars
  <2>5. CASE TerminateNext
    BY <2>5 DEF TerminateNext, Cancel, handlerVars, connVars, protoVars, opVars
  <2>6. CASE Terminated
    BY <2>6 DEF Terminated, handlerVars, connVars, protoVars, opVars
  <2>7. CASE CloseConnection
    BY <2>7 DEF CloseConnection, handlerVars, connVars, protoVars, opVars
  <2> QED BY <1>2, <2>1, <2>2, <2>3, <2>4, <2>5, <2>6, <2>7 DEF HandlerStep
<1>3. CASE MessageStep
  <2>1. CASE Ignore
    BY <2>1 DEF Ignore, Receive, handlerVars, connVars, protoVars, opVars
  <2>2. CASE Misuse
    BY <2>2 DEF Misuse, Receive, Disconnect, handlerVars, connVars, protoVars, opVars
  <2>3. CASE handleInit
    <3>1. CASE connectionInitialized
      BY <2>3, <3>1 DEF handleInit, Receive, Disconnect, handlerVars, connVars, protoVars, opVars
    <3>2. CASE ~connectionInitialized
      <4>1. /\ UNCHANGED <<protocol, cancelled, readExpired, connVars, opVars>>
            /\ at' = "select" /\ readTimer' = "off" /\ heartbeats' = 1
            /\ initTimer' = IF initTimer = "waiting" THEN "over" ELSE initTimer
        BY <2>3, <3>2 DEF handleInit, Receive
      <4>2. connectionInitialized' \in BOOLEAN
        BY <2>3, <3>2 DEF handleInit
      <4> QED BY <4>1, <4>2 DEF connVars, opVars
    <3> QED BY <3>1, <3>2
  <2>4. CASE InitRejected
    BY <2>4 DEF InitRejected, Receive, Disconnect, handlerVars, connVars, protoVars, opVars
  <2>5. CASE handleInitLegacy
    BY <2>5 DEF handleInitLegacy, Receive, handlerVars, connVars, protoVars, opVars
  <2>6. CASE HandleTerminate
    BY <2>6 DEF HandleTerminate, Receive, handlerVars, connVars, protoVars, opVars
  <2>7. ASSUME NEW o \in Ops,
               Unauthorized(o) \/ StartFails(o) \/ Duplicate(o) \/ StartOperation(o)
        PROVE  TypeOK'
    <3>1. CASE Unauthorized(o)
      BY <3>1 DEF Unauthorized, Receive, Disconnect, handlerVars, connVars, protoVars, opVars
    <3>2. CASE StartFails(o)
      BY <3>2 DEF StartFails, MayStart, Receive, handlerVars, connVars, protoVars, opVars
    <3>3. CASE Duplicate(o)
      BY <3>3 DEF Duplicate, MayStart, Receive, Disconnect, handlerVars, connVars, protoVars, opVars
    <3>4. CASE StartOperation(o)
      BY <3>4 DEF StartOperation, MayStart, Receive, handlerVars, connVars, protoVars, opVars
    <3> QED BY <2>7, <3>1, <3>2, <3>3, <3>4
  <2>8. ASSUME NEW id \in IDs, StopSubscription(id) PROVE TypeOK'
    BY <2>8 DEF StopSubscription, Cancel, Receive, handlerVars, connVars, protoVars, opVars
  <2> QED BY <1>3, <2>1, <2>2, <2>3, <2>4, <2>5, <2>6, <2>7, <2>8 DEF MessageStep
<1>4. CASE TimerStep
  <2>1. CASE ReadTimerExpires
    BY <2>1 DEF ReadTimerExpires, handlerVars, connVars, protoVars, opVars
  <2>2. CASE ReadTimeOut
    BY <2>2, ZenonT(40) DEF ReadTimeOut, handlerVars, connVars, protoVars, opVars
  <2>3. CASE InitTimerExpires
    BY <2>3 DEF InitTimerExpires, handlerVars, connVars, protoVars, opVars
  <2>4. CASE InitTimeOut
    BY <2>4, ZenonT(40) DEF InitTimeOut, Disconnect, handlerVars, connVars, protoVars, opVars
  <2> QED BY <1>4, <2>1, <2>2, <2>3, <2>4 DEF TimerStep
<1>5. CASE HeartbeatEnds \/ PeerLeaves
  BY <1>5 DEF HeartbeatEnds, PeerLeaves, handlerVars, connVars, protoVars, opVars
<1>6. ASSUME NEW o \in Ops, OpStep(o) PROVE TypeOK'
  BY <1>6 DEF OpStep, ExecuteReturns, Emit, QueryEnds, IntervalOver, SubscriptionEnds, Cancel,
     handlerVars, connVars, protoVars, opVars
<1> QED BY <1>1, <1>2, <1>3, <1>4, <1>5, <1>6 DEF Next

\* The invariant is kept by every step.
LEMMA ServerInvStep == ServerInv /\ [Next]_vars => ServerInv'
<1> SUFFICES ASSUME ServerInv, [Next]_vars
             PROVE  EntriesAreLive' /\ NotStartedNotStopped' /\ RunningIsRegistered'
  BY TypeStep DEF ServerInv
<1>0. TypeOK /\ TypeOK'
  BY TypeStep DEF ServerInv
<1>t. opAt \in [Ops -> OpStates] /\ opAt' \in [Ops -> OpStates]
  BY <1>0 DEF TypeOK, OpStates
<1>1. CASE UNCHANGED opVars
  BY <1>1, <1>t, QuietKeepsInv DEF opVars, Running
<1>2. CASE TerminateNext
  <2>1. PICK id \in IDs : Cancel(id)
    BY <1>2 DEF TerminateNext
  <2> QED BY <1>2, <1>t, <2>1, CancelKeepsInv DEF TerminateNext, Running
<1>3. ASSUME NEW id \in IDs, StopSubscription(id)
      PROVE  EntriesAreLive' /\ NotStartedNotStopped' /\ RunningIsRegistered'
  BY <1>3, <1>t, CancelKeepsInv DEF StopSubscription, Running
<1>4. ASSUME NEW o \in Ops, Unauthorized(o) \/ StartFails(o) \/ Duplicate(o)
      PROVE  EntriesAreLive' /\ NotStartedNotStopped' /\ RunningIsRegistered'
  <2>1. /\ UNCHANGED <<cancellations, stopped>>
        /\ opAt[o] = "none" /\ opAt' = [opAt EXCEPT ![o] = "refused"]
    BY <1>4 DEF Unauthorized, StartFails, Duplicate, MayStart
  <2> QED BY <2>1, <1>t, QuietKeepsInv DEF Running
<1>5. ASSUME NEW o \in Ops, StartOperation(o)
      PROVE  EntriesAreLive' /\ NotStartedNotStopped' /\ RunningIsRegistered'
  <2>1. /\ opAt[o] = "none" /\ cancellations[IDOf[o]] = NoOp /\ UNCHANGED stopped
        /\ cancellations' = [cancellations EXCEPT ![IDOf[o]] = o]
        /\ opAt' = [opAt EXCEPT ![o] = "execute"]
    BY <1>5 DEF StartOperation, MayStart
  <2>2. cancellations \in [IDs -> Ops \cup {NoOp}] /\ IDOf \in [Ops -> IDs] /\ NoOp \notin Ops
    BY <1>0, ConstantsAssumption DEF TypeOK
  <2>3. o \notin stopped
    BY <2>1 DEF ServerInv, NotStartedNotStopped
  <2>4. EntriesAreLive'
    BY <2>1, <2>2, <2>3, <1>t DEF ServerInv, EntriesAreLive
  <2>5. NotStartedNotStopped'
    BY <2>1, <2>2, <2>3, <1>t DEF ServerInv, NotStartedNotStopped
  <2>6. RunningIsRegistered'
    <3> SUFFICES ASSUME NEW p \in Ops, Running(p)', p \notin stopped'
                 PROVE  cancellations'[IDOf[p]] = p
      BY DEF RunningIsRegistered
    <3>1. CASE p = o
      BY <3>1, <2>1, <2>2
    <3>2. CASE p # o
      <4>1. Running(p) /\ p \notin stopped
        BY <3>2, <2>1, <1>t DEF Running
      <4>2. cancellations[IDOf[p]] = p
        BY <4>1 DEF ServerInv, RunningIsRegistered
      <4>3. IDOf[p] # IDOf[o]
        BY <4>2, <2>1, <2>2
      <4> QED BY <4>2, <4>3, <2>1, <2>2
    <3> QED BY <3>1, <3>2
  <2> QED BY <2>4, <2>5, <2>6
<1>6. ASSUME NEW o \in Ops, QueryEnds(o)
      PROVE  EntriesAreLive' /\ NotStartedNotStopped' /\ RunningIsRegistered'
  <2>1. Cancel(IDOf[o]) /\ IDOf[o] \in IDs
    BY <1>6, ConstantsAssumption DEF QueryEnds
  <2>2. opAt[o] = "cancel" /\ opAt' = [opAt EXCEPT ![o] = "ended"]
    BY <1>6 DEF QueryEnds
  <2> QED BY <2>1, <2>2, <1>t, CancelKeepsInv DEF Running
<1>7. ASSUME NEW o \in Ops,
             ExecuteReturns(o) \/ Emit(o) \/ IntervalOver(o) \/ SubscriptionEnds(o)
      PROVE  EntriesAreLive' /\ NotStartedNotStopped' /\ RunningIsRegistered'
  <2>1. /\ UNCHANGED <<cancellations, stopped>>
        /\ opAt[o] \in {"execute", "emit", "wait"}
        /\ \E s \in {"execute", "emit", "wait", "cancel", "ended"} : opAt' = [opAt EXCEPT ![o] = s]
    BY <1>7 DEF ExecuteReturns, Emit, IntervalOver, SubscriptionEnds
  <2> QED BY <2>1, <1>t, QuietKeepsInv DEF Running
<1>8. CASE HandlerStep
  <2>1. CASE ~TerminateNext
    <3>1. UNCHANGED opVars
      BY <1>8, <2>1 DEF HandlerStep, Open, NextRound, ReadClosed, ReadFails, Terminated, CloseConnection
    <3> QED BY <3>1, <1>1
  <2> QED BY <2>1, <1>2
<1>9. CASE MessageStep
  <2>1. CASE Ignore \/ Misuse \/ handleInit \/ InitRejected \/ handleInitLegacy \/ HandleTerminate
    <3>1. UNCHANGED opVars
      BY <2>1 DEF Ignore, Misuse, handleInit, InitRejected, handleInitLegacy, HandleTerminate
    <3> QED BY <3>1, <1>1
  <2> QED BY <1>9, <2>1, <1>3, <1>4, <1>5 DEF MessageStep
<1>10. CASE TimerStep \/ HeartbeatEnds \/ PeerLeaves \/ UNCHANGED vars
  <2>1. UNCHANGED opVars
    BY <1>10 DEF TimerStep, ReadTimerExpires, ReadTimeOut, InitTimerExpires, InitTimeOut,
       HeartbeatEnds, PeerLeaves, vars
  <2> QED BY <2>1, <1>1
<1> QED BY <1>6, <1>7, <1>8, <1>9, <1>10 DEF Next, OpStep

\* For any number of operations and ids and for both protocols: an operation that
\* runs and was not cancelled is the one its id cancels, although a query that ends
\* cancels by id and ids are reused; the variables are typed.
THEOREM ServerRunningIsRegistered == Spec => [](TypeOK /\ RunningIsRegistered)
<1>1. Init => ServerInv
  <2> SUFFICES ASSUME Init PROVE ServerInv
    OBVIOUS
  <2>1. TypeOK
    BY ConstantsAssumption DEF Init, TypeOK
  <2>2. EntriesAreLive /\ NotStartedNotStopped /\ RunningIsRegistered
    BY DEF Init, EntriesAreLive, NotStartedNotStopped, RunningIsRegistered, Running
  <2> QED BY <2>1, <2>2 DEF ServerInv
<1>2. ServerInv => TypeOK /\ RunningIsRegistered
  BY DEF ServerInv
<1> QED BY <1>1, <1>2, ServerInvStep, PTL DEF Spec
=============================================================================
