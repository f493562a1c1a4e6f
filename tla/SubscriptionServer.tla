-------------------------- MODULE SubscriptionServer --------------------------
(***************************************************************************)
(* One WebSocket client of execution/subscription: UniversalProtocolHandler *)
(* reads its messages, the graphql-transport-ws or graphql-ws handler acts  *)
(* on them, ExecutorEngine runs every operation in a goroutine of its own   *)
(* and knows it by the id the client chose, websocket.Client keeps the      *)
(* connection.                                                              *)
(*                                                                         *)
(* Payloads and what is written to the client are left out, but for the    *)
(* close frames, whose failure matters. A write to the client changes no   *)
(* state: its error is logged. (io.ErrClosedPipe, which marks the client   *)
(* closed, comes from an in-memory net.Pipe only and is left out.)         *)
(***************************************************************************)
EXTENDS Naturals, FiniteSets

CONSTANTS Ops,      \* operations the client asks to start
          IDs, IDOf,\* the id it gives each of them
          Queries,  \* the operations that are queries or mutations
          NoOp,
          MaxKeepAlives,  \* bound on the connection_init messages of graphql-ws
          Moves     \* what the client, the network and the hooks do

ASSUME ConstantsAssumption ==
    /\ IDOf \in [Ops -> IDs] /\ NoOp \notin Ops
    /\ Queries \subseteq Ops
    /\ MaxKeepAlives \in Nat

VARIABLES
    protocol,       \* which handler createProtocolHandler made
    at,             \* program counter of UniversalProtocolHandler.Handle
    cancelled,      \* ctxWithCancel is done
    readTimer,      \* isReadTimeOutTimerRunning, and whether its goroutine still waits
    readExpired,    \* a read error timer has run out and is to call cancel
    closed,         \* Client.isClosedConnection
    socket,         \* what the connection does when it is used
    connectionInitialized,
    initTimer,      \* goroutine of the connection_init timeout
    heartbeats,     \* heartbeat or keep-alive goroutines
    cancellations,  \* subscriptionCancellations: the operation an id cancels
    opAt,           \* program counter of an operation's goroutine
    stopped         \* operations whose cancellation was called

handlerVars == <<at, cancelled, readTimer, readExpired>>
connVars    == <<closed, socket>>
protoVars   == <<connectionInitialized, initTimer, heartbeats>>
opVars      == <<cancellations, opAt, stopped>>
vars == <<protocol, handlerVars, connVars, protoVars, opVars>>

\* Types of the variables.
TypeOK ==
    /\ protocol \in {"graphql-transport-ws", "graphql-ws"}
    /\ at \in {"open", "select", "read", "terminateAll", "deferred", "close", "returned"}
    /\ cancelled \in BOOLEAN /\ readExpired \in BOOLEAN
    /\ readTimer \in {"off", "waiting", "fired"}
    /\ closed \in BOOLEAN
    /\ socket \in {"ok", "eof", "reset", "shut"}
    /\ connectionInitialized \in BOOLEAN
    /\ initTimer \in {"none", "waiting", "expired", "over"}
    /\ heartbeats \in Nat
    /\ cancellations \in [IDs -> Ops \cup {NoOp}]
    /\ opAt \in [Ops -> {"none", "refused", "execute", "emit", "wait", "cancel", "ended"}]
    /\ stopped \in SUBSET Ops

Init ==
    /\ protocol \in {"graphql-transport-ws", "graphql-ws"}
    /\ at = "open" /\ cancelled = FALSE
    /\ readTimer = "off" /\ readExpired = FALSE
    /\ closed = FALSE /\ socket = "ok"
    /\ connectionInitialized = FALSE /\ initTimer = "none" /\ heartbeats = 0
    /\ cancellations = [id \in IDs |-> NoOp]
    /\ opAt = [o \in Ops |-> "none"]
    /\ stopped = {}

IsTransport == protocol = "graphql-transport-ws"

-----------------------------------------------------------------------------
(* websocket.Client and subscriptionCancellations. *)

\* DisconnectWithReason: when the close frame cannot be written the connection
\* is left as it is.
Disconnect ==
    \/ /\ socket \in {"ok", "eof"}
       /\ closed' = TRUE /\ socket' = "shut"
    \/ /\ socket # "ok"
       /\ UNCHANGED connVars

\* Cancel: void when the id is not known.
Cancel(id) ==
    /\ cancellations' = [cancellations EXCEPT ![id] = NoOp]
    /\ stopped' = stopped \cup ({cancellations[id]} \ {NoOp})

\* An operation's context is a child of the handler's.
Done(o) == o \in stopped \/ cancelled

-----------------------------------------------------------------------------
(* UniversalProtocolHandler.Handle. *)

\* EventTypeOnConnectionOpened: graphql-transport-ws starts its timer.
Open ==
    /\ at = "open" /\ at' = "select"
    /\ initTimer' = IF IsTransport THEN "waiting" ELSE "none"
    /\ UNCHANGED <<protocol, cancelled, readTimer, readExpired, connVars,
                   connectionInitialized, heartbeats, opVars>>

\* The select at the end of a round and IsConnected at the start of the next.
NextRound ==
    /\ at = "select"
    /\ at' = IF cancelled \/ closed THEN "deferred" ELSE "read"
    /\ UNCHANGED <<protocol, cancelled, readTimer, readExpired, connVars, protoVars, opVars>>

\* ReadBytesFromClient reports a closed connection.
ReadClosed ==
    /\ at = "read" /\ socket \in {"eof", "shut"}
    /\ closed' = TRUE
    /\ at' = "deferred"
    /\ UNCHANGED <<protocol, cancelled, readTimer, readExpired, socket, protoVars, opVars>>

\* Any other error: the timer is started unless it runs; it ran out or not, it
\* counts as running until something is read.
ReadFails ==
    /\ at = "read"
    /\ socket = "reset" \/ (socket = "ok" /\ "ReadFails" \in Moves)
    /\ at' = "select"
    /\ readTimer' = IF readTimer = "off" THEN "waiting" ELSE readTimer
    /\ UNCHANGED <<protocol, cancelled, readExpired, connVars, protoVars, opVars>>

ReadTimerExpires ==
    /\ readTimer = "waiting"
    /\ readTimer' = "fired" /\ readExpired' = TRUE
    /\ UNCHANGED <<protocol, at, cancelled, connVars, protoVars, opVars>>

\* TimeOutAction: cancel, which the handler notices at the end of a round.
\* Mutant: the timeout is only logged.
LogReadTimeOut ==
    /\ readExpired /\ readExpired' = FALSE
    /\ UNCHANGED <<protocol, at, cancelled, readTimer, connVars, protoVars, opVars>>
ReadTimeOut ==
    /\ readExpired /\ readExpired' = FALSE
    /\ cancelled' = TRUE
    /\ UNCHANGED <<protocol, at, readTimer, connVars, protoVars, opVars>>

\* A message arrives: the read error timer is stopped, the protocol acts on it.
Receive ==
    /\ at = "read" /\ socket = "ok"
    /\ readTimer' = "off"
    /\ UNCHANGED <<protocol, cancelled, readExpired>>

\* TerminateAllSubscriptions, called by the protocol or deferred by Handle:
\* the ids are cancelled one by one, in the map's order, that is in any.
TerminateNext ==
    /\ at \in {"terminateAll", "deferred"}
    /\ \E id \in IDs : cancellations[id] # NoOp /\ Cancel(id)
    /\ UNCHANGED <<protocol, handlerVars, connVars, protoVars, opAt>>

\* No id is left: on to the next message, or to the deferred cancel.
Terminated ==
    /\ at \in {"terminateAll", "deferred"} /\ \A id \in IDs : cancellations[id] = NoOp
    /\ at' = IF at = "terminateAll" THEN "select" ELSE "close"
    /\ cancelled' = (cancelled \/ at = "deferred")
    /\ UNCHANGED <<protocol, readTimer, readExpired, connVars, protoVars, opVars>>

\* HandleWithOptions closes the connection at last.
CloseConnection ==
    /\ at = "close" /\ at' = "returned"
    /\ socket' = "shut"
    /\ UNCHANGED <<protocol, cancelled, readTimer, readExpired, closed, protoVars, opVars>>

-----------------------------------------------------------------------------
(* The protocols' Handle. *)

\* Ping, pong, an empty message, one that is no message: nothing but a write.
Ignore ==
    /\ Receive /\ at' = "select"
    /\ UNCHANGED <<connVars, protoVars, opVars>>

\* A syntax error or an unknown type closes a graphql-transport-ws connection.
Misuse ==
    /\ Receive /\ at' = "select" /\ "Misuse" \in Moves /\ IsTransport
    /\ Disconnect
    /\ UNCHANGED <<protoVars, opVars>>

\* connection_init of graphql-transport-ws: the timer is stopped and the
\* heartbeat started; a second one closes the connection.
handleInit ==
    /\ Receive /\ at' = "select" /\ IsTransport
    /\ \/ /\ connectionInitialized
          /\ Disconnect
          /\ UNCHANGED protoVars
       \/ /\ ~connectionInitialized
          /\ connectionInitialized' = TRUE
          /\ initTimer' = IF initTimer = "waiting" THEN "over" ELSE initTimer
          /\ heartbeats' = 1
          /\ UNCHANGED connVars
    /\ UNCHANGED opVars

\* initFunc rejects the payload: graphql-transport-ws closes the connection,
\* graphql-ws terminates the subscriptions and goes on.
InitRejected ==
    /\ Receive /\ "InitRejected" \in Moves
    /\ \/ IsTransport /\ ~connectionInitialized /\ at' = "select" /\ Disconnect
       \/ ~IsTransport /\ at' = "terminateAll" /\ UNCHANGED connVars
    /\ UNCHANGED <<protoVars, opVars>>

\* connection_init of graphql-ws: each starts a keep-alive goroutine.
handleInitLegacy ==
    /\ Receive /\ at' = "select" /\ ~IsTransport
    /\ heartbeats < MaxKeepAlives /\ heartbeats' = heartbeats + 1
    /\ UNCHANGED <<connVars, connectionInitialized, initTimer, opVars>>

\* connection_terminate of graphql-ws.
HandleTerminate ==
    /\ Receive /\ at' = "terminateAll" /\ ~IsTransport
    /\ UNCHANGED <<connVars, protoVars, opVars>>

\* A subscribe before connection_init closes a graphql-transport-ws connection.
Unauthorized(o) ==
    /\ Receive /\ at' = "select" /\ opAt[o] = "none"
    /\ IsTransport /\ ~connectionInitialized
    /\ opAt' = [opAt EXCEPT ![o] = "refused"]
    /\ Disconnect
    /\ UNCHANGED <<protoVars, cancellations, stopped>>

MayStart(o) ==
    /\ Receive /\ at' = "select" /\ opAt[o] = "none"
    /\ IsTransport => connectionInitialized

\* StartOperation: the payload, or the OnBeforeStart hook, fails.
StartFails(o) ==
    /\ MayStart(o) /\ "StartFails" \in Moves
    /\ opAt' = [opAt EXCEPT ![o] = "refused"]
    /\ UNCHANGED <<connVars, protoVars, cancellations, stopped>>

\* checkForDuplicateSubscriberID: graphql-transport-ws closes the connection,
\* graphql-ws answers with an error.
Duplicate(o) ==
    /\ MayStart(o) /\ cancellations[IDOf[o]] # NoOp
    /\ opAt' = [opAt EXCEPT ![o] = "refused"]
    /\ IF IsTransport THEN Disconnect ELSE UNCHANGED connVars
    /\ UNCHANGED <<protoVars, cancellations, stopped>>

\* AddWithParent and the operation's goroutine.
\* Mutant: an id that is in use is taken over.
StartAnyway(o) ==
    /\ MayStart(o)
    /\ cancellations' = [cancellations EXCEPT ![IDOf[o]] = o]
    /\ opAt' = [opAt EXCEPT ![o] = "execute"]
    /\ UNCHANGED <<connVars, protoVars, stopped>>
StartOperation(o) ==
    /\ MayStart(o) /\ cancellations[IDOf[o]] = NoOp
    /\ cancellations' = [cancellations EXCEPT ![IDOf[o]] = o]
    /\ opAt' = [opAt EXCEPT ![o] = "execute"]
    /\ UNCHANGED <<connVars, protoVars, stopped>>

\* complete or stop: StopSubscription.
StopSubscription(id) ==
    /\ Receive /\ at' = "select"
    /\ Cancel(id)
    /\ UNCHANGED <<connVars, protoVars, opAt>>

\* The connection_init timeout closes the connection. It may have run out just
\* before the timer was stopped.
InitTimerExpires ==
    /\ initTimer = "waiting" /\ initTimer' = "expired"
    /\ UNCHANGED <<protocol, handlerVars, connVars, connectionInitialized, heartbeats, opVars>>

\* Mutant: the timeout is only logged.
LogInitTimeOut ==
    /\ initTimer = "expired" /\ initTimer' = "over"
    /\ UNCHANGED <<protocol, handlerVars, connVars, connectionInitialized, heartbeats, opVars>>
InitTimeOut ==
    /\ initTimer = "expired" /\ initTimer' = "over"
    /\ Disconnect
    /\ UNCHANGED <<protocol, handlerVars, connectionInitialized, heartbeats, opVars>>

HeartbeatEnds ==
    /\ heartbeats > 0 /\ cancelled
    /\ heartbeats' = heartbeats - 1
    /\ UNCHANGED <<protocol, handlerVars, connVars, connectionInitialized, initTimer, opVars>>

-----------------------------------------------------------------------------
(* The goroutine of an operation: startSubscription, which executes again and *)
(* again, and handleNonSubscriptionOperation.                               *)

ExecuteReturns(o) ==
    /\ opAt[o] = "execute"
    /\ opAt' = [opAt EXCEPT ![o] = "emit"]
    /\ UNCHANGED <<protocol, handlerVars, connVars, protoVars, cancellations, stopped>>

\* The result or the error is written, whoever has stopped the operation.
Emit(o) ==
    /\ opAt[o] = "emit"
    /\ opAt' = [opAt EXCEPT ![o] = IF o \in Queries THEN "cancel" ELSE "wait"]
    /\ UNCHANGED <<protocol, handlerVars, connVars, protoVars, cancellations, stopped>>

\* The deferred Cancel of a query: by id, whoever has it by now.
QueryEnds(o) ==
    /\ opAt[o] = "cancel"
    /\ opAt' = [opAt EXCEPT ![o] = "ended"]
    /\ Cancel(IDOf[o])
    /\ UNCHANGED <<protocol, handlerVars, connVars, protoVars>>

IntervalOver(o) ==
    /\ opAt[o] = "wait"
    /\ opAt' = [opAt EXCEPT ![o] = "execute"]
    /\ UNCHANGED <<protocol, handlerVars, connVars, protoVars, cancellations, stopped>>

\* Mutant: the loop looks only at the handler's context.
EndsWithHandler(o) ==
    /\ opAt[o] = "wait" /\ cancelled
    /\ opAt' = [opAt EXCEPT ![o] = "ended"]
    /\ UNCHANGED <<protocol, handlerVars, connVars, protoVars, cancellations, stopped>>
SubscriptionEnds(o) ==
    /\ opAt[o] = "wait" /\ Done(o)
    /\ opAt' = [opAt EXCEPT ![o] = "ended"]
    /\ UNCHANGED <<protocol, handlerVars, connVars, protoVars, cancellations, stopped>>

\* The client goes away, in an orderly way or not.
PeerLeaves ==
    /\ socket = "ok" /\ socket' \in {"eof", "reset"}
    /\ UNCHANGED <<protocol, handlerVars, closed, protoVars, opVars>>

-----------------------------------------------------------------------------

\* The handler's steps that do not wait for the client.
HandlerStep ==
    \/ Open \/ NextRound \/ ReadClosed \/ ReadFails
    \/ TerminateNext \/ Terminated \/ CloseConnection

MessageStep ==
    \/ Ignore \/ Misuse \/ handleInit \/ InitRejected \/ handleInitLegacy \/ HandleTerminate
    \/ \E o \in Ops : Unauthorized(o) \/ StartFails(o) \/ Duplicate(o) \/ StartOperation(o)
    \/ \E id \in IDs : StopSubscription(id)

TimerStep == ReadTimerExpires \/ ReadTimeOut \/ InitTimerExpires \/ InitTimeOut

OpStep(o) == ExecuteReturns(o) \/ Emit(o) \/ QueryEnds(o) \/ IntervalOver(o) \/ SubscriptionEnds(o)

Next ==
    \/ HandlerStep \/ MessageStep \/ TimerStep \/ HeartbeatEnds \/ PeerLeaves
    \/ \E o \in Ops : OpStep(o)

Spec == Init /\ [][Next]_vars

\* Goroutines run and timers expire; writes to the client return or fail, which is
\* assumed of the peer and TCP, as client.go sets no deadline; an execution returns once its context is
\* done; a select picks at random, so it does not miss the end of the context
\* for ever when its other case is ready time and again.
Fairness ==
    /\ WF_vars(HandlerStep)
    /\ WF_vars(ReadTimerExpires) /\ WF_vars(ReadTimeOut)
    /\ WF_vars(InitTimerExpires) /\ WF_vars(InitTimeOut)
    /\ WF_vars(HeartbeatEnds)
    /\ \A o \in Ops : /\ WF_vars(Done(o) /\ ExecuteReturns(o)) /\ WF_vars(Emit(o))
                      /\ WF_vars(QueryEnds(o)) /\ SF_vars(SubscriptionEnds(o))

FairSpec == Spec /\ Fairness

-----------------------------------------------------------------------------
(* Properties. *)

Running(o) == opAt[o] \in {"execute", "emit", "wait", "cancel"}

\* An operation that runs and was not cancelled is registered under its id, so
\* that complete, stop and the end of the connection reach it, although queries
\* cancel by id when they end; hence an id has one such operation at most.
RunningIsRegistered ==
    \A o \in Ops : Running(o) /\ o \notin stopped => cancellations[IDOf[o]] = o

\* A lost or closed connection ends it all: Handle returns, the goroutines of
\* the operations and the heartbeats end. A connection whose reads fail without
\* saying that it is closed is ended by the read error timer.
LostConnectionEndsAll ==
    socket # "ok" ~> /\ at = "returned" /\ heartbeats = 0
                     /\ \A o \in Ops : ~Running(o)

\* A graphql-transport-ws client that does not send connection_init in time, or
\* is rejected, loses its connection, whatever else it sends.
UninitializedIsClosed ==
    (IsTransport /\ ~connectionInitialized) ~> (connectionInitialized \/ at = "returned")

\* What was stopped, by complete or stop, by terminating or by a query that had
\* the same id, ends, although the connection lives on and the client may start
\* another operation with that id at once.
StoppedOperationEnds ==
    \A o \in Ops : o \in stopped ~> ~Running(o)
=============================================================================
