----------------------------- MODULE WSTransport -----------------------------
(***************************************************************************)
(* The WebSocket transport of the subscription client and the bridge that   *)
(* calls it: WSTransport (pool of connections by key, dials in flight, ping *)
(* loop), wsConnection (subscriptions, read loop, idle timer, shutdown) and *)
(* subscriptionClientV2.Subscribe (context.AfterFunc unsubscribes).         *)
(*                                                                         *)
(* One step is one section under a mutex or one call that may block; a      *)
(* goroutine that runs wsConnection.shutdown does nothing else until it is  *)
(* over. Message contents are reduced to whether they are the last for     *)
(* their subscription. Subscription ids are fresh (xid) and are not         *)
(* modelled apart from the subscription they name.                          *)
(***************************************************************************)
EXTENDS Integers, FiniteSets

CONSTANTS Subs,          \* calls of subscriptionClientV2.Subscribe
          Conns,         \* wsConnection structs that may be created
          Keys, KeyOf,   \* connKey of a call's options
          NoSub, NoConn,
          Moves          \* what the network, the peer and the clients do

ASSUME ConstantsAssumption ==
    /\ IsFiniteSet(Subs)
    /\ KeyOf \in [Subs -> Keys]
    /\ NoSub \notin Subs /\ NoConn \notin Conns

VARIABLES
    idleTimeout,  \* WSTransportOptions.IdleTimeout > 0
    at,           \* program counter of a call, then of its AfterFunc
    conn,         \* the connection getOrDial returned to it
    dialer,       \* the call on whose dialResult it waits
    ctxDone,      \* calls whose context is cancelled
    dialing,      \* WSTransport.dialing: the call that dials
    pool,         \* WSTransport.conns
    stage,        \* how far shutdown has come; "open" until closed is set
    key,          \* the key onEmpty removes
    subs,         \* wsConnection.subs
    owed,         \* handlers shutdown took out of subs and has yet to call
    reader,       \* program counter of readLoop
    msg,          \* the message readLoop holds: its subscription, is it terminal
    timers,       \* idle timers under way
    firing,       \* idle timers that found no subscription and will close
    broken,       \* connections whose reads fail
    silent,       \* connections whose peer does not answer within PingTimeout
    pingQ,        \* connections the ping loop has still to visit
    pinging,      \* the connection the ping loop shuts down
    unanswered,   \* lastPongAt < lastPingSentAt, for longer than PingTimeout
    told          \* terminal messages a handler was called with

callVars == <<at, conn, dialer>>
poolVars == <<dialing, pool>>
connVars == <<stage, key, subs, owed>>
readVars == <<reader, msg>>
timerVars == <<timers, firing>>
pingVars == <<pingQ, pinging, unanswered>>
netVars == <<ctxDone, broken, silent>>
vars == <<idleTimeout, callVars, poolVars, connVars, readVars, timerVars,
          pingVars, netVars, told>>

CallStates == {"idle", "wait", "dial", "publish", "subscribe", "write", "undo",
               "live", "leave", "leaving", "closing", "shutting", "ended"}
Stages == {"none", "open", "close", "swap", "notify", "done"}
ReaderStates == {"none", "read", "handle", "drop", "close", "shutting", "exit"}

NoMsg == [sub |-> NoSub, last |-> FALSE]

\* Types of the variables.
TypeOK ==
    /\ idleTimeout \in BOOLEAN
    /\ at \in [Subs -> CallStates]
    /\ conn \in [Subs -> Conns \cup {NoConn}]
    /\ dialer \in [Subs -> Subs \cup {NoSub}]
    /\ ctxDone \in SUBSET Subs
    /\ dialing \in [Keys -> Subs \cup {NoSub}]
    /\ pool \in [Keys -> Conns \cup {NoConn}]
    /\ stage \in [Conns -> Stages]
    /\ key \in [Conns -> Keys]
    /\ subs \in [Conns -> SUBSET Subs]
    /\ owed \in [Conns -> SUBSET Subs]
    /\ reader \in [Conns -> ReaderStates]
    /\ msg \in [Conns -> [sub : Subs \cup {NoSub}, last : BOOLEAN]]
    /\ timers \in [Conns -> Nat] /\ firing \in [Conns -> Nat]
    /\ broken \in SUBSET Conns /\ silent \in SUBSET Conns
    /\ pingQ \in SUBSET Conns /\ pinging \in Conns \cup {NoConn}
    /\ unanswered \in SUBSET Conns
    /\ told \in [Subs -> Nat]

Init ==
    /\ idleTimeout \in BOOLEAN
    /\ at = [s \in Subs |-> "idle"]
    /\ conn = [s \in Subs |-> NoConn]
    /\ dialer = [s \in Subs |-> NoSub]
    /\ ctxDone = {}
    /\ dialing = [k \in Keys |-> NoSub]
    /\ pool = [k \in Keys |-> NoConn]
    /\ stage = [c \in Conns |-> "none"]
    /\ key \in [Conns -> Keys]       \* set by the dial; any value before
    /\ subs = [c \in Conns |-> {}]
    /\ owed = [c \in Conns |-> {}]
    /\ reader = [c \in Conns |-> "none"]
    /\ msg = [c \in Conns |-> NoMsg]
    /\ timers = [c \in Conns |-> 0] /\ firing = [c \in Conns |-> 0]
    /\ broken = {} /\ silent = {}
    /\ pingQ = {} /\ pinging = NoConn
    /\ unanswered = {}
    /\ told = [s \in Subs |-> 0]

-----------------------------------------------------------------------------
(* Shared pieces of wsConnection. *)

IsClosed(c) == stage[c] # "open"

\* The connection has been closed by conn.Close: reads and writes fail.
Severed(c) == c \in broken \/ stage[c] \in {"swap", "notify", "done"}

\* closed.CompareAndSwap: the caller that wins runs the shutdown.
Shutdown(c) ==
    stage' = IF stage[c] = "open" THEN [stage EXCEPT ![c] = "close"] ELSE stage

\* delete(c.subs, id) and the emptiness found under the same lock.
Without(c, s) == subs[c] \ {s}

\* removeSub: the last one out starts the idle timer, or is to close at once.
RemoveSub(c, s) ==
    /\ subs' = [subs EXCEPT ![c] = Without(c, s)]
    /\ timers' = IF Without(c, s) = {} /\ idleTimeout
                   THEN [timers EXCEPT ![c] = @ + 1] ELSE timers

ClosesAtOnce(c, s) == Without(c, s) = {} /\ ~idleTimeout

-----------------------------------------------------------------------------
(* WSTransport.getOrDial. *)

Usable(k) == pool[k] # NoConn /\ ~IsClosed(pool[k])

UsePooled(s) ==
    /\ at[s] = "idle" /\ Usable(KeyOf[s])
    /\ at' = [at EXCEPT ![s] = "subscribe"]
    /\ conn' = [conn EXCEPT ![s] = pool[KeyOf[s]]]
    /\ UNCHANGED <<idleTimeout, dialer, poolVars, connVars, readVars, timerVars,
                   pingVars, netVars, told>>

JoinDial(s) ==
    /\ at[s] = "idle" /\ ~Usable(KeyOf[s]) /\ dialing[KeyOf[s]] # NoSub
    /\ at' = [at EXCEPT ![s] = "wait"]
    /\ dialer' = [dialer EXCEPT ![s] = dialing[KeyOf[s]]]
    /\ UNCHANGED <<idleTimeout, conn, poolVars, connVars, readVars, timerVars,
                   pingVars, netVars, told>>

StartDial(s) ==
    /\ at[s] = "idle" /\ ~Usable(KeyOf[s]) /\ dialing[KeyOf[s]] = NoSub
    /\ at' = [at EXCEPT ![s] = "dial"]
    /\ dialing' = [dialing EXCEPT ![KeyOf[s]] = s]
    /\ UNCHANGED <<idleTimeout, conn, dialer, pool, connVars, readVars, timerVars,
                   pingVars, netVars, told>>

\* Dial, subprotocol and connection_init succeed; the read loop starts before
\* the result is published.
DialSucceeds(s) ==
  LET c == CHOOSE c \in Conns : stage[c] = "none" IN
    /\ at[s] = "dial" /\ \E d \in Conns : stage[d] = "none"
    /\ at' = [at EXCEPT ![s] = "publish"]
    /\ conn' = [conn EXCEPT ![s] = c]
    /\ stage' = [stage EXCEPT ![c] = "open"]
    /\ key' = [key EXCEPT ![c] = KeyOf[s]]
    /\ reader' = [reader EXCEPT ![c] = "read"]
    /\ UNCHANGED <<idleTimeout, dialer, poolVars, subs, owed, msg, timerVars,
                   pingVars, netVars, told>>

\* No connection, a refused upgrade, a wrong subprotocol, a failed or late
\* connection_ack, or the dialling call's own context: one error for all.
\* (Conns bounds the connections: a dial beyond the bound fails.)
DialFails(s) ==
    /\ at[s] = "dial"
    /\ "DialFails" \in Moves \/ s \in ctxDone \/ \A c \in Conns : stage[c] # "none"
    /\ at' = [at EXCEPT ![s] = "publish"]
    /\ UNCHANGED <<idleTimeout, conn, dialer, poolVars, connVars, readVars,
                   timerVars, pingVars, netVars, told>>

\* The section after close(result.done).
Publish(s) ==
    /\ at[s] = "publish"
    /\ dialing' = [dialing EXCEPT ![KeyOf[s]] = NoSub]
    /\ pool' = IF conn[s] # NoConn THEN [pool EXCEPT ![KeyOf[s]] = conn[s]] ELSE pool
    /\ at' = [at EXCEPT ![s] = IF conn[s] # NoConn THEN "subscribe" ELSE "ended"]
    /\ UNCHANGED <<idleTimeout, conn, dialer, connVars, readVars, timerVars,
                   pingVars, netVars, told>>

\* result.done is closed as soon as the dial is over.
\* Mutant: only a successful dial wakes the waiters.
WaitOverOnSuccess(s) ==
    /\ at[s] = "wait" /\ at[dialer[s]] # "dial" /\ conn[dialer[s]] # NoConn
    /\ conn' = [conn EXCEPT ![s] = conn[dialer[s]]]
    /\ at' = [at EXCEPT ![s] = "subscribe"]
    /\ UNCHANGED <<idleTimeout, dialer, poolVars, connVars, readVars, timerVars,
                   pingVars, netVars, told>>
WaitOver(s) ==
    /\ at[s] = "wait" /\ at[dialer[s]] # "dial"
    /\ conn' = [conn EXCEPT ![s] = conn[dialer[s]]]
    /\ at' = [at EXCEPT ![s] = IF conn[dialer[s]] # NoConn THEN "subscribe" ELSE "ended"]
    /\ UNCHANGED <<idleTimeout, dialer, poolVars, connVars, readVars, timerVars,
                   pingVars, netVars, told>>

WaitCancelled(s) ==
    /\ at[s] = "wait" /\ s \in ctxDone
    /\ at' = [at EXCEPT ![s] = "ended"]
    /\ UNCHANGED <<idleTimeout, conn, dialer, poolVars, connVars, readVars, timerVars,
                   pingVars, netVars, told>>

-----------------------------------------------------------------------------
(* wsConnection.subscribe and the bridge's AfterFunc. *)

\* The section under subsMu: refused on a closed connection, else registered.
\* Mutant: registers on a closed connection.
RegisterAlways(s) ==
    /\ at[s] = "subscribe"
    /\ at' = [at EXCEPT ![s] = "write"]
    /\ subs' = [subs EXCEPT ![conn[s]] = @ \cup {s}]
    /\ UNCHANGED <<idleTimeout, conn, dialer, poolVars, stage, key, owed, readVars,
                   timerVars, pingVars, netVars, told>>
Register(s) ==
    /\ at[s] = "subscribe"
    /\ at' = [at EXCEPT ![s] = IF IsClosed(conn[s]) THEN "ended" ELSE "write"]
    /\ subs' = IF IsClosed(conn[s]) THEN subs
                 ELSE [subs EXCEPT ![conn[s]] = @ \cup {s}]
    /\ UNCHANGED <<idleTimeout, conn, dialer, poolVars, stage, key, owed, readVars,
                   timerVars, pingVars, netVars, told>>

\* protocol.Subscribe succeeds; the bridge registers its AfterFunc.
SubscribeSent(s) ==
    /\ at[s] = "write" /\ ~Severed(conn[s])
    /\ at' = [at EXCEPT ![s] = "live"]
    /\ UNCHANGED <<idleTimeout, conn, dialer, poolVars, connVars, readVars, timerVars,
                   pingVars, netVars, told>>

\* The write fails, or its context ends, on which the library may close the
\* connection.
SubscribeFails(s) ==
    /\ at[s] = "write"
    /\ "WriteFails" \in Moves \/ Severed(conn[s]) \/ s \in ctxDone
    /\ at' = [at EXCEPT ![s] = "undo"]
    /\ broken' \in {broken, broken \cup {conn[s]}}
    /\ UNCHANGED <<idleTimeout, conn, dialer, poolVars, connVars, readVars, timerVars,
                   pingVars, ctxDone, silent, told>>

\* removeSub after the failed write, or after the unsubscribe message.
\* Mutant: the failed write only deletes the handler.
DropLeaksOnFailure(s) ==
    /\ at[s] \in {"undo", "leaving"}
    /\ subs' = [subs EXCEPT ![conn[s]] = Without(conn[s], s)]
    /\ IF at[s] = "leaving" THEN RemoveSub(conn[s], s) ELSE UNCHANGED timers
    /\ at' = [at EXCEPT ![s] = IF at[s] = "leaving" /\ ClosesAtOnce(conn[s], s)
                                 THEN "closing" ELSE "ended"]
    /\ UNCHANGED <<idleTimeout, conn, dialer, poolVars, stage, key, owed, readVars,
                   firing, pingVars, netVars, told>>
Drop(s) ==
    /\ at[s] \in {"undo", "leaving"}
    /\ RemoveSub(conn[s], s)
    /\ at' = [at EXCEPT ![s] = IF ClosesAtOnce(conn[s], s) THEN "closing" ELSE "ended"]
    /\ UNCHANGED <<idleTimeout, conn, dialer, poolVars, stage, key, owed, readVars,
                   firing, pingVars, netVars, told>>

\* closeConn of a call: it runs the shutdown unless somebody else does.
CallCloses(s) ==
    /\ at[s] = "closing"
    /\ Shutdown(conn[s])
    /\ at' = [at EXCEPT ![s] = IF IsClosed(conn[s]) THEN "ended" ELSE "shutting"]
    /\ UNCHANGED <<idleTimeout, conn, dialer, poolVars, key, subs, owed, readVars,
                   timerVars, pingVars, netVars, told>>

CallHasClosed(s) ==
    /\ at[s] = "shutting" /\ stage[conn[s]] = "done"
    /\ at' = [at EXCEPT ![s] = "ended"]
    /\ UNCHANGED <<idleTimeout, conn, dialer, poolVars, connVars, readVars, timerVars,
                   pingVars, netVars, told>>

\* context.AfterFunc runs cancel, that is unsubscribe, then updater.Done.
AfterFunc(s) ==
    /\ at[s] = "live" /\ s \in ctxDone
    /\ at' = [at EXCEPT ![s] = "leave"]
    /\ UNCHANGED <<idleTimeout, conn, dialer, poolVars, connVars, readVars, timerVars,
                   pingVars, netVars, told>>

\* unsubscribe: nothing to do when the subscription is gone, else the message
\* is written (its error is ignored) and removeSub follows.
Unsubscribe(s) ==
    /\ at[s] = "leave"
    /\ at' = [at EXCEPT ![s] = IF s \in subs[conn[s]] THEN "leaving" ELSE "ended"]
    /\ UNCHANGED <<idleTimeout, conn, dialer, poolVars, connVars, readVars, timerVars,
                   pingVars, netVars, told>>

-----------------------------------------------------------------------------
(* wsConnection.readLoop and dispatch. *)

\* Where the loop goes next: it looks at closed before it reads again.
NextRead(c) == IF IsClosed(c) THEN "exit" ELSE "read"

\* A data, error or complete message; one for an unknown id is ignored.
Receive(c, s, last) ==
    /\ reader[c] = "read" /\ ~Severed(c) /\ c \notin silent /\ s \in subs[c]
    /\ IF last THEN "Terminal" \in Moves ELSE "Data" \in Moves
    /\ reader' = [reader EXCEPT ![c] = "handle"]
    /\ msg' = [msg EXCEPT ![c] = [sub |-> s, last |-> last]]
    /\ UNCHANGED <<idleTimeout, callVars, poolVars, connVars, timerVars, pingVars,
                   netVars, told>>

\* The handler that was looked up is called outside the lock.
Handle(c) ==
    /\ reader[c] = "handle"
    /\ told' = IF msg[c].last THEN [told EXCEPT ![msg[c].sub] = @ + 1] ELSE told
    /\ reader' = [reader EXCEPT ![c] = IF msg[c].last THEN "drop" ELSE NextRead(c)]
    /\ msg' = IF msg[c].last THEN msg ELSE [msg EXCEPT ![c] = NoMsg]
    /\ UNCHANGED <<idleTimeout, callVars, poolVars, connVars, timerVars, pingVars,
                   netVars>>

\* removeSub of a subscription the peer has ended.
ReaderDrops(c) ==
    /\ reader[c] = "drop"
    /\ RemoveSub(c, msg[c].sub)
    /\ reader' = [reader EXCEPT ![c] = IF ClosesAtOnce(c, msg[c].sub) THEN "close"
                                       ELSE NextRead(c)]
    /\ msg' = [msg EXCEPT ![c] = NoMsg]
    /\ UNCHANGED <<idleTimeout, callVars, poolVars, stage, key, owed, firing, pingVars,
                   netVars, told>>

ReaderCloses(c) ==
    /\ reader[c] = "close"
    /\ Shutdown(c)
    /\ reader' = [reader EXCEPT ![c] = "exit"]
    /\ UNCHANGED <<idleTimeout, callVars, poolVars, key, subs, owed, msg, timerVars,
                   pingVars, netVars, told>>

\* protocol.Read fails: shutdown, then the deferred shutdown, which is void.
\* Mutant: the loop just ends.
ReadFailsQuietly(c) ==
    /\ reader[c] = "read" /\ Severed(c)
    /\ reader' = [reader EXCEPT ![c] = "exit"]
    /\ UNCHANGED <<idleTimeout, callVars, poolVars, connVars, msg, timerVars, pingVars,
                   netVars, told>>
ReadFails(c) ==
    /\ reader[c] = "read" /\ Severed(c)
    /\ Shutdown(c)
    /\ reader' = [reader EXCEPT ![c] = "exit"]
    /\ UNCHANGED <<idleTimeout, callVars, poolVars, key, subs, owed, msg, timerVars,
                   pingVars, netVars, told>>

-----------------------------------------------------------------------------
(* wsConnection.shutdown, run by whoever set closed. *)

\* conn.Close: the close handshake, which may take seconds.
CloseSocket(c) ==
    /\ stage[c] = "close"
    /\ stage' = [stage EXCEPT ![c] = "swap"]
    /\ UNCHANGED <<idleTimeout, callVars, poolVars, key, subs, owed, readVars, timerVars,
                   pingVars, netVars, told>>

SwapSubs(c) ==
    /\ stage[c] = "swap"
    /\ stage' = [stage EXCEPT ![c] = "notify"]
    /\ owed' = [owed EXCEPT ![c] = subs[c]]
    /\ subs' = [subs EXCEPT ![c] = {}]
    /\ UNCHANGED <<idleTimeout, callVars, poolVars, key, readVars, timerVars, pingVars,
                   netVars, told>>

\* handler(errMsg), in the map's order, that is in any.
Notify(c, s) ==
    /\ stage[c] = "notify" /\ s \in owed[c]
    /\ owed' = [owed EXCEPT ![c] = @ \ {s}]
    /\ told' = [told EXCEPT ![s] = @ + 1]
    /\ UNCHANGED <<idleTimeout, callVars, poolVars, stage, key, subs, readVars, timerVars,
                   pingVars, netVars>>

\* c.cancel, then onEmpty, that is removeConn: by key, whoever is there.
\* Mutant: the handlers are not waited for.
RemoveConnEarly(c) ==
    /\ stage[c] = "notify"
    /\ stage' = [stage EXCEPT ![c] = "done"]
    /\ pool' = [pool EXCEPT ![key[c]] = NoConn]
    /\ owed' = [owed EXCEPT ![c] = {}]
    /\ UNCHANGED <<idleTimeout, callVars, dialing, key, subs, readVars, timerVars,
                   pingVars, netVars, told>>
RemoveConn(c) ==
    /\ stage[c] = "notify" /\ owed[c] = {}
    /\ stage' = [stage EXCEPT ![c] = "done"]
    /\ pool' = [pool EXCEPT ![key[c]] = NoConn]
    /\ UNCHANGED <<idleTimeout, callVars, dialing, key, subs, owed, readVars, timerVars,
                   pingVars, netVars, told>>

-----------------------------------------------------------------------------
(* The idle timer of removeSub and the ping loop. *)

TimerFires(c) ==
    /\ timers[c] > 0
    /\ timers' = [timers EXCEPT ![c] = @ - 1]
    /\ firing' = IF subs[c] = {} THEN [firing EXCEPT ![c] = @ + 1] ELSE firing
    /\ UNCHANGED <<idleTimeout, callVars, poolVars, connVars, readVars, pingVars, netVars,
                   told>>

TimerCloses(c) ==
    /\ firing[c] > 0
    /\ firing' = [firing EXCEPT ![c] = @ - 1]
    /\ Shutdown(c)
    /\ UNCHANGED <<idleTimeout, callVars, poolVars, key, subs, owed, readVars, timers,
                   pingVars, netVars, told>>

\* A tick: the pool is copied under t.mu.
PingTick ==
    /\ "Ping" \in Moves /\ pingQ = {} /\ pinging = NoConn
    /\ pingQ' = {pool[k] : k \in Keys} \ {NoConn}
    /\ pingQ' # {}
    /\ UNCHANGED <<idleTimeout, callVars, poolVars, connVars, readVars, timerVars, pinging,
                   unanswered, netVars, told>>

\* One connection of the copy: skipped when closed, shut down when the pong to
\* an earlier ping is overdue, pinged otherwise.
PingConn(c) ==
    /\ c \in pingQ /\ pinging = NoConn
    /\ pingQ' = pingQ \ {c}
    /\ \/ /\ IsClosed(c)
          /\ UNCHANGED <<stage, pinging, unanswered>>
       \/ /\ ~IsClosed(c) /\ c \in unanswered
          /\ Shutdown(c) /\ pinging' = c
          /\ UNCHANGED unanswered
       \/ /\ ~IsClosed(c) /\ c \notin unanswered
          /\ unanswered' = IF c \in silent THEN unanswered \cup {c} ELSE unanswered
          /\ UNCHANGED <<stage, pinging>>
    /\ UNCHANGED <<idleTimeout, callVars, poolVars, key, subs, owed, readVars, timerVars,
                   netVars, told>>

PingHasClosed ==
    /\ pinging # NoConn /\ stage[pinging] = "done"
    /\ pinging' = NoConn
    /\ UNCHANGED <<idleTimeout, callVars, poolVars, connVars, readVars, timerVars, pingQ,
                   unanswered, netVars, told>>

-----------------------------------------------------------------------------
(* The clients and the network. *)

CancelClient(s) ==
    /\ "CancelClient" \in Moves /\ s \notin ctxDone /\ at[s] # "ended"
    /\ ctxDone' = ctxDone \cup {s}
    /\ UNCHANGED <<idleTimeout, callVars, poolVars, connVars, readVars, timerVars, pingVars,
                   broken, silent, told>>

Break(c) ==
    /\ "Break" \in Moves /\ stage[c] # "none" /\ ~Severed(c)
    /\ broken' = broken \cup {c}
    /\ UNCHANGED <<idleTimeout, callVars, poolVars, connVars, readVars, timerVars, pingVars,
                   ctxDone, silent, told>>

GoSilent(c) ==
    /\ "GoSilent" \in Moves /\ stage[c] = "open" /\ c \notin silent
    /\ silent' = silent \cup {c}
    /\ UNCHANGED <<idleTimeout, callVars, poolVars, connVars, readVars, timerVars, pingVars,
                   ctxDone, broken, told>>

-----------------------------------------------------------------------------

\* The steps of a call and of its AfterFunc.
CallStep(s) ==
    \/ JoinDial(s) \/ StartDial(s) \/ UsePooled(s) \/ DialSucceeds(s)
    \/ DialFails(s) \/ Publish(s)
    \/ WaitOver(s) \/ WaitCancelled(s) \/ Register(s)
    \/ SubscribeSent(s) \/ SubscribeFails(s) \/ Drop(s) \/ CallCloses(s)
    \/ CallHasClosed(s) \/ AfterFunc(s) \/ Unsubscribe(s)

\* The steps of the read loop that do not wait for the peer.
ReaderStep(c) == Handle(c) \/ ReaderDrops(c) \/ ReaderCloses(c) \/ ReadFails(c)

ShutdownStep(c) ==
    \/ CloseSocket(c) \/ SwapSubs(c) \/ RemoveConn(c)
    \/ \E s \in Subs : Notify(c, s)

PingStep == PingTick \/ PingHasClosed \/ \E c \in Conns : PingConn(c)

Next ==
    \/ \E s \in Subs : CallStep(s) \/ CancelClient(s)
    \/ \E c \in Conns :
         \/ ReaderStep(c) \/ ShutdownStep(c) \/ TimerFires(c) \/ TimerCloses(c)
         \/ Break(c) \/ GoSilent(c)
         \/ \E s \in Subs, last \in BOOLEAN : Receive(c, s, last)
    \/ PingStep

Spec == Init /\ [][Next]_vars

\* Goroutines that can run do run; dials and writes have deadlines, timers
\* fire and the ping loop ticks. Nothing is assumed of clients and peers.
Fairness ==
    /\ \A s \in Subs : WF_vars(at[s] # "idle" /\ CallStep(s))
    /\ \A c \in Conns : /\ WF_vars(ReaderStep(c)) /\ WF_vars(ShutdownStep(c))
                        /\ WF_vars(TimerFires(c)) /\ WF_vars(TimerCloses(c))
    /\ WF_vars(PingTick \/ PingHasClosed)
    /\ \A c \in Conns : WF_vars(PingConn(c))

FairSpec == Spec /\ Fairness

-----------------------------------------------------------------------------
(* Properties. *)

\* A subscription whose Subscribe call succeeded, or is still writing, and
\* whose handler was never told that it is over, is registered with its
\* connection or is about to be told by the shutdown: no interleaving of
\* subscribe, dispatch, the idle timer, the ping loop and shutdown loses it.
NobodyForgotten ==
    \A s \in Subs : at[s] \in {"write", "live"} /\ told[s] = 0 =>
        s \in subs[conn[s]] \cup owed[conn[s]]

\* Once shutdown has taken the handlers nobody registers any more: the check of
\* closed under subsMu comes before the swap or not at all.
NothingOnClosedConnection ==
    \A c \in Conns : stage[c] \in {"none", "notify", "done"} => subs[c] = {}

\* When a connection is lost each of its subscribers is told, unless it leaves.
LostConnectionTellsAll ==
    \A s \in Subs : (at[s] = "live" /\ Severed(conn[s])) ~> (told[s] > 0 \/ at[s] = "ended")

\* Subscribe returns to dialler, waiter and user of a pooled connection alike,
\* and a client that leaves is unsubscribed in the end.
CallSettles ==
    \A s \in Subs : at[s] \notin {"idle", "ended"} ~>
        (at[s] = "ended" \/ (at[s] = "live" /\ s \notin ctxDone))

\* A connection without subscriptions is closed or used again: the last one
\* out closes it or starts a timer, whichever of them ends first.
EmptyConnectionCloses ==
    \A c \in Conns : (stage[c] = "open" /\ subs[c] = {}) ~>
                     (stage[c] = "done" \/ subs[c] # {})
=============================================================================
