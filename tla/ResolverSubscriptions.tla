------------------------ MODULE ResolverSubscriptions ------------------------
(***************************************************************************)
(* The subscription half of the Resolver (v2/pkg/engine/resolve/resolve.go):*)
(* the trigger registry guarded by Resolver.mu, the subscriptionUpdater a  *)
(* data source calls back, the writes to the clients under writeMu, and    *)
(* the removal of subscriptions by clients, by the updater, by failed      *)
(* writes and by the shutdown of the resolver.                             *)
(*                                                                         *)
(* A section of code that runs under Resolver.mu is one step.  What runs   *)
(* after the unlock (closing the completed channels, cancelling the        *)
(* trigger's context, writing to clients) is done in steps of its own, and *)
(* so interleaves with every other goroutine.                              *)
(***************************************************************************)
EXTENDS Integers, FiniteSets

CONSTANTS
    Subs,        \* calls of (Async)ResolveGraphQLSubscription; each brings an id of its own
    SyncSubs,    \* those made through ResolveGraphQLSubscription, which block the caller
    Conns,       \* ConnectionIDs
    ConnOf,      \* the ConnectionID in each subscription's SubscriptionIdentifier
    TriggerIDs,  \* values of prepareTrigger's hash
    Trigs,       \* trigger structs that may be allocated: the bound on incarnations
    Moves,       \* what clients, servers and data sources do in this instance
    NoTrig, NoID

ASSUME ConstantsAssumption ==
    /\ IsFiniteSet(Subs) /\ IsFiniteSet(Trigs)
    /\ SyncSubs \subseteq Subs
    /\ ConnOf \in [Subs -> Conns]
    /\ NoTrig \notin Trigs
    /\ NoID \notin TriggerIDs

UpdaterOps == {"Update", "UpdateSubscription", "Heartbeat", "Complete", "Error", "Done",
               "CloseSubscription"}

VARIABLES
    rctxDone,     \* Resolver.ctx is cancelled
    shutdown,     \* Resolver.shutdown
    triggers,     \* Resolver.triggers: id -> trigger registered under it
    byID,         \* keys of Resolver.subscriptionsByID
    byConn,       \* Resolver.subscriptionsByConnection
    subCount, trigCount,    \* what the Reporter's Inc/Dec calls add up to
    tid,          \* trigger.id
    tsubs,        \* trigger.subscriptions
    initialized,  \* triggers with initialized set
    cancelled,    \* triggers whose context has been cancelled
    updDone,      \* triggers whose updater has done set
    joined,       \* the trigger a subscription was registered under
    removed,      \* subscriptions with removed set
    closes,       \* how often close(s.completed) has run
    ctxDone,      \* subscriptions whose client context is cancelled
    caller,       \* where (Async)ResolveGraphQLSubscription is
    hook,         \* where the startup hook goroutine of a joining subscription is
    start,        \* where the start goroutine of a trigger is
    marking,      \* the trigger markTriggerInitialized found
    upd,          \* the updater call in progress (subscriptionUpdater.mu is held)
    hbIDs,        \* trigger ids sendTriggerHeartbeats still has to visit
    jobs,         \* writes a goroutine still has to do
    tails         \* what removers have left to do after Resolver.mu is released

registryVars == <<shutdown, triggers, byID, byConn, subCount, trigCount, tsubs, removed, tails>>
triggerVars  == <<tid, initialized, cancelled, updDone, marking>>
clientVars   == <<rctxDone, joined, closes, ctxDone, caller>>
threadVars   == <<hook, start, upd, hbIDs, jobs>>
vars == <<registryVars, triggerVars, clientVars, threadVars>>

-----------------------------------------------------------------------------
(* Goroutines that write to clients, and the owners of a removal's tail.   *)

Upd(t)    == <<"updater", t>>
Start(t)  == <<"start", t>>
Hook(s)   == <<"hook", s>>
Caller(s) == <<"caller", s>>
HB        == <<"heartbeatLoop", 0>>
Client    == <<"client", 0>>
AfterFunc == <<"shutdown", 0>>

Threads == {Upd(t) : t \in Trigs} \cup {Start(t) : t \in Trigs}
             \cup {Hook(s) : s \in Subs} \cup {HB}
Owners  == Threads \cup {Caller(s) : s \in Subs} \cup {Client, AfterFunc}

\* Writes that look at removed again under writeMu, and those that do not.
Rechecked == {"data", "writeError", "heartbeat"}
Terminal  == {"complete", "error"}

Job  == [sub : Subs, kind : Rechecked \cup Terminal,
         st : {"todo", "checked", "writing", "unsubscribe"}]
Tail == [owner : Owners, close : SUBSET Subs, cancel : SUBSET Trigs]

JobsOn(S, k) == {[sub |-> s, kind |-> k, st |-> "todo"] : s \in S}

\* s.writeMu is held by a write to the client.
Locked(s) == \E th \in Threads : \E j \in jobs[th] : j.sub = s /\ j.st = "writing"

\* Everything the goroutine's current call started has finished.
Idle(th) == jobs[th] = {} /\ \A tl \in tails : tl.owner # th

Registered == {triggers[i] : i \in TriggerIDs} \ {NoTrig}

TypeOK ==
    /\ rctxDone \in BOOLEAN /\ shutdown \in BOOLEAN
    /\ triggers \in [TriggerIDs -> Trigs \cup {NoTrig}]
    /\ byID \subseteq Subs
    /\ byConn \in [Conns -> SUBSET Subs]
    /\ subCount \in Int /\ trigCount \in Int
    /\ tid \in [Trigs -> TriggerIDs \cup {NoID}]
    /\ tsubs \in [Trigs -> SUBSET Subs]
    /\ initialized \subseteq Trigs /\ cancelled \subseteq Trigs /\ updDone \subseteq Trigs
    /\ joined \in [Subs -> Trigs \cup {NoTrig}]
    /\ removed \subseteq Subs
    /\ closes \in [Subs -> Nat]
    /\ ctxDone \subseteq Subs
    /\ caller \in [Subs -> {"idle", "select", "unsubscribe", "wait", "final", "returned"}]
    /\ hook \in [Subs -> {"none", "run", "failed", "done"}]
    /\ start \in [Trigs -> {"none", "hook", "source", "failed", "mark", "store", "report", "done"}]
    /\ marking \in [Trigs -> Trigs \cup {NoTrig}]
    /\ upd \in [Trigs -> UpdaterOps \cup {"idle", "running"}]
    /\ hbIDs \subseteq TriggerIDs
    /\ jobs \in [Threads -> SUBSET Job]
    /\ tails \subseteq Tail

Init ==
    /\ rctxDone = FALSE /\ shutdown = FALSE
    /\ triggers = [i \in TriggerIDs |-> NoTrig]
    /\ byID = {}
    /\ byConn = [c \in Conns |-> {}]
    /\ subCount = 0 /\ trigCount = 0
    /\ tid = [t \in Trigs |-> NoID]
    /\ tsubs = [t \in Trigs |-> {}]
    /\ initialized = {} /\ cancelled = {} /\ updDone = {}
    /\ joined = [s \in Subs |-> NoTrig]
    /\ removed = {}
    /\ closes = [s \in Subs |-> 0]
    /\ ctxDone = {}
    /\ caller = [s \in Subs |-> "idle"]
    /\ hook = [s \in Subs |-> "none"]
    /\ start = [t \in Trigs |-> "none"]
    /\ marking = [t \in Trigs |-> NoTrig]
    /\ upd = [t \in Trigs |-> "idle"]
    /\ hbIDs = {}
    /\ jobs = [th \in Threads |-> {}]
    /\ tails = {}

-----------------------------------------------------------------------------
(* Adding a subscription.                                                  *)

\* Mutant: the index by connection is forgotten.
RegisterWithoutConn(t, s) ==
    /\ tsubs' = [tsubs EXCEPT ![t] = @ \cup {s}]
    /\ byID' = byID \cup {s}
    /\ UNCHANGED byConn
    /\ joined' = [joined EXCEPT ![s] = t]
    /\ subCount' = subCount + 1
    /\ caller' = [caller EXCEPT ![s] = IF s \in SyncSubs THEN "select" ELSE "returned"]
registerSubscriptionLocked(t, s) ==
    /\ tsubs' = [tsubs EXCEPT ![t] = @ \cup {s}]
    /\ byID' = byID \cup {s}
    /\ byConn' = [byConn EXCEPT ![ConnOf[s]] = @ \cup {s}]
    /\ joined' = [joined EXCEPT ![s] = t]
    /\ subCount' = subCount + 1
    /\ caller' = [caller EXCEPT ![s] = IF s \in SyncSubs THEN "select" ELSE "returned"]

\* The call returns without registering anything: no source, invalid input, not authorized,
\* a hook's or prepareTrigger's error, only the plan is asked for; or the resolver is shut down.
RejectSubscription(s) ==
    /\ caller[s] = "idle"
    /\ shutdown \/ "Refused" \in Moves
    /\ caller' = [caller EXCEPT ![s] = "returned"]
    /\ UNCHANGED <<registryVars, triggerVars, threadVars, rctxDone, joined, closes, ctxDone>>

\* A trigger with this id exists: register under it, run the hooks in a goroutine.
JoinTrigger(s, id) ==
    /\ caller[s] = "idle"
    /\ ~shutdown
    /\ triggers[id] # NoTrig
    /\ registerSubscriptionLocked(triggers[id], s)
    /\ hook' = [hook EXCEPT ![s] = "run"]
    /\ UNCHANGED <<shutdown, triggers, trigCount, removed, tails, triggerVars,
                   rctxDone, closes, ctxDone, start, upd, hbIDs, jobs>>

\* Mutant: shutdown is not looked at.
CreateAfterShutdown(s, id, t) ==
    /\ caller[s] = "idle"
    /\ triggers[id] = NoTrig
    /\ tid[t] = NoID
    /\ tid' = [tid EXCEPT ![t] = id]
    /\ triggers' = [triggers EXCEPT ![id] = t]
    /\ registerSubscriptionLocked(t, s)
    /\ start' = [start EXCEPT ![t] = "hook"]
    /\ UNCHANGED <<shutdown, trigCount, removed, tails, initialized, cancelled, updDone, marking,
                   rctxDone, closes, ctxDone, hook, upd, hbIDs, jobs>>

\* No trigger with this id: create one, and start it in a goroutine.
CreateTrigger(s, id, t) ==
    /\ caller[s] = "idle"
    /\ ~shutdown
    /\ triggers[id] = NoTrig
    /\ tid[t] = NoID
    /\ tid' = [tid EXCEPT ![t] = id]
    /\ triggers' = [triggers EXCEPT ![id] = t]
    /\ registerSubscriptionLocked(t, s)
    /\ start' = [start EXCEPT ![t] = "hook"]
    /\ UNCHANGED <<shutdown, trigCount, removed, tails, initialized, cancelled, updDone, marking,
                   rctxDone, closes, ctxDone, hook, upd, hbIDs, jobs>>

addSubscription(s, id) ==
    \/ RejectSubscription(s)
    \/ JoinTrigger(s, id)
    \/ \E t \in Trigs : CreateTrigger(s, id, t)

-----------------------------------------------------------------------------
(* Removing subscriptions.  Under Resolver.mu the entries go and removed is *)
(* set; the completed channels are closed and the trigger contexts         *)
(* cancelled after the unlock, by the tail left behind.                    *)

\* removed.CompareAndSwap(false, true)
\* Mutant: removed is looked at and never set.
MarkRemovedForgotten(S) == removed' = removed
MarkRemoved(S) == removed' = removed \cup S

\* The Reporter counts down under the lock.
\* Mutant: an unsubscribe of an unknown id is counted.
CountUnknown(U, S, T) ==
    /\ subCount' = subCount - Cardinality(U)
    /\ trigCount' = trigCount - Cardinality(T \cap initialized)
\* Mutant: removed triggers are counted down whether they were counted up or not.
CountUninitialized(U, S, T) ==
    /\ subCount' = subCount - Cardinality(S)
    /\ trigCount' = trigCount - Cardinality(T)
CountRemoved(U, S, T) ==
    /\ subCount' = subCount - Cardinality(S)
    /\ trigCount' = trigCount - Cardinality(T \cap initialized)

\* toClose, which holds what CompareAndSwap marked, and the cancel functions.
\* Mutant: only initialized triggers are cancelled.
CancelInitialized(owner, S, T) ==
    LET tl == [owner |-> owner, close |-> S \ removed, cancel |-> T \cap initialized]
    IN  tails' = IF tl.close = {} /\ tl.cancel = {} THEN tails ELSE tails \cup {tl}
LeaveTail(owner, S, T) ==
    LET tl == [owner |-> owner, close |-> S \ removed, cancel |-> T]
    IN  tails' = IF tl.close = {} /\ T = {} THEN tails ELSE tails \cup {tl}

\* The ids U leave the resolver's indexes, the subscriptions S their triggers, and the
\* triggers T the registry.
Teardown(owner, U, S, T) ==
    /\ triggers' = [i \in TriggerIDs |-> IF triggers[i] \in T THEN NoTrig ELSE triggers[i]]
    /\ tsubs' = [t \in Trigs |-> tsubs[t] \ S]
    /\ byID' = byID \ U
    /\ byConn' = [c \in Conns |-> byConn[c] \ U]
    /\ MarkRemoved(S)
    /\ CountRemoved(U, S, T)
    /\ LeaveTail(owner, S, T)

\* Subscriptions of S that subscriptionsByID, triggers and trigger.subscriptions agree on.
Found(S) == {s \in (S \cap byID) : /\ joined[s] # NoTrig
                                 /\ triggers[tid[joined[s]]] # NoTrig
                                 /\ s \in tsubs[triggers[tid[joined[s]]]]}

\* removeSubscriptionLocked for each element of S; a trigger left empty goes too.
removeSubscriptionsLocked(owner, S) ==
    Teardown(owner, S, Found(S),
             {t \in Registered : tsubs[t] \cap Found(S) # {} /\ tsubs[t] \subseteq Found(S)})

detachTriggerLocked(owner, T) ==
    LET S == UNION {tsubs[t] : t \in T} IN Teardown(owner, S, S, T)

\* The triggers registered under the ids of I.
TriggersAt(I) == {triggers[i] : i \in I} \ {NoTrig}

UnsubscribeSubscription(owner, s) ==
    IF shutdown THEN UNCHANGED registryVars
                ELSE removeSubscriptionsLocked(owner, {s}) /\ UNCHANGED shutdown

\* doneTriggerFromUpdater: the trigger is looked up by id.
doneTriggerFromUpdater(owner, id) ==
    /\ detachTriggerLocked(owner, TriggersAt({id}))
    /\ UNCHANGED shutdown

\* A server goroutine removes one subscription of its client.
ClientUnsubscribes(s) ==
    /\ "Unsubscribe" \in Moves
    /\ joined[s] # NoTrig
    /\ ~shutdown
    /\ UnsubscribeSubscription(Client, s)
    /\ UNCHANGED <<triggerVars, clientVars, threadVars>>

\* A server goroutine removes all subscriptions of a connection that went away.
UnsubscribeClient(c) ==
    /\ "UnsubscribeClient" \in Moves
    /\ ~shutdown
    /\ byConn[c] # {}
    /\ removeSubscriptionsLocked(Client, byConn[c])
    /\ UNCHANGED <<shutdown, triggerVars, clientVars, threadVars>>

CancelResolver ==
    /\ "CancelResolver" \in Moves
    /\ ~rctxDone
    /\ rctxDone' = TRUE
    /\ UNCHANGED <<registryVars, triggerVars, joined, closes, ctxDone, caller, threadVars>>

\* Mutant: subscriptionsByID and subscriptionsByConnection are not replaced.
ShutdownKeepsIndexes ==
    /\ rctxDone
    /\ ~shutdown
    /\ shutdown' = TRUE
    /\ Teardown(AfterFunc, {}, UNION {tsubs[t] : t \in Registered}, Registered)
    /\ UNCHANGED <<triggerVars, clientVars, threadVars>>

\* context.AfterFunc(resolver.ctx, shutdownResolver)
shutdownResolver ==
    /\ rctxDone
    /\ ~shutdown
    /\ shutdown' = TRUE
    /\ Teardown(AfterFunc, Subs, UNION {tsubs[t] : t \in Registered}, Registered)
    /\ UNCHANGED <<triggerVars, clientVars, threadVars>>

\* Mutant: TryLock in place of Lock.
CloseIfUnlocked(tl, s) ==
    /\ s \in tl.close
    /\ closes' = IF Locked(s) THEN closes ELSE [closes EXCEPT ![s] = @ + 1]
    /\ LET rest == [tl EXCEPT !.close = @ \ {s}]
       IN  tails' = (tails \ {tl}) \cup (IF rest.close = {} /\ rest.cancel = {} THEN {} ELSE {rest})
    /\ UNCHANGED <<shutdown, triggers, byID, byConn, subCount, trigCount, tsubs, removed,
                   triggerVars, rctxDone, joined, ctxDone, caller, threadVars>>

\* closeSubs: done() waits for writeMu and closes s.completed.
CloseCompleted(tl, s) ==
    /\ s \in tl.close
    /\ ~Locked(s)
    /\ closes' = [closes EXCEPT ![s] = @ + 1]
    /\ LET rest == [tl EXCEPT !.close = @ \ {s}]
       IN  tails' = (tails \ {tl}) \cup (IF rest.close = {} /\ rest.cancel = {} THEN {} ELSE {rest})
    /\ UNCHANGED <<shutdown, triggers, byID, byConn, subCount, trigCount, tsubs, removed,
                   triggerVars, rctxDone, joined, ctxDone, caller, threadVars>>

\* The cancel functions run once every channel of the tail is closed.
CancelTrigger(tl, t) ==
    /\ tl.close = {}
    /\ t \in tl.cancel
    /\ cancelled' = cancelled \cup {t}
    /\ LET rest == [tl EXCEPT !.cancel = @ \ {t}]
       IN  tails' = (tails \ {tl}) \cup (IF rest.cancel = {} THEN {} ELSE {rest})
    /\ UNCHANGED <<shutdown, triggers, byID, byConn, subCount, trigCount, tsubs, removed,
                   tid, initialized, updDone, marking, clientVars, threadVars>>

-----------------------------------------------------------------------------
(* Writing to clients.  A goroutine's writes are done one after another,   *)
(* in any order, except the updates of handleTriggerUpdate, which run in   *)
(* parallel once its filter errors are written.                            *)

MayProceed(th, j) ==
    \A k \in jobs[th] \ {j} : k.st = "todo" \/ (j.kind = "data" /\ k.kind = "data")

ErrorsFirst(th, j) == j.kind = "data" => \A k \in jobs[th] : k.kind = "data"

Advance(th, j, st) == jobs' = [jobs EXCEPT ![th] = (@ \ {j}) \cup {[j EXCEPT !.st = st]}]
Drop(th, j)        == jobs' = [jobs EXCEPT ![th] = @ \ {j}]

\* What is looked at before writeMu is taken: handleTriggerComplete and handleTriggerError
\* read removed, executeSubscriptionHeartbeat reads the contexts.
CheckWrite(th, j) ==
    /\ j \in jobs[th] /\ j.st = "todo"
    /\ j.kind \in Terminal \cup {"heartbeat"}
    /\ MayProceed(th, j) /\ \A tl \in tails : tl.owner # th
    /\ IF \/ j.kind \in Terminal /\ j.sub \in removed
          \/ j.kind = "heartbeat" /\ (rctxDone \/ j.sub \in ctxDone)
       THEN Drop(th, j) ELSE Advance(th, j, "checked")
    /\ UNCHANGED <<registryVars, triggerVars, clientVars, hook, start, upd, hbIDs>>

\* Mutant: removed is not looked at under writeMu.
WriteWithoutRecheck(th, j) ==
    /\ j \in jobs[th]
    /\ j.st = (IF j.kind \in Terminal \cup {"heartbeat"} THEN "checked" ELSE "todo")
    /\ MayProceed(th, j) /\ ErrorsFirst(th, j)
    /\ ~Locked(j.sub)
    /\ Advance(th, j, "writing")
    /\ UNCHANGED <<registryVars, triggerVars, clientVars, hook, start, upd, hbIDs>>

\* writeError, sendHeartbeat and executeSubscriptionUpdate read removed under writeMu;
\* complete and error write without looking again.
BeginWrite(th, j) ==
    /\ j \in jobs[th]
    /\ j.st = (IF j.kind \in Terminal \cup {"heartbeat"} THEN "checked" ELSE "todo")
    /\ MayProceed(th, j) /\ ErrorsFirst(th, j)
    /\ ~Locked(j.sub)
    /\ IF j.kind \in Rechecked /\ j.sub \in removed
       THEN Drop(th, j) ELSE Advance(th, j, "writing")
    /\ UNCHANGED <<registryVars, triggerVars, clientVars, hook, start, upd, hbIDs>>

\* Mutant: a failed write unsubscribes before writeMu is released.
UnsubscribeUnderWriteMu(th, j) ==
    /\ j \in jobs[th] /\ j.st = "writing"
    /\ \A tl \in tails : tl.owner # th
    /\ \/ Drop(th, j) /\ UNCHANGED registryVars
       \/ /\ "WriteFails" \in Moves
          /\ j.kind \in {"data", "heartbeat"}
          /\ UnsubscribeSubscription(th, j.sub) /\ UNCHANGED jobs
    /\ UNCHANGED <<triggerVars, clientVars, hook, start, upd, hbIDs>>

EndWrite(th, j) ==
    /\ j \in jobs[th] /\ j.st = "writing"
    /\ \/ Drop(th, j)
       \/ /\ "WriteFails" \in Moves
          /\ j.kind \in {"data", "heartbeat"}    \* Flush or Heartbeat failed
          /\ Advance(th, j, "unsubscribe")
    /\ UNCHANGED <<registryVars, triggerVars, clientVars, hook, start, upd, hbIDs>>

\* A client that cannot be written to is unsubscribed, after writeMu is released.
UnsubscribeFailed(th, j) ==
    /\ j \in jobs[th] /\ j.st = "unsubscribe"
    /\ UnsubscribeSubscription(th, j.sub)
    /\ Drop(th, j)
    /\ UNCHANGED <<triggerVars, clientVars, hook, start, upd, hbIDs>>

-----------------------------------------------------------------------------
(* subscriptionUpdater.  upd[t] # "idle" means its mutex is held.          *)

\* Who may call: a startup hook, through UpdateSubscription, while it runs; the data
\* source from the moment Start is called, unless Start failed.
MayCall(t, op) ==
    \/ start[t] \in {"source", "mark", "store", "report", "done"}
    \/ /\ op = "UpdateSubscription"
       /\ start[t] = "hook" \/ \E s \in Subs : joined[s] = t /\ hook[s] = "run"

\* done || ctx.Err() under the mutex.  Done looks at done alone.
CallUpdater(t, op) ==
    /\ op \in Moves
    /\ upd[t] = "idle"
    /\ MayCall(t, op)
    /\ t \notin updDone
    /\ op # "Done" => t \notin cancelled
    /\ upd' = [upd EXCEPT ![t] = op]
    /\ updDone' = IF op = "Done" THEN updDone \cup {t} ELSE updDone
    /\ UNCHANGED <<registryVars, tid, initialized, cancelled, marking, clientVars,
                   hook, start, hbIDs, jobs>>

\* The subscriptions of the trigger now registered under the updater's triggerID.
Targets(t) == UNION {tsubs[u] : u \in TriggersAt({tid[t]})}

Deliver(t, J) ==
    /\ jobs' = [jobs EXCEPT ![Upd(t)] = J]
    /\ upd' = [upd EXCEPT ![t] = "running"]
    /\ UNCHANGED <<registryVars, triggerVars, clientVars, hook, start, hbIDs>>

\* SubscriptionFilter.SkipEvent decides: deliver, report an error, or skip.
handleTriggerUpdate(t) ==
    /\ upd[t] = "Update"
    /\ \E S \in SUBSET (Targets(t) \ ctxDone) : \E E \in SUBSET S :
          Deliver(t, JobsOn(S \ E, "data") \cup JobsOn(E, "writeError"))

handleUpdateSubscription(t) ==
    /\ upd[t] = "UpdateSubscription"
    /\ \E s \in Subs :
          /\ joined[s] = t
          /\ \E S \in SUBSET ((Targets(t) \cap {s}) \ ctxDone), k \in {"data", "writeError"} :
                Deliver(t, JobsOn(S, k))

\* lastWriteTime and the heartbeat option select the targets.
heartbeatTriggerSubscriptions(t) ==
    /\ upd[t] = "Heartbeat"
    /\ \E S \in SUBSET (Targets(t) \ removed) : Deliver(t, JobsOn(S, "heartbeat"))

handleTriggerComplete(t) ==
    /\ upd[t] = "Complete"
    /\ Deliver(t, JobsOn(Targets(t), "complete"))

handleTriggerError(t) ==
    /\ upd[t] = "Error"
    /\ Deliver(t, JobsOn(Targets(t), "error"))

UpdaterDone(t) ==
    /\ upd[t] = "Done"
    /\ doneTriggerFromUpdater(Upd(t), tid[t])
    /\ upd' = [upd EXCEPT ![t] = "running"]
    /\ UNCHANGED <<triggerVars, clientVars, hook, start, hbIDs, jobs>>

UpdaterCloseSubscription(t) ==
    /\ upd[t] = "CloseSubscription"
    /\ \E s \in Subs : joined[s] = t /\ UnsubscribeSubscription(Upd(t), s)
    /\ upd' = [upd EXCEPT ![t] = "running"]
    /\ UNCHANGED <<triggerVars, clientVars, hook, start, hbIDs, jobs>>

ReturnUpdater(t) ==
    /\ upd[t] = "running" /\ Idle(Upd(t))
    /\ upd' = [upd EXCEPT ![t] = "idle"]
    /\ UNCHANGED <<registryVars, triggerVars, clientVars, hook, start, hbIDs, jobs>>

-----------------------------------------------------------------------------
(* The start goroutine of a trigger and the hook goroutine of a joining    *)
(* subscription.                                                           *)

StartStep(t, from, to) ==
    /\ start[t] = from
    /\ start' = [start EXCEPT ![t] = to]

StartHookReturns(t) ==
    /\ StartStep(t, "hook", "source")
    /\ UNCHANGED <<registryVars, triggerVars, clientVars, hook, upd, hbIDs, jobs>>

SourceStarted(t) ==
    /\ "SourceStarted" \in Moves
    /\ StartStep(t, "source", "mark")
    /\ UNCHANGED <<registryVars, triggerVars, clientVars, hook, upd, hbIDs, jobs>>

\* The hook or Source.Start returned an error: every subscription of the trigger gets it.
StartFails(t) ==
    /\ "StartFails" \in Moves
    /\ StartStep(t, "hook", "failed") \/ StartStep(t, "source", "failed")
    /\ jobs' = [jobs EXCEPT ![Start(t)] = JobsOn(tsubs[t], "writeError")]
    /\ UNCHANGED <<registryVars, triggerVars, clientVars, hook, upd, hbIDs>>

StartTeardown(t) ==
    /\ Idle(Start(t))
    /\ StartStep(t, "failed", "done")
    /\ doneTriggerFromUpdater(Start(t), tid[t])
    /\ UNCHANGED <<triggerVars, clientVars, hook, upd, hbIDs, jobs>>

\* markTriggerInitialized: getTrigger by id under the lock, Store and Inc outside it.
markTriggerInitialized(t) ==
    /\ StartStep(t, "mark", IF triggers[tid[t]] = NoTrig THEN "done" ELSE "store")
    /\ marking' = [marking EXCEPT ![t] = triggers[tid[t]]]
    /\ UNCHANGED <<registryVars, tid, initialized, cancelled, updDone, clientVars,
                   hook, upd, hbIDs, jobs>>

StoreInitialized(t) ==
    /\ StartStep(t, "store", "report")
    /\ initialized' = initialized \cup {marking[t]}
    /\ UNCHANGED <<registryVars, tid, cancelled, updDone, marking, clientVars,
                   hook, upd, hbIDs, jobs>>

ReportInitialized(t) ==
    /\ StartStep(t, "report", "done")
    /\ trigCount' = trigCount + 1
    /\ UNCHANGED <<shutdown, triggers, byID, byConn, subCount, tsubs, removed, tails,
                   triggerVars, clientVars, hook, upd, hbIDs, jobs>>

HookReturns(s) ==
    /\ hook[s] = "run"
    /\ \/ hook' = [hook EXCEPT ![s] = "done"] /\ UNCHANGED jobs
       \/ /\ "HookFails" \in Moves
          /\ hook' = [hook EXCEPT ![s] = "failed"]
          /\ jobs' = [jobs EXCEPT ![Hook(s)] = JobsOn({s}, "writeError")]
    /\ UNCHANGED <<registryVars, triggerVars, clientVars, start, upd, hbIDs>>

HookTeardown(s) ==
    /\ hook[s] = "failed" /\ Idle(Hook(s))
    /\ hook' = [hook EXCEPT ![s] = "done"]
    /\ UnsubscribeSubscription(Hook(s), s)
    /\ UNCHANGED <<triggerVars, clientVars, start, upd, hbIDs, jobs>>

-----------------------------------------------------------------------------
(* heartbeatLoop                                                           *)

\* sendTriggerHeartbeats copies the ids of the triggers under the lock.
HeartbeatTick ==
    /\ "HeartbeatTick" \in Moves
    /\ ~rctxDone
    /\ hbIDs = {} /\ Idle(HB)
    /\ Registered # {}
    /\ hbIDs' = {i \in TriggerIDs : triggers[i] # NoTrig}
    /\ UNCHANGED <<registryVars, triggerVars, clientVars, hook, start, upd, jobs>>

HeartbeatTrigger(i) ==
    /\ i \in hbIDs /\ Idle(HB)
    /\ hbIDs' = hbIDs \ {i}
    /\ \E S \in SUBSET (UNION {tsubs[t] : t \in TriggersAt({i})} \ removed) :
          jobs' = [jobs EXCEPT ![HB] = JobsOn(S, "heartbeat")]
    /\ UNCHANGED <<registryVars, triggerVars, clientVars, hook, start, upd>>

-----------------------------------------------------------------------------
(* The blocked caller of ResolveGraphQLSubscription.                       *)

CancelClient(s) ==
    /\ "CancelClient" \in Moves
    /\ s \notin ctxDone
    /\ caller[s] = "select" \/ (s \notin SyncSubs /\ joined[s] # NoTrig)
    /\ ctxDone' = ctxDone \cup {s}
    /\ UNCHANGED <<registryVars, triggerVars, threadVars, rctxDone, joined, closes, caller>>

CallerStep(s, from, to) ==
    /\ caller[s] = from
    /\ \A tl \in tails : tl.owner # Caller(s)    \* the previous call has returned
    /\ caller' = [caller EXCEPT ![s] = to]

CallerSeesCancel(s) ==
    /\ s \in ctxDone
    /\ CallerStep(s, "select", "unsubscribe")
    /\ UNCHANGED <<registryVars, triggerVars, threadVars, rctxDone, joined, closes, ctxDone>>

\* Mutant: a disconnected client's call does not wait for completed.
ReturnWithoutWaiting(s) ==
    /\ CallerStep(s, "unsubscribe", "returned") \/ CallerStep(s, "final", "returned")
    /\ UnsubscribeSubscription(Caller(s), s)
    /\ UNCHANGED <<triggerVars, threadVars, rctxDone, joined, closes, ctxDone>>

CallerUnsubscribes(s) ==
    /\ CallerStep(s, "unsubscribe", "wait") \/ CallerStep(s, "final", "returned")
    /\ UnsubscribeSubscription(Caller(s), s)
    /\ UNCHANGED <<triggerVars, threadVars, rctxDone, joined, closes, ctxDone>>

\* Mutant: after a disconnect only the shutdown ends the wait.
WaitForShutdown(s) ==
    /\ closes[s] > 0
    /\ CallerStep(s, "select", "final")
    /\ UNCHANGED <<registryVars, triggerVars, threadVars, rctxDone, joined, closes, ctxDone>>

CallerSeesCompleted(s) ==
    /\ closes[s] > 0
    /\ CallerStep(s, "select", "final") \/ CallerStep(s, "wait", "final")
    /\ UNCHANGED <<registryVars, triggerVars, threadVars, rctxDone, joined, closes, ctxDone>>

CallerSeesShutdown(s) ==
    /\ rctxDone
    /\ CallerStep(s, "select", "returned") \/ CallerStep(s, "wait", "returned")
    /\ UNCHANGED <<registryVars, triggerVars, threadVars, rctxDone, joined, closes, ctxDone>>

-----------------------------------------------------------------------------

TailStep(s)   == \E tl \in tails : CloseCompleted(tl, s)
CancelStep(t) == \E tl \in tails : CancelTrigger(tl, t)

WriteStep(th) ==
    \E j \in jobs[th] : \/ CheckWrite(th, j) \/ BeginWrite(th, j)
                       \/ EndWrite(th, j) \/ UnsubscribeFailed(th, j)

UpdaterStep(t) ==
    \/ handleTriggerUpdate(t) \/ handleUpdateSubscription(t)
    \/ heartbeatTriggerSubscriptions(t)
    \/ handleTriggerComplete(t) \/ handleTriggerError(t)
    \/ UpdaterDone(t) \/ UpdaterCloseSubscription(t)
    \/ ReturnUpdater(t)

StartGoroutine(t) ==
    \/ StartHookReturns(t) \/ SourceStarted(t) \/ StartFails(t) \/ StartTeardown(t)
    \/ markTriggerInitialized(t) \/ StoreInitialized(t) \/ ReportInitialized(t)

HookGoroutine(s) == HookReturns(s) \/ HookTeardown(s)

CallerGoroutine(s) ==
    CallerSeesCancel(s) \/ CallerUnsubscribes(s) \/ CallerSeesCompleted(s) \/ CallerSeesShutdown(s)

\* What clients, servers and data sources do, at any time or never.
Environment ==
    \/ \E s \in Subs, id \in TriggerIDs : addSubscription(s, id)
    \/ \E s \in Subs : ClientUnsubscribes(s) \/ CancelClient(s)
    \/ \E c \in Conns : UnsubscribeClient(c)
    \/ CancelResolver
    \/ \E t \in Trigs, op \in UpdaterOps : CallUpdater(t, op)
    \/ HeartbeatTick

Next ==
    \/ Environment
    \/ shutdownResolver
    \/ \E s \in Subs : TailStep(s) \/ HookGoroutine(s) \/ CallerGoroutine(s)
    \/ \E t \in Trigs : CancelStep(t) \/ UpdaterStep(t) \/ StartGoroutine(t)
    \/ \E th \in Threads : WriteStep(th)
    \/ \E i \in TriggerIDs : HeartbeatTrigger(i)

Spec == Init /\ [][Next]_vars

(* Goroutines run; writes to clients return, which is assumed of the peer  *)
(* and TCP, as the repository's server sets no write deadline; a goroutine *)
(* waiting for a contended writeMu gets it (sync.Mutex hands over after    *)
(* 1ms), hence the strong fairness.  Nothing is assumed of the rest of the *)
(* environment: no client leaves, no source calls Done, no hook returns.   *)
Fairness ==
    /\ WF_vars(shutdownResolver)
    /\ \A s \in Subs : WF_vars(TailStep(s)) /\ WF_vars(CallerGoroutine(s))
    /\ \A t \in Trigs : WF_vars(CancelStep(t)) /\ WF_vars(UpdaterStep(t))
    /\ \A th \in Threads : /\ WF_vars(WriteStep(th))
                           /\ SF_vars(\E j \in jobs[th] : BeginWrite(th, j))

FairSpec == Spec /\ Fairness

-----------------------------------------------------------------------------
(* Properties.                                                             *)

\* The three indexes always agree: subscriptionsByID, subscriptionsByConnection and
\* trigger.subscriptions hold the same subscriptions, no registered trigger is empty, an
\* unregistered one holds none, and removed is set exactly on what has left the indexes.
\* Were they to disagree, a subscription would be delivered to but could not be removed.
IndexesAgree ==
    /\ \A s \in Subs, c \in Conns : s \in byConn[c] <=> s \in byID /\ c = ConnOf[s]
    /\ \A s \in Subs, t \in Trigs : s \in tsubs[t] <=> s \in byID /\ joined[s] = t
    /\ \A t \in Trigs : t \in Registered <=> tsubs[t] # {}
    /\ \A s \in Subs : s \in byID <=> joined[s] # NoTrig /\ s \notin removed

\* removed's CompareAndSwap: whoever removes a subscription, however many do so at once,
\* its completed channel is closed at most once (a second close panics) and only after it
\* was removed.
CompletedClosedOnce ==
    \A s \in Subs : closes[s] <= 1 /\ (closes[s] = 1 => s \in removed)

\* After completed is closed no update, heartbeat or formatted error reaches the writer:
\* the caller of ResolveGraphQLSubscription may hand the writer back to net/http.
NoWriteAfterCompleted ==
    \A th \in Threads : \A j \in jobs[th] :
        j.st = "writing" /\ j.kind \in Rechecked => closes[j.sub] = 0

\* The writes to a client that nothing stops any more: those under way, and each complete
\* and error that is past its only look at removed.
Unstoppable(s) ==
    {w \in Threads \X (Rechecked \cup Terminal) :
        \E j \in jobs[w[1]] :
            /\ j.sub = s /\ j.kind = w[2]
            /\ j.st = "writing" \/ (j.kind \in Terminal /\ j.st = "checked")}

ReturnedUnforced(s) == caller[s] = "returned" /\ ~rctxDone

\* A blocking call that returned before the resolver's shutdown left no entry in the
\* registry and no update, heartbeat or formatted error under way to its client.  A complete
\* or error that looked at removed before the call returned may still come, for complete()
\* and error() do not look again under writeMu; from the return on, nothing joins these.
ReturnedCallIsQuiet ==
    /\ [](\A s \in SyncSubs :
            ReturnedUnforced(s) =>
                s \notin byID /\ \A w \in Unstoppable(s) : w[2] \in Terminal)
    /\ [][\A s \in SyncSubs :
            ReturnedUnforced(s) => Unstoppable(s)' \subseteq Unstoppable(s)]_vars

\* A trigger that left the registry is cancelled, or someone is about to: the upstream
\* subscription of a trigger without subscribers is never left running.
NoOrphanedTrigger ==
    \A t \in Trigs : tid[t] # NoID =>
        t \in Registered \cup cancelled \cup UNION {tl.cancel : tl \in tails}

\* The Reporter's subscription count is the number of registered subscriptions.
SubscriptionCountExact == subCount = Cardinality(byID)

\* After shutdownResolver nothing is registered, and nothing ever is again.
ShutdownIsFinal == shutdown => byID = {} /\ Registered = {}

\* The Reporter's trigger count, with the increments still to come, never falls below the
\* number of initialized triggers in the registry, although initialized is set and counted
\* outside the lock that removals count under.
TriggerCountCovers ==
    trigCount + Cardinality({t \in Trigs : start[t] = "report"})
        >= Cardinality(Registered \cap initialized)

\* Whoever removed it, a removed subscription is completed in the end.
RemovedIsCompleted == \A s \in Subs : s \in removed ~> closes[s] = 1

\* A client that disconnects gets its ResolveGraphQLSubscription call back.
DisconnectedCallReturns ==
    \A s \in SyncSubs : (s \in ctxDone) ~> (caller[s] = "returned")

\* Every updater call returns, so subscriptionUpdater.mu is released even when a failed
\* write makes the updater's own goroutine unsubscribe and cancel its trigger.
UpdaterCallReturns == \A t \in Trigs : upd[t] # "idle" ~> upd[t] = "idle"

\* Cancelling the resolver's context releases every blocked caller and empties the registry.
ShutdownReleasesAll ==
    rctxDone ~> (byID = {} /\ \A s \in SyncSubs : caller[s] \in {"idle", "returned"})

-----------------------------------------------------------------------------
(* What a comment of the code says and the code does not do.               *)

\* "Done performs internal cleanup: detaches the trigger": the updater of a trigger tears
\* down no other trigger than its own.
UpdaterTearsDownOwnTrigger ==
    \A tl \in tails, t \in Trigs : tl.owner = Upd(t) => tl.cancel \subseteq {t}
=============================================================================
