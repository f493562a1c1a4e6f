------------------- MODULE ResolverSubscriptionsObservers -------------------
(***************************************************************************)
(* What those who look at the Resolver from outside may rely on: the       *)
(* server that blocks in ResolveGraphQLSubscription, and the Reporter that *)
(* counts triggers.                                                        *)
(***************************************************************************)
EXTENDS ResolverSubscriptionsProofs

-----------------------------------------------------------------------------
(* The promise ResolveGraphQLSubscription makes to the server that blocks   *)
(* in it: once it has returned, nothing of the subscription is left in the  *)
(* registry and nothing writes to the client any more, but for a complete   *)
(* or error that was already past its look at removed.                      *)

\* Hooks run for, and writes go to, subscriptions that were registered.
OnlyJoined ==
    /\ \A s \in Subs : hook[s] # "none" => joined[s] # NoTrig
    /\ \A th \in Threads : \A j \in jobs[th] : joined[j.sub] # NoTrig

\* Before the shutdown a blocked call gets past its wait only once completed is closed,
\* unless it was refused.
WaitedForCompleted ==
    \A s \in SyncSubs : caller[s] \in {"final", "returned"} /\ ~rctxDone =>
        closes[s] = 1 \/ joined[s] = NoTrig

CallersInv ==
    /\ SafetyInv
    /\ shutdown => rctxDone
    /\ OnlyJoined
    /\ WaitedForCompleted

\* What a trigger holds was registered.
LEMMA HeldIsJoined ==
    ASSUME RegistryInv, NEW T \in SUBSET Trigs, NEW s \in UNION {tsubs[t] : t \in T}
    PROVE  s \in Subs /\ joined[s] # NoTrig
<1>1. PICK t \in T : s \in tsubs[t]
  OBVIOUS
<1>2. s \in Subs
  BY <1>1 DEF RegistryInv, TypeInv, TypeOK
<1>3. QED
  BY <1>1, <1>2, ConstantsAssumption DEF RegistryInv, IndexesAgree

\* A goroutine is given writes to registered subscriptions.
LEMMA NewJobsJoined ==
    ASSUME RegistryInv, OnlyJoined, UNCHANGED joined,
           NEW th \in Threads, NEW J, jobs' = [jobs EXCEPT ![th] = J],
           \A j \in J : joined[j.sub] # NoTrig
    PROVE  \A x \in Threads : \A j \in jobs'[x] : joined'[j.sub] # NoTrig
BY DEF OnlyJoined, RegistryInv, TypeInv, TypeOK

\* The writes to a set of subscriptions go to that set.
LEMMA JobsOnSubs ==
    ASSUME NEW S, NEW k PROVE \A j \in JobsOn(S, k) : j.sub \in S
BY DEF JobsOn

\* A write that goes on or ends adds no subscription.
LEMMA SameSubs ==
    ASSUME RegistryInv, OnlyJoined, UNCHANGED joined, NEW th \in Threads, NEW j \in jobs[th],
           Drop(th, j) \/ \E st : Advance(th, j, st)
    PROVE  \A x \in Threads : \A k \in jobs'[x] : joined'[k.sub] # NoTrig
<1>1. jobs \in [Threads -> SUBSET Job] /\ j \in Job
  BY DEF RegistryInv, TypeInv, TypeOK
<1>2. CASE Drop(th, j)
  BY <1>1, <1>2 DEF Drop, OnlyJoined
<1>3. ASSUME NEW st, Advance(th, j, st)
      PROVE  \A x \in Threads : \A k \in jobs'[x] : joined'[k.sub] # NoTrig
  <2>1. [j EXCEPT !.st = st].sub = j.sub
    BY <1>1 DEF Job
  <2>2. \A x \in Threads : jobs'[x] \subseteq jobs[x] \cup {[j EXCEPT !.st = st]}
    BY <1>1, <1>3 DEF Advance
  <2>3. QED
    BY <2>1, <2>2 DEF OnlyJoined
<1>4. QED
  BY <1>2, <1>3

\* OnlyJoined, for the steps that register nothing.
LEMMA JoinedStep ==
    ASSUME RegistryInv, OnlyJoined, [Next]_vars
    PROVE  OnlyJoined'
<1>type. TypeOK
  BY DEF RegistryInv, TypeInv
<1>1. ASSUME UNCHANGED <<joined, hook, jobs>>
      PROVE  OnlyJoined'
  BY <1>1 DEF OnlyJoined
<1>2. ASSUME UNCHANGED <<joined, hook>>, NEW th \in Threads, NEW J,
             jobs' = [jobs EXCEPT ![th] = J], \A j \in J : joined[j.sub] # NoTrig
      PROVE  OnlyJoined'
  BY <1>2, NewJobsJoined DEF OnlyJoined
<1>register. ASSUME NEW s \in Subs, NEW t \in Trigs, registerSubscriptionLocked(t, s),
                    UNCHANGED jobs, \A x \in Subs : x # s => hook'[x] = hook[x]
             PROVE  OnlyJoined'
  <2>1. joined'[s] = t /\ \A x \in Subs : x # s => joined'[x] = joined[x]
    BY <1>register, <1>type DEF registerSubscriptionLocked, TypeOK
  <2>2. \A th \in Threads : \A j \in jobs[th] : j.sub \in Subs
    BY <1>type DEF TypeOK, Job
  <2>3. QED
    BY <1>register, <2>1, <2>2, ConstantsAssumption DEF OnlyJoined
<1>add. ASSUME NEW s \in Subs, NEW id \in TriggerIDs, addSubscription(s, id)
        PROVE  OnlyJoined'
  <2>1. CASE RejectSubscription(s)
    BY <1>1, <2>1 DEF RejectSubscription, threadVars
  <2>2. CASE JoinTrigger(s, id)
    BY <1>type, <1>register, <2>2 DEF JoinTrigger, TypeOK
  <2>3. ASSUME NEW t \in Trigs, CreateTrigger(s, id, t)
        PROVE  OnlyJoined'
    BY <1>register, <2>3 DEF CreateTrigger
  <2>4. QED
    BY <1>add, <2>1, <2>2, <2>3 DEF addSubscription
<1>env. CASE Environment /\ ~\E s \in Subs, id \in TriggerIDs : addSubscription(s, id)
  BY <1>1, <1>env DEF Environment, ClientUnsubscribes, CancelClient, UnsubscribeClient,
     CancelResolver, CallUpdater, HeartbeatTick, clientVars, threadVars
<1>shutdown. CASE shutdownResolver
  BY <1>1, <1>shutdown DEF shutdownResolver, clientVars, threadVars
<1>tail. ASSUME NEW s \in Subs, TailStep(s)
         PROVE  OnlyJoined'
  BY <1>1, <1>tail DEF TailStep, CloseCompleted, threadVars
<1>cancel. ASSUME NEW t \in Trigs, CancelStep(t)
           PROVE  OnlyJoined'
  BY <1>1, <1>cancel DEF CancelStep, CancelTrigger, clientVars, threadVars
<1>caller. ASSUME NEW s \in Subs, CallerGoroutine(s)
           PROVE  OnlyJoined'
  BY <1>1, <1>caller DEF CallerGoroutine, CallerSeesCancel, CallerUnsubscribes,
     CallerSeesCompleted, CallerSeesShutdown, threadVars
<1>write. ASSUME NEW th \in Threads, WriteStep(th)
          PROVE  OnlyJoined'
  <2>1. PICK j \in jobs[th] : \/ CheckWrite(th, j) \/ BeginWrite(th, j)
                              \/ EndWrite(th, j) \/ UnsubscribeFailed(th, j)
    BY <1>write DEF WriteStep
  <2>2. Drop(th, j) \/ \E st : Advance(th, j, st)
    BY <2>1 DEF CheckWrite, BeginWrite, EndWrite, UnsubscribeFailed
  <2>3. UNCHANGED <<joined, hook>>
    BY <2>1 DEF CheckWrite, BeginWrite, EndWrite, UnsubscribeFailed, clientVars
  <2>4. QED
    BY <2>2, <2>3, SameSubs DEF OnlyJoined
<1>upd. ASSUME NEW t \in Trigs, UpdaterStep(t)
        PROVE  OnlyJoined'
  <2>1. ASSUME NEW J, Deliver(t, J), \A j \in J : joined[j.sub] # NoTrig
        PROVE  OnlyJoined'
    BY <1>2, <2>1, ThreadsOwn DEF Deliver, clientVars
  <2>2. upd[t] # "idle" => \A s \in Targets(t) : joined[s] # NoTrig
    <3>1. upd[t] # "idle" => TriggersAt({tid[t]}) \in SUBSET Trigs
      BY <1>type, RegisteredTyped DEF RegistryInv, TypeInv, StartedHasID, TypeOK
    <3>2. QED
      BY <3>1, HeldIsJoined DEF Targets
  <2>3. ASSUME NEW S \in SUBSET Targets(t), NEW k, upd[t] # "idle"
        PROVE  \A j \in JobsOn(S, k) : joined[j.sub] # NoTrig
    BY <2>2, <2>3, JobsOnSubs
  <2>4. CASE handleTriggerUpdate(t)
    <3>1. PICK S \in SUBSET Targets(t) : \E E \in SUBSET S :
             Deliver(t, JobsOn(S \ E, "data") \cup JobsOn(E, "writeError"))
      BY <2>4 DEF handleTriggerUpdate
    <3> PICK E \in SUBSET S : Deliver(t, JobsOn(S \ E, "data") \cup JobsOn(E, "writeError"))
      BY <3>1
    <3>2. E \in SUBSET Targets(t) /\ S \ E \in SUBSET Targets(t) /\ upd[t] # "idle"
      BY <2>4, <3>1 DEF handleTriggerUpdate
    <3>3. \A j \in JobsOn(S \ E, "data") \cup JobsOn(E, "writeError") : joined[j.sub] # NoTrig
      BY <2>3, <3>2
    <3>4. QED
      BY <2>1, <3>1, <3>3
  <2>5. CASE \/ handleUpdateSubscription(t) \/ heartbeatTriggerSubscriptions(t)
             \/ handleTriggerComplete(t) \/ handleTriggerError(t)
    <3>1. upd[t] # "idle" /\ \E S \in SUBSET Targets(t), k \in Rechecked \cup Terminal :
             Deliver(t, JobsOn(S, k))
      BY <2>5 DEF handleUpdateSubscription, heartbeatTriggerSubscriptions, handleTriggerComplete,
                  handleTriggerError, Rechecked, Terminal
    <3>2. QED
      BY <2>1, <2>3, <3>1
  <2>6. CASE UpdaterDone(t) \/ UpdaterCloseSubscription(t) \/ ReturnUpdater(t)
    BY <1>1, <2>6 DEF UpdaterDone, UpdaterCloseSubscription, ReturnUpdater, clientVars
  <2>7. QED
    BY <1>upd, <2>4, <2>5, <2>6 DEF UpdaterStep
<1>start. ASSUME NEW t \in Trigs, StartGoroutine(t)
          PROVE  OnlyJoined'
  <2>1. CASE StartFails(t)
    <3>1. \A s \in tsubs[t] : joined[s] # NoTrig
      BY HeldIsJoined, UNION {tsubs[u] : u \in {t}} = tsubs[t], {t} \in SUBSET Trigs
    <3>2. \A j \in JobsOn(tsubs[t], "writeError") : joined[j.sub] # NoTrig
      BY <3>1, JobsOnSubs
    <3>3. QED
      BY <1>2, <2>1, <3>2, ThreadsOwn DEF StartFails, clientVars
  <2>2. CASE ~StartFails(t)
    BY <1>1, <1>start, <2>2 DEF StartGoroutine, StartHookReturns, SourceStarted, StartTeardown,
       markTriggerInitialized, StoreInitialized, ReportInitialized, clientVars
  <2>3. QED
    BY <2>1, <2>2
<1>hook. ASSUME NEW s \in Subs, HookGoroutine(s)
         PROVE  OnlyJoined'
  <2>1. hook[s] # "none" /\ \A x \in Subs : x # s => hook'[x] = hook[x]
    BY <1>type, <1>hook DEF HookGoroutine, HookReturns, HookTeardown, TypeOK
  <2>2. UNCHANGED joined
    BY <1>hook DEF HookGoroutine, HookReturns, HookTeardown, clientVars
  <2>3. \A x \in Subs : hook'[x] # "none" => joined'[x] # NoTrig
    BY <2>1, <2>2 DEF OnlyJoined
  <2>4. UNCHANGED jobs \/ jobs' = [jobs EXCEPT ![Hook(s)] = JobsOn({s}, "writeError")]
    BY <1>hook DEF HookGoroutine, HookReturns, HookTeardown
  <2>5. \A j \in JobsOn({s}, "writeError") : joined[j.sub] # NoTrig
    BY <2>1, JobsOnSubs DEF OnlyJoined
  <2>6. \A x \in Threads : \A j \in jobs'[x] : joined'[j.sub] # NoTrig
    BY <2>2, <2>4, <2>5, NewJobsJoined, ThreadsOwn DEF OnlyJoined
  <2>7. QED
    BY <2>3, <2>6 DEF OnlyJoined
<1>beat. ASSUME NEW i \in TriggerIDs, HeartbeatTrigger(i)
         PROVE  OnlyJoined'
  <2>1. PICK S \in SUBSET UNION {tsubs[t] : t \in TriggersAt({i})} :
           jobs' = [jobs EXCEPT ![HB] = JobsOn(S, "heartbeat")]
    BY <1>beat DEF HeartbeatTrigger
  <2>2. \A s \in S : joined[s] # NoTrig
    BY <1>type, HeldIsJoined, RegisteredTyped
  <2>3. \A j \in JobsOn(S, "heartbeat") : joined[j.sub] # NoTrig
    BY <2>2, JobsOnSubs
  <2>4. QED
    BY <1>2, <1>beat, <2>1, <2>3, ThreadsOwn DEF HeartbeatTrigger, clientVars
<1>stutter. CASE UNCHANGED vars
  BY <1>1, <1>stutter DEF vars, clientVars, threadVars
<1>qed. QED
  BY <1>add, <1>env, <1>shutdown, <1>tail, <1>cancel, <1>caller, <1>write, <1>upd, <1>start,
     <1>hook, <1>beat, <1>stutter DEF Next

-----------------------------------------------------------------------------

\* Only shutdownResolver sets shutdown, and it runs once the context is cancelled, which
\* is for ever.
LEMMA ShutdownNeedsCancel ==
    ASSUME TypeOK, shutdown => rctxDone, [Next]_vars
    PROVE  (shutdown' => rctxDone') /\ (rctxDone => rctxDone')
<1>1. ASSUME UNCHANGED <<shutdown, rctxDone>>
      PROVE  (shutdown' => rctxDone') /\ (rctxDone => rctxDone')
  BY <1>1
<1>unsub. \A owner, s : UnsubscribeSubscription(owner, s) => shutdown' = shutdown
  BY DEF UnsubscribeSubscription, registryVars
<1>done. \A owner, id : doneTriggerFromUpdater(owner, id) => shutdown' = shutdown
  BY DEF doneTriggerFromUpdater
<1>2. CASE Environment
  <2>1. CASE CancelResolver
    BY <2>1 DEF CancelResolver
  <2>2. CASE ~CancelResolver
    BY <1>1, <1>unsub, <1>2, <2>2 DEF Environment, addSubscription, RejectSubscription, JoinTrigger,
       CreateTrigger, ClientUnsubscribes, CancelClient, UnsubscribeClient, CallUpdater,
       HeartbeatTick, registryVars, clientVars
  <2>3. QED
    BY <2>1, <2>2
<1>3. CASE shutdownResolver
  BY <1>3 DEF shutdownResolver, clientVars
<1>4. ASSUME NEW s \in Subs, TailStep(s) \/ HookGoroutine(s) \/ CallerGoroutine(s)
      PROVE  UNCHANGED <<shutdown, rctxDone>>
  BY <1>4, <1>unsub DEF TailStep, CloseCompleted, HookGoroutine, HookReturns, HookTeardown,
     CallerGoroutine, CallerSeesCancel, CallerUnsubscribes, CallerSeesCompleted,
     CallerSeesShutdown, registryVars, clientVars
<1>5. ASSUME NEW t \in Trigs, CancelStep(t) \/ StartGoroutine(t)
      PROVE  UNCHANGED <<shutdown, rctxDone>>
  BY <1>5, <1>done DEF CancelStep, CancelTrigger, StartGoroutine, StartHookReturns, SourceStarted,
     StartFails, StartTeardown, markTriggerInitialized, StoreInitialized, ReportInitialized,
     registryVars, clientVars
<1>6. ASSUME NEW t \in Trigs, UpdaterStep(t)
      PROVE  UNCHANGED <<shutdown, rctxDone>>
  BY <1>6, <1>unsub, <1>done DEF UpdaterStep, handleTriggerUpdate, handleUpdateSubscription,
     heartbeatTriggerSubscriptions, handleTriggerComplete, handleTriggerError, UpdaterDone,
     UpdaterCloseSubscription, ReturnUpdater, Deliver, registryVars, clientVars
<1>7. ASSUME NEW th \in Threads, WriteStep(th)
      PROVE  UNCHANGED <<shutdown, rctxDone>>
  BY <1>7, <1>unsub DEF WriteStep, CheckWrite, BeginWrite, EndWrite, UnsubscribeFailed,
     registryVars, clientVars
<1>8. ASSUME NEW i \in TriggerIDs, HeartbeatTrigger(i)
      PROVE  UNCHANGED <<shutdown, rctxDone>>
  BY <1>8 DEF HeartbeatTrigger, registryVars, clientVars
<1>9. CASE UNCHANGED vars
  BY <1>9 DEF vars, registryVars, clientVars
<1>10. QED
  BY <1>1, <1>2, <1>3, <1>4, <1>5, <1>6, <1>7, <1>8, <1>9 DEF Next

\* What a step does to a blocked call: nothing, refuse or register it, or move it on.
LEMMA CallerMoves ==
    ASSUME RegistryInv, [Next]_vars
    PROVE  \/ UNCHANGED <<caller, joined>>
           \/ \E s \in Subs : RejectSubscription(s)
           \/ \E s \in Subs, t \in Trigs : caller[s] = "idle" /\ registerSubscriptionLocked(t, s)
                                           /\ UNCHANGED closes
           \/ \E s \in Subs : CallerGoroutine(s)
<1> DEFINE Goal == \/ UNCHANGED <<caller, joined>>
                   \/ \E s \in Subs : RejectSubscription(s)
                   \/ \E s \in Subs, t \in Trigs :
                         caller[s] = "idle" /\ registerSubscriptionLocked(t, s) /\ UNCHANGED closes
                   \/ \E s \in Subs : CallerGoroutine(s)
<1>1. ASSUME NEW s \in Subs, NEW id \in TriggerIDs, addSubscription(s, id)
      PROVE  Goal
  <2>1. CASE JoinTrigger(s, id)
    <3>1. triggers[id] \in Trigs
      BY <2>1 DEF JoinTrigger, RegistryInv, TypeInv, TypeOK
    <3>2. QED
      BY <2>1, <3>1 DEF JoinTrigger
  <2>2. ASSUME NEW t \in Trigs, CreateTrigger(s, id, t)
        PROVE  Goal
    BY <2>2 DEF CreateTrigger
  <2>3. QED
    BY <1>1, <2>1, <2>2 DEF addSubscription
<1>2. CASE Environment /\ ~\E s \in Subs, id \in TriggerIDs : addSubscription(s, id)
  BY <1>2 DEF Environment, ClientUnsubscribes, CancelClient, UnsubscribeClient,
     CancelResolver, CallUpdater, HeartbeatTick, clientVars
<1>3. CASE shutdownResolver
  BY <1>3 DEF shutdownResolver, clientVars
<1>4. ASSUME NEW s \in Subs, TailStep(s) \/ HookGoroutine(s)
      PROVE  Goal
  BY <1>4 DEF TailStep, CloseCompleted, HookGoroutine, HookReturns, HookTeardown, clientVars
<1>5. ASSUME NEW t \in Trigs, CancelStep(t) \/ StartGoroutine(t)
      PROVE  UNCHANGED <<caller, joined>>
  BY <1>5 DEF CancelStep, CancelTrigger, StartGoroutine, StartHookReturns, SourceStarted,
     StartFails, StartTeardown, markTriggerInitialized, StoreInitialized, ReportInitialized,
     clientVars
<1>6. ASSUME NEW t \in Trigs, UpdaterStep(t)
      PROVE  UNCHANGED <<caller, joined>>
  BY <1>6 DEF UpdaterStep, handleTriggerUpdate, handleUpdateSubscription,
     heartbeatTriggerSubscriptions, handleTriggerComplete, handleTriggerError, UpdaterDone,
     UpdaterCloseSubscription, ReturnUpdater, Deliver, clientVars
<1>7. ASSUME NEW th \in Threads, WriteStep(th)
      PROVE  UNCHANGED <<caller, joined>>
  BY <1>7 DEF WriteStep, CheckWrite, BeginWrite, EndWrite, UnsubscribeFailed, clientVars
<1>8. ASSUME NEW i \in TriggerIDs, HeartbeatTrigger(i)
      PROVE  UNCHANGED <<caller, joined>>
  BY <1>8 DEF HeartbeatTrigger, clientVars
<1>9. CASE UNCHANGED vars
  BY <1>9 DEF vars, clientVars
<1>10. QED
  BY <1>1, <1>2, <1>3, <1>4, <1>5, <1>6, <1>7, <1>8, <1>9 DEF Next

\* A channel that is closed stays closed.
LEMMA ClosedStays ==
    ASSUME RegistryInv, ClosingInv, [Next]_vars, NEW s \in Subs, closes[s] = 1
    PROVE  closes'[s] = 1
<1>1. CASE UNCHANGED closes
  BY <1>1
<1>2. ASSUME NEW x \in Subs, TailStep(x)
      PROVE  closes'[s] = 1
  <2>1. PICK tl \in tails : CloseCompleted(tl, x)
    BY <1>2 DEF TailStep
  <2>2. closes[x] = 0
    BY <2>1 DEF CloseCompleted, ClosingInv, TailsOwed
  <2>3. QED
    BY <2>1, <2>2 DEF CloseCompleted, RegistryInv, TypeInv, TypeOK
<1>3. QED
  BY <1>1, <1>2, StepShape DEF Shapes, Quiet, Removes, JoinTrigger, CreateTrigger, CancelStep,
     CancelTrigger, clientVars

\* Before the shutdown, only a closed completed lets a blocked call go.
LEMMA WaitedStep == CallersInv /\ [Next]_vars => WaitedForCompleted'
<1> SUFFICES ASSUME CallersInv, [Next]_vars, NEW s \in SyncSubs,
                    caller'[s] \in {"final", "returned"}, ~rctxDone'
             PROVE  closes'[s] = 1 \/ joined'[s] = NoTrig
  BY DEF WaitedForCompleted
<1>inv. RegistryInv /\ ClosingInv /\ s \in Subs
  BY ConstantsAssumption DEF CallersInv, SafetyInv
<1>type. /\ caller \in [Subs -> {"idle", "select", "unsubscribe", "wait", "final", "returned"}]
         /\ joined \in [Subs -> Trigs \cup {NoTrig}] /\ closes \in [Subs -> Nat] /\ TypeOK
  BY <1>inv DEF RegistryInv, TypeInv, TypeOK
<1>done. ~rctxDone
  BY <1>type, ShutdownNeedsCancel DEF CallersInv
<1>was. caller[s] \in {"final", "returned"} => closes'[s] = 1 \/ joined[s] = NoTrig
  BY <1>inv, <1>done, ClosedStays DEF CallersInv, WaitedForCompleted
<1>1. CASE UNCHANGED <<caller, joined>>
  BY <1>1, <1>was
<1>2. ASSUME NEW x \in Subs, RejectSubscription(x)
      PROVE  closes'[s] = 1 \/ joined'[s] = NoTrig
  <2>1. joined[x] = NoTrig
    BY <1>inv, <1>2, FreshSubscription DEF RejectSubscription
  <2>2. QED
    BY <1>inv, <1>type, <1>was, <1>2, <2>1 DEF RejectSubscription
<1>3. ASSUME NEW x \in Subs, NEW t \in Trigs, caller[x] = "idle", registerSubscriptionLocked(t, x)
      PROVE  closes'[s] = 1 \/ joined'[s] = NoTrig
  <2>1. s # x
    BY <1>inv, <1>type, <1>3 DEF registerSubscriptionLocked
  <2>2. caller'[s] = caller[s] /\ joined'[s] = joined[s]
    BY <1>inv, <1>type, <1>3, <2>1 DEF registerSubscriptionLocked
  <2>3. QED
    BY <1>was, <2>2
<1>4. ASSUME NEW x \in Subs, CallerGoroutine(x)
      PROVE  closes'[s] = 1 \/ joined'[s] = NoTrig
  <2>1. joined' = joined /\ closes' = closes
    BY <1>4 DEF CallerGoroutine, CallerSeesCancel, CallerUnsubscribes, CallerSeesCompleted,
                CallerSeesShutdown
  <2>2. CASE x # s
    <3>1. caller'[s] = caller[s]
      BY <1>inv, <1>type, <1>4, <2>2 DEF CallerGoroutine, CallerSeesCancel, CallerUnsubscribes,
         CallerSeesCompleted, CallerSeesShutdown, CallerStep
    <3>2. QED
      BY <1>was, <2>1, <3>1
  <2>3. CASE x = s
    <3>1. caller[s] = "final" \/ closes[s] > 0
      BY <1>inv, <1>type, <1>done, <1>4, <2>3 DEF CallerGoroutine, CallerSeesCancel,
         CallerUnsubscribes, CallerSeesCompleted, CallerSeesShutdown, CallerStep
    <3>2. closes[s] > 0 => closes[s] = 1
      BY <1>inv, <1>type DEF ClosingInv, CompletedClosedOnce
    <3>3. QED
      BY <1>was, <2>1, <3>1, <3>2
  <2>4. QED
    BY <2>2, <2>3
<1>5. QED
  BY <1>inv, <1>1, <1>2, <1>3, <1>4, CallerMoves

\* CallersInv is an invariant.
THEOREM CallersInvariant == Spec => []CallersInv
<1>1. Init => CallersInv
  <2> SUFFICES ASSUME Init PROVE CallersInv
    OBVIOUS
  <2>1. SafetyInv /\ (shutdown => rctxDone)
    BY SafetyInit DEF Init
  <2>2. OnlyJoined
    BY DEF Init, OnlyJoined
  <2>3. WaitedForCompleted
    BY ConstantsAssumption DEF Init, WaitedForCompleted
  <2>4. QED
    BY <2>1, <2>2, <2>3 DEF CallersInv
<1>2. CallersInv /\ [Next]_vars => CallersInv'
  <2> SUFFICES ASSUME CallersInv, [Next]_vars PROVE CallersInv'
    OBVIOUS
  <2>1. TypeOK /\ RegistryInv
    BY DEF CallersInv, SafetyInv, RegistryInv, TypeInv
  <2>2. SafetyInv' /\ OnlyJoined' /\ WaitedForCompleted'
    BY <2>1, SafetyStep, JoinedStep, WaitedStep DEF CallersInv
  <2>3. shutdown' => rctxDone'
    BY <2>1, ShutdownNeedsCancel DEF CallersInv
  <2>4. QED
    BY <2>2, <2>3 DEF CallersInv
<1>3. QED
  BY <1>1, <1>2, PTL DEF Spec

\* What a step does to the writes that are under way: nothing, replace a goroutine's finished
\* ones by new ones, or move one on.
LEMMA JobMoves ==
    ASSUME [Next]_vars
    PROVE  \/ UNCHANGED jobs
           \/ \E th \in Threads : \E J :
                 jobs' = [jobs EXCEPT ![th] = J] /\ \A j \in J : j.st = "todo"
           \/ \E th \in Threads : WriteStep(th)
<1> DEFINE Goal == \/ UNCHANGED jobs
                   \/ \E th \in Threads : \E J :
                         jobs' = [jobs EXCEPT ![th] = J] /\ \A j \in J : j.st = "todo"
                   \/ \E th \in Threads : WriteStep(th)
<1>1. CASE Environment \/ shutdownResolver
  BY <1>1 DEF Environment, addSubscription, RejectSubscription, JoinTrigger, CreateTrigger,
     ClientUnsubscribes, CancelClient, UnsubscribeClient, CancelResolver, CallUpdater,
     HeartbeatTick, shutdownResolver, threadVars
<1>2. ASSUME NEW s \in Subs, TailStep(s) \/ CallerGoroutine(s)
      PROVE  UNCHANGED jobs
  BY <1>2 DEF TailStep, CloseCompleted, CallerGoroutine, CallerSeesCancel, CallerUnsubscribes,
     CallerSeesCompleted, CallerSeesShutdown, threadVars
<1>3. ASSUME NEW t \in Trigs, CancelStep(t)
      PROVE  UNCHANGED jobs
  BY <1>3 DEF CancelStep, CancelTrigger, threadVars
<1>4. ASSUME NEW s \in Subs, HookGoroutine(s)
      PROVE  Goal
  <2>1. UNCHANGED jobs \/ jobs' = [jobs EXCEPT ![Hook(s)] = JobsOn({s}, "writeError")]
    BY <1>4 DEF HookGoroutine, HookReturns, HookTeardown
  <2>2. QED
    BY <2>1, JobsAreTodo, ThreadsOwn
<1>5. ASSUME NEW t \in Trigs, StartGoroutine(t)
      PROVE  Goal
  <2>1. UNCHANGED jobs \/ jobs' = [jobs EXCEPT ![Start(t)] = JobsOn(tsubs[t], "writeError")]
    BY <1>5 DEF StartGoroutine, StartHookReturns, SourceStarted, StartFails, StartTeardown,
       markTriggerInitialized, StoreInitialized, ReportInitialized
  <2>2. QED
    BY <2>1, JobsAreTodo, ThreadsOwn
<1>6. ASSUME NEW t \in Trigs, UpdaterStep(t)
      PROVE  Goal
  <2>1. ASSUME NEW J, Deliver(t, J), \A j \in J : j.st = "todo"
        PROVE  Goal
    BY <2>1, ThreadsOwn DEF Deliver
  <2>2. CASE handleTriggerUpdate(t)
    BY <2>1, <2>2, JobsAreTodo DEF handleTriggerUpdate
  <2>3. CASE handleUpdateSubscription(t) \/ heartbeatTriggerSubscriptions(t)
    BY <2>1, <2>3, JobsAreTodo DEF handleUpdateSubscription, heartbeatTriggerSubscriptions
  <2>4. CASE handleTriggerComplete(t) \/ handleTriggerError(t)
    BY <2>1, <2>4, JobsAreTodo DEF handleTriggerComplete, handleTriggerError
  <2>5. CASE UpdaterDone(t) \/ UpdaterCloseSubscription(t) \/ ReturnUpdater(t)
    BY <2>5 DEF UpdaterDone, UpdaterCloseSubscription, ReturnUpdater
  <2>6. QED
    BY <1>6, <2>2, <2>3, <2>4, <2>5 DEF UpdaterStep
<1>7. ASSUME NEW i \in TriggerIDs, HeartbeatTrigger(i)
      PROVE  Goal
  <2>1. PICK S : jobs' = [jobs EXCEPT ![HB] = JobsOn(S, "heartbeat")]
    BY <1>7 DEF HeartbeatTrigger
  <2>2. QED
    BY <2>1, JobsAreTodo, ThreadsOwn
<1>8. CASE UNCHANGED vars
  BY <1>8 DEF vars, threadVars
<1>9. QED
  BY <1>1, <1>2, <1>3, <1>4, <1>5, <1>6, <1>7, <1>8 DEF Next

\* A write that nothing stops any more.
Passed(j) == j.st = "writing" \/ (j.kind \in Terminal /\ j.st = "checked")

\* A write to a removed subscription gets no further than it was: its next look at removed,
\* which it has still to take unless it is Passed, drops it.
LEMMA RemovedGoesNoFurther ==
    ASSUME TypeOK, NEW th \in Threads, WriteStep(th), NEW s \in removed
    PROVE  \A x \in Threads : \A k \in jobs'[x] : k.sub = s /\ Passed(k) =>
              \E j \in jobs[x] : j.sub = s /\ j.kind = k.kind /\ Passed(j)
<1>1. PICK j \in jobs[th] : \/ CheckWrite(th, j) \/ BeginWrite(th, j)
                            \/ EndWrite(th, j) \/ UnsubscribeFailed(th, j)
  BY DEF WriteStep
<1>2. j \in Job
  BY DEF TypeOK
<1>3. CASE Drop(th, j)
  <2>1. \A x \in Threads : jobs'[x] \subseteq jobs[x]
    BY <1>3 DEF Drop, TypeOK
  <2>2. QED
    BY <2>1
<1>4. ASSUME NEW st, Advance(th, j, st),
             j.sub = s /\ Passed([j EXCEPT !.st = st]) => Passed(j)
      PROVE  \A x \in Threads : \A k \in jobs'[x] : k.sub = s /\ Passed(k) =>
                \E i \in jobs[x] : i.sub = s /\ i.kind = k.kind /\ Passed(i)
  <2>1. [j EXCEPT !.st = st].kind = j.kind /\ [j EXCEPT !.st = st].sub = j.sub
    BY <1>2 DEF Job
  <2>2. /\ jobs'[th] \subseteq jobs[th] \cup {[j EXCEPT !.st = st]}
        /\ \A x \in Threads : x # th => jobs'[x] = jobs[x]
    BY <1>4 DEF Advance, TypeOK
  <2>3. QED
    BY <1>4, <2>1, <2>2
<1>5. \A st : [j EXCEPT !.st = st].kind = j.kind /\ [j EXCEPT !.st = st].st = st
  BY <1>2 DEF Job
<1>6. CASE CheckWrite(th, j)
  <2>1. Drop(th, j) \/ (Advance(th, j, "checked") /\ ~(j.kind \in Terminal /\ j.sub \in removed))
    BY <1>6 DEF CheckWrite
  <2>2. QED
    BY <1>3, <1>4, <1>5, <2>1 DEF Passed
<1>7. CASE BeginWrite(th, j)
  <2>1. Drop(th, j) \/ (Advance(th, j, "writing") /\ ~(j.kind \in Rechecked /\ j.sub \in removed))
    BY <1>7 DEF BeginWrite
  <2>2. j.kind \in Terminal => j.st = "checked"
    BY <1>7 DEF BeginWrite
  <2>3. j.kind \in Rechecked \cup Terminal
    BY <1>2 DEF Job
  <2>4. QED
    BY <1>3, <1>4, <2>1, <2>2, <2>3 DEF Passed
<1>8. CASE EndWrite(th, j)
  <2>1. Drop(th, j) \/ Advance(th, j, "unsubscribe")
    BY <1>8 DEF EndWrite
  <2>2. QED
    BY <1>3, <1>4, <1>5, <2>1 DEF Passed
<1>9. CASE UnsubscribeFailed(th, j)
  BY <1>3, <1>9 DEF UnsubscribeFailed
<1>10. QED
  BY <1>1, <1>6, <1>7, <1>8, <1>9

\* A call that returned before the shutdown was refused or is removed.
LEMMA ReturnedIsRemoved ==
    ASSUME CallersInv, NEW s \in SyncSubs, ReturnedUnforced(s)
    PROVE  joined[s] = NoTrig \/ (s \in removed /\ closes[s] = 1)
BY ConstantsAssumption
   DEF CallersInv, WaitedForCompleted, ReturnedUnforced, SafetyInv, ClosingInv, CompletedClosedOnce

\* After the return no write joins those that nothing stops.
LEMMA NothingJoinsTheWrites ==
    ASSUME CallersInv, [Next]_vars, NEW s \in SyncSubs, ReturnedUnforced(s)
    PROVE  Unstoppable(s)' \subseteq Unstoppable(s)
<1>type. TypeOK
  BY DEF CallersInv, SafetyInv, RegistryInv, TypeInv
<1>1. SUFFICES ASSUME NEW x \in Threads, NEW k \in jobs'[x], k.sub = s, Passed(k)
               PROVE  \E j \in jobs[x] : j.sub = s /\ j.kind = k.kind /\ Passed(j)
  BY DEF Unstoppable, Passed
<1>2. CASE UNCHANGED jobs
  BY <1>1, <1>2
<1>3. ASSUME NEW th \in Threads, NEW J, jobs' = [jobs EXCEPT ![th] = J],
             \A j \in J : j.st = "todo"
      PROVE  \E j \in jobs[x] : j.sub = s /\ j.kind = k.kind /\ Passed(j)
  <2>1. k \notin J
    BY <1>1, <1>3 DEF Passed
  <2>2. x # th
    BY <1>type, <1>1, <1>3, <2>1 DEF TypeOK
  <2>3. k \in jobs[x]
    BY <1>type, <1>1, <1>3, <2>2 DEF TypeOK
  <2>4. QED
    BY <1>1, <2>3
<1>4. ASSUME NEW th \in Threads, WriteStep(th)
      PROVE  \E j \in jobs[x] : j.sub = s /\ j.kind = k.kind /\ Passed(j)
  <2>1. OnlyJoined' /\ joined' = joined
    BY <1>4, JoinedStep DEF CallersInv, SafetyInv, WriteStep, CheckWrite, BeginWrite, EndWrite,
       UnsubscribeFailed, clientVars
  <2>2. joined[s] # NoTrig
    BY <1>1, <2>1 DEF OnlyJoined
  <2>3. s \in removed
    BY <2>2, ReturnedIsRemoved
  <2>4. QED
    BY <1>type, <1>1, <1>4, <2>3, RemovedGoesNoFurther
<1>5. QED
  BY <1>2, <1>3, <1>4, JobMoves

\* A blocking ResolveGraphQLSubscription that has returned, for whatever reason but the
\* resolver's own shutdown, left no entry in the registry and no update, heartbeat or
\* formatted error under way to its client; and the complete and error messages that may
\* still come had looked at removed before it returned: no write joins them afterwards.
THEOREM ReturnedCallStaysQuiet == Spec => ReturnedCallIsQuiet
<1>1. ASSUME CallersInv, NEW s \in SyncSubs, ReturnedUnforced(s)
      PROVE  s \notin byID /\ \A w \in Unstoppable(s) : w[2] \in Terminal
  <2>1. s \in Subs
    BY ConstantsAssumption
  <2>2. CASE s \in removed /\ closes[s] = 1
    <3>1. s \notin byID
      BY <1>1, <2>1, <2>2 DEF CallersInv, SafetyInv, RegistryInv, IndexesAgree
    <3>2. \A th \in Threads : \A j \in jobs[th] :
             j.sub = s /\ j.kind \in Rechecked => j.st # "writing"
      BY <1>1, <2>2 DEF CallersInv, SafetyInv, NoWriteAfterCompleted
    <3>3. QED
      BY <3>1, <3>2 DEF Unstoppable
  <2>3. CASE joined[s] = NoTrig
    <3>1. s \notin byID
      BY <1>1, <2>1, <2>3 DEF CallersInv, SafetyInv, RegistryInv, IndexesAgree
    <3>2. Unstoppable(s) = {}
      BY <1>1, <2>3 DEF CallersInv, OnlyJoined, Unstoppable
    <3>3. QED
      BY <3>1, <3>2
  <2>4. QED
    BY <1>1, <2>2, <2>3, ReturnedIsRemoved
<1>2. CallersInv => \A s \in SyncSubs : ReturnedUnforced(s) =>
                       s \notin byID /\ \A w \in Unstoppable(s) : w[2] \in Terminal
  BY <1>1
<1>3. CallersInv /\ [Next]_vars =>
         [\A s \in SyncSubs : ReturnedUnforced(s) => Unstoppable(s)' \subseteq Unstoppable(s)]_vars
  BY NothingJoinsTheWrites
<1>4. QED
  BY <1>2, <1>3, CallersInvariant, PTL DEF Spec, ReturnedCallIsQuiet

-----------------------------------------------------------------------------
(* The Reporter's count of triggers. markTriggerInitialized stores          *)
(* initialized and counts up outside Resolver.mu, removals look at          *)
(* initialized and count down under it; the count may stay too high (the    *)
(* Reporter is told of a trigger that is gone), never too low.              *)

\* The start goroutines between initialized.Store(true) and TriggerCountInc.
Reporting == {t \in Trigs : start[t] = "report"}

\* Only a trigger that was registered is initialized, or about to be.
InitializedHasID ==
    /\ \A t \in initialized : tid[t] # NoID
    /\ \A t \in Trigs : marking[t] # NoTrig => tid[marking[t]] # NoID

CountsInv == RegistryInv /\ InitializedHasID /\ TriggerCountCovers

\* The step leaves alone what the count is about.
Uncounted ==
    /\ UNCHANGED <<trigCount, triggers, tid, initialized, marking>>
    /\ Reporting' = Reporting

\* What a step does to the count.
CountMoves ==
    \/ Uncounted
    \/ \E s \in Subs, id \in TriggerIDs, t \in Trigs : CreateTrigger(s, id, t)
    \/ Removal /\ UNCHANGED <<tid, initialized, marking>> /\ Reporting' = Reporting
    \/ \E t \in Trigs :
          markTriggerInitialized(t) \/ StoreInitialized(t) \/ ReportInitialized(t)

\* One step per action of Next.
LEMMA CountMovesStep ==
    ASSUME RegistryInv, [Next]_vars PROVE CountMoves
<1>type. TypeOK
  BY DEF RegistryInv, TypeInv
<1>1. ASSUME UNCHANGED <<registryVars, tid, initialized, marking, start>>
      PROVE  CountMoves
  BY <1>1 DEF CountMoves, Uncounted, Reporting, registryVars
<1>unsub. ASSUME NEW owner \in Owners, NEW s \in Subs, UnsubscribeSubscription(owner, s),
                 UNCHANGED <<tid, initialized, marking, start>>
          PROVE  CountMoves
  BY <1>1, <1>unsub, UnsubscribeRemoves DEF CountMoves, Reporting
<1>done. ASSUME NEW t \in Trigs, tid[t] # NoID, NEW owner \in Owners,
                doneTriggerFromUpdater(owner, tid[t]),
                UNCHANGED <<tid, initialized, marking>>, Reporting' = Reporting
         PROVE  CountMoves
  <2>1. tid[t] \in TriggerIDs
    BY <1>done, <1>type DEF TypeOK
  <2>2. QED
    BY <1>done, <2>1, DoneRemoves DEF CountMoves
<1>add. ASSUME NEW s \in Subs, NEW id \in TriggerIDs, addSubscription(s, id)
        PROVE  CountMoves
  BY <1>1, <1>add DEF addSubscription, RejectSubscription, JoinTrigger, CountMoves, Uncounted,
     Reporting, triggerVars, threadVars
<1>client. ASSUME NEW s \in Subs, ClientUnsubscribes(s) \/ CancelClient(s)
           PROVE  CountMoves
  BY <1>1, <1>unsub, <1>client, ThreadsOwn DEF ClientUnsubscribes, CancelClient, triggerVars,
     threadVars
<1>conn. ASSUME NEW c \in Conns, UnsubscribeClient(c)
         PROVE  CountMoves
  <2>1. byConn[c] \in SUBSET Subs
    BY <1>type DEF TypeOK
  <2>2. removeSubscriptionsLocked(Client, byConn[c]) /\ shutdown' = shutdown
    BY <1>conn DEF UnsubscribeClient
  <2>3. Removal
    BY <2>1, <2>2, LockedArgs, ThreadsOwn DEF Removal
  <2>4. QED
    BY <1>conn, <2>3 DEF UnsubscribeClient, CountMoves, Reporting, triggerVars, threadVars
<1>env. CASE \/ CancelResolver \/ HeartbeatTick
             \/ \E t \in Trigs, op \in UpdaterOps : CallUpdater(t, op)
  BY <1>1, <1>env DEF CancelResolver, HeartbeatTick, CallUpdater, triggerVars, threadVars
<1>shutdown. CASE shutdownResolver
  BY <1>shutdown, ShutdownRemoves DEF shutdownResolver, CountMoves, Reporting, triggerVars,
     threadVars
<1>tail. ASSUME NEW s \in Subs, TailStep(s)
         PROVE  CountMoves
  BY <1>tail DEF TailStep, CloseCompleted, CountMoves, Uncounted, Reporting, triggerVars, threadVars
<1>cancel. ASSUME NEW t \in Trigs, CancelStep(t)
           PROVE  CountMoves
  BY <1>cancel DEF CancelStep, CancelTrigger, CountMoves, Uncounted, Reporting, threadVars
<1>caller. ASSUME NEW s \in Subs, CallerGoroutine(s)
           PROVE  CountMoves
  BY <1>1, <1>unsub, <1>caller, ThreadsOwn DEF CallerGoroutine, CallerSeesCancel,
     CallerUnsubscribes, CallerSeesCompleted, CallerSeesShutdown, triggerVars, threadVars
<1>write. ASSUME NEW th \in Threads, WriteStep(th)
          PROVE  CountMoves
  <2>1. PICK j \in jobs[th] : \/ CheckWrite(th, j) \/ BeginWrite(th, j)
                              \/ EndWrite(th, j) \/ UnsubscribeFailed(th, j)
    BY <1>write DEF WriteStep
  <2>2. j.sub \in Subs
    BY <1>type DEF TypeOK, Job
  <2>3. QED
    BY <1>1, <1>unsub, <2>1, <2>2, ThreadsOwn DEF CheckWrite, BeginWrite, EndWrite,
       UnsubscribeFailed, triggerVars
<1>upd. ASSUME NEW t \in Trigs, UpdaterStep(t)
        PROVE  CountMoves
  <2>1. CASE UpdaterDone(t)
    <3>1. tid[t] # NoID
      BY <2>1 DEF UpdaterDone, RegistryInv, TypeInv, StartedHasID
    <3>2. QED
      BY <1>done, <2>1, <3>1, ThreadsOwn DEF UpdaterDone, Reporting, triggerVars
  <2>2. CASE UpdaterCloseSubscription(t)
    BY <1>unsub, <2>2, ThreadsOwn DEF UpdaterCloseSubscription, triggerVars
  <2>3. CASE ~UpdaterDone(t) /\ ~UpdaterCloseSubscription(t)
    BY <1>1, <1>upd, <2>3 DEF UpdaterStep, handleTriggerUpdate, handleUpdateSubscription,
       heartbeatTriggerSubscriptions, handleTriggerComplete, handleTriggerError, ReturnUpdater,
       Deliver, triggerVars
  <2>4. QED
    BY <2>1, <2>2, <2>3
<1>start. ASSUME NEW t \in Trigs, StartGoroutine(t)
          PROVE  CountMoves
  <2>1. CASE markTriggerInitialized(t) \/ StoreInitialized(t) \/ ReportInitialized(t)
    BY <2>1 DEF CountMoves
  <2>2. CASE StartHookReturns(t) \/ SourceStarted(t) \/ StartFails(t) \/ StartTeardown(t)
    <3>1. Reporting' = Reporting /\ start[t] # "none"
      BY <1>type, <2>2 DEF StartHookReturns, SourceStarted, StartFails, StartTeardown, StartStep,
                           Reporting, TypeOK
    <3>2. CASE StartTeardown(t)
      BY <1>done, <3>1, <3>2, ThreadsOwn DEF StartTeardown, RegistryInv, TypeInv, StartedHasID,
                                             triggerVars
    <3>3. CASE ~StartTeardown(t)
      BY <2>2, <3>1, <3>3 DEF StartHookReturns, SourceStarted, StartFails, CountMoves, Uncounted,
                              registryVars, triggerVars
    <3>4. QED
      BY <3>2, <3>3
  <2>3. QED
    BY <1>start, <2>1, <2>2 DEF StartGoroutine
<1>hook. ASSUME NEW s \in Subs, HookGoroutine(s)
         PROVE  CountMoves
  BY <1>1, <1>unsub, <1>hook, ThreadsOwn DEF HookGoroutine, HookReturns, HookTeardown, triggerVars
<1>beat. ASSUME NEW i \in TriggerIDs, HeartbeatTrigger(i)
         PROVE  CountMoves
  BY <1>1, <1>beat DEF HeartbeatTrigger, triggerVars
<1>stutter. CASE UNCHANGED vars
  BY <1>1, <1>stutter DEF vars, triggerVars, threadVars
<1>qed. QED
  BY <1>add, <1>client, <1>conn, <1>env, <1>shutdown, <1>tail, <1>cancel, <1>caller, <1>write,
     <1>upd, <1>start, <1>hook, <1>beat, <1>stutter DEF Next, Environment

-----------------------------------------------------------------------------

\* What the count is compared with.
Counted == Registered \cap initialized

\* The sets that are counted are finite.
LEMMA CountedFinite ==
    ASSUME TypeOK
    PROVE  /\ IsFiniteSet(Reporting) /\ Cardinality(Reporting) \in Nat
           /\ IsFiniteSet(Counted) /\ Cardinality(Counted) \in Nat
<1>1. Reporting \subseteq Trigs /\ Counted \subseteq Trigs
  BY DEF Reporting, Counted, TypeOK
<1>2. QED
  BY <1>1, FS_Subset, FS_CardinalityType, ConstantsAssumption

\* A trigger is initialized after it got its id, which it keeps.
LEMMA InitializedStep ==
    ASSUME RegistryInv, InitializedHasID, [Next]_vars
    PROVE  InitializedHasID'
<1>type. TypeOK /\ StartedHasID
  BY DEF RegistryInv, TypeInv
<1>1. CASE UNCHANGED <<tid, initialized, marking>>
  BY <1>1 DEF InitializedHasID
<1>2. ASSUME NEW s \in Subs, NEW id \in TriggerIDs, NEW t \in Trigs, CreateTrigger(s, id, t)
      PROVE  InitializedHasID'
  BY <1>type, <1>2, ConstantsAssumption DEF CreateTrigger, InitializedHasID, TypeOK
<1>3. ASSUME NEW t \in Trigs, markTriggerInitialized(t)
      PROVE  InitializedHasID'
  <2>1. tid[t] \in TriggerIDs
    BY <1>type, <1>3 DEF markTriggerInitialized, StartStep, StartedHasID, TypeOK
  <2>2. triggers[tid[t]] # NoTrig => tid[triggers[tid[t]]] # NoID
    BY <1>type, <2>1, ConstantsAssumption DEF StartedHasID
  <2>3. QED
    BY <1>type, <1>3, <2>2 DEF markTriggerInitialized, InitializedHasID, TypeOK
<1>4. ASSUME NEW t \in Trigs, StoreInitialized(t)
      PROVE  InitializedHasID'
  BY <1>type, <1>4 DEF StoreInitialized, StartStep, StartedHasID, InitializedHasID
<1>5. ASSUME NEW t \in Trigs, ReportInitialized(t)
      PROVE  InitializedHasID'
  BY <1>1, <1>5 DEF ReportInitialized, triggerVars
<1>6. QED
  BY <1>1, <1>2, <1>3, <1>4, <1>5, CountMovesStep DEF CountMoves, Uncounted

\* No step lowers the count by more than the initialized triggers it unregisters.
LEMMA CoversStep ==
    ASSUME RegistryInv, InitializedHasID, TriggerCountCovers, [Next]_vars
    PROVE  TriggerCountCovers'
<1> DEFINE R == Cardinality(Reporting)
           C == Cardinality(Counted)
<1>type. TypeOK /\ StartedHasID /\ TypeOK'
  BY TypeStep DEF RegistryInv, TypeInv
<1>fin. /\ IsFiniteSet(Reporting) /\ R \in Nat /\ IsFiniteSet(Counted) /\ C \in Nat
        /\ IsFiniteSet(Reporting') /\ R' \in Nat /\ IsFiniteSet(Counted') /\ C' \in Nat
        /\ trigCount \in Int /\ trigCount' \in Int
  <2>1. IsFiniteSet(Reporting') /\ R' \in Nat /\ IsFiniteSet(Counted') /\ C' \in Nat
    <3>1. Reporting' \subseteq Trigs /\ Counted' \subseteq Trigs
      BY <1>type DEF Reporting, Counted, TypeOK
    <3>2. QED
      BY <3>1, FS_Subset, FS_CardinalityType, ConstantsAssumption
  <2>2. QED
    BY <1>type, <2>1, CountedFinite DEF TypeOK
<1>goal. TriggerCountCovers' <=> trigCount' + R' >= C'
  BY DEF TriggerCountCovers, Reporting, Counted
<1>was. trigCount + R >= C
  BY DEF TriggerCountCovers, Reporting, Counted
<1> HIDE DEF R, C
<1>1. ASSUME trigCount' = trigCount, Reporting' = Reporting, Counted' = Counted
      PROVE  TriggerCountCovers'
  BY <1>goal, <1>was, <1>1 DEF R, C
<1>2. CASE Uncounted
  BY <1>1, <1>2 DEF Uncounted, Counted, Registered
<1>3. ASSUME NEW s \in Subs, NEW id \in TriggerIDs, NEW t \in Trigs, CreateTrigger(s, id, t)
      PROVE  TriggerCountCovers'
  <2>1. t \notin initialized
    BY <1>3 DEF CreateTrigger, InitializedHasID
  <2>2. \A i \in TriggerIDs : triggers'[i] = IF i = id THEN t ELSE triggers[i]
    BY <1>3, <1>type DEF CreateTrigger, TypeOK
  <2>3. Registered' = Registered \cup {t}
    BY <1>3, <2>2, ConstantsAssumption DEF CreateTrigger, Registered
  <2>4. Counted' = Counted
    BY <1>3, <2>1, <2>3 DEF CreateTrigger, Counted
  <2>5. Reporting' = Reporting
    <3>1. start[t] # "report"
      BY <1>3, <1>type DEF CreateTrigger, StartedHasID
    <3>2. QED
      BY <1>3, <1>type, <3>1 DEF CreateTrigger, Reporting, TypeOK
  <2>6. QED
    BY <1>1, <1>3, <2>4, <2>5 DEF CreateTrigger
<1>4. ASSUME Removal, UNCHANGED <<tid, initialized, marking>>, Reporting' = Reporting
      PROVE  TriggerCountCovers'
  <2>1. PICK owner \in Owners, U \in SUBSET Subs, S \in SUBSET Subs, T \in SUBSET Trigs :
           RemovalArgs(U, S, T) /\ Teardown(owner, U, S, T)
    BY <1>4 DEF Removal
  <2>2. Registered' = Registered \ T /\ T \subseteq Registered
    BY <1>type, <2>1, RemovedTriggers DEF RemovalArgs
  <2>3. trigCount' = trigCount - Cardinality(T \cap initialized)
    BY <2>1 DEF Teardown, CountRemoved
  <2> DEFINE Z == T \cap initialized
  <2>4. Counted' = Counted \ Z /\ Counted \cap Z = Z /\ Z \in SUBSET Counted
    BY <1>4, <2>2 DEF Counted
  <2> HIDE DEF Z
  <2>5. C' = C - Cardinality(Z)
    <3>1. Cardinality(Counted \ Z) = Cardinality(Counted) - Cardinality(Counted \cap Z)
      BY <1>fin, FS_Difference
    <3>2. QED
      BY <2>4, <3>1 DEF C
  <2>6. Cardinality(Z) \in Nat /\ trigCount' = trigCount - Cardinality(Z)
    BY <1>fin, <2>3, <2>4, FS_Subset, FS_CardinalityType DEF Z
  <2>7. R' = R
    BY <1>4 DEF R
  <2>8. QED
    BY <1>goal, <1>was, <1>fin, <2>5, <2>6, <2>7
<1>5. ASSUME NEW t \in Trigs, markTriggerInitialized(t)
      PROVE  TriggerCountCovers'
  <2>1. UNCHANGED <<trigCount, triggers, initialized>>
    BY <1>5 DEF markTriggerInitialized, registryVars
  <2>2. Reporting' = Reporting
    BY <1>type, <1>5 DEF markTriggerInitialized, StartStep, Reporting, TypeOK
  <2>3. QED
    BY <1>1, <2>1, <2>2 DEF Counted, Registered
<1>6. ASSUME NEW t \in Trigs, StoreInitialized(t)
      PROVE  TriggerCountCovers'
  <2>1. t \notin Reporting /\ Reporting' = Reporting \cup {t}
    BY <1>type, <1>6 DEF StoreInitialized, StartStep, Reporting, TypeOK
  <2>2. R' = R + 1
    BY <1>fin, <2>1, FS_AddElement DEF R
  <2>3. Counted' \subseteq Counted \cup {marking[t]}
    BY <1>6 DEF StoreInitialized, registryVars, Counted, Registered
  <2>4. IsFiniteSet(Counted \cup {marking[t]}) /\ Cardinality(Counted \cup {marking[t]}) <= C + 1
    <3>1. /\ IsFiniteSet(Counted \cup {marking[t]})
          /\ Cardinality(Counted \cup {marking[t]}) =
                IF marking[t] \in Counted THEN C ELSE C + 1
      BY <1>fin, FS_AddElement DEF C
    <3>2. QED
      BY <1>fin, <3>1
  <2>5. Cardinality(Counted \cup {marking[t]}) \in Nat
    BY <2>4, FS_CardinalityType
  <2>6. C' <= Cardinality(Counted \cup {marking[t]})
    BY <2>3, <2>4, FS_Subset DEF C
  <2>7. trigCount' = trigCount
    BY <1>6 DEF StoreInitialized, registryVars
  <2>8. QED
    BY <1>goal, <1>was, <1>fin, <2>2, <2>4, <2>5, <2>6, <2>7
<1>7. ASSUME NEW t \in Trigs, ReportInitialized(t)
      PROVE  TriggerCountCovers'
  <2>1. t \in Reporting /\ Reporting' = Reporting \ {t}
    BY <1>type, <1>7 DEF ReportInitialized, StartStep, Reporting, TypeOK
  <2>2. R' = R - 1
    BY <1>fin, <2>1, FS_RemoveElement DEF R
  <2>3. trigCount' = trigCount + 1 /\ Counted' = Counted
    BY <1>7 DEF ReportInitialized, triggerVars, Counted, Registered
  <2>4. C' = C
    BY <2>3 DEF C
  <2>5. QED
    BY <1>goal, <1>was, <1>fin, <2>2, <2>3, <2>4
<1>8. QED
  BY <1>2, <1>3, <1>4, <1>5, <1>6, <1>7, CountMovesStep DEF CountMoves

\* Although initialized and the count are written outside Resolver.mu, the count of
\* triggers, with the increments under way, never falls below the number of initialized
\* triggers in the registry, for any number of goroutines that start and remove triggers.
THEOREM TriggerCountNeverLow == Spec => []TriggerCountCovers
<1>1. Init => CountsInv
  <2> SUFFICES ASSUME Init PROVE CountsInv
    OBVIOUS
  <2>1. RegistryInv /\ TypeOK
    BY RegistryInit DEF RegistryInv, TypeInv
  <2>2. InitializedHasID
    BY DEF Init, InitializedHasID
  <2>3. Counted = {} /\ Reporting = {} /\ trigCount = 0
    BY DEF Init, Counted, Reporting
  <2>4. TriggerCountCovers
    BY <2>3, FS_EmptySet DEF TriggerCountCovers, Counted, Reporting
  <2>5. QED
    BY <2>1, <2>2, <2>4 DEF CountsInv
<1>2. CountsInv /\ [Next]_vars => CountsInv'
  BY RegistryStep, InitializedStep, CoversStep DEF CountsInv
<1>3. CountsInv => TriggerCountCovers
  BY DEF CountsInv
<1>4. QED
  BY <1>1, <1>2, <1>3, PTL DEF Spec
=============================================================================
