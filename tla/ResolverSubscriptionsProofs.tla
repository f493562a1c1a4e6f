--------------------- MODULE ResolverSubscriptionsProofs ---------------------
(***************************************************************************)
(* The type invariant and the safety invariants of ResolverSubscriptions,  *)
(* for any number of subscriptions, connections, trigger ids and trigger   *)
(* structs.                                                                *)
(***************************************************************************)
EXTENDS ResolverSubscriptions, FiniteSetTheorems, TLAPS

\* A trigger that is being started, called back or subscribed to has its id, it is
\* registered under that id, and markTriggerInitialized stores only into a trigger it found.
StartedHasID ==
    /\ \A t \in Trigs : start[t] # "none" => tid[t] # NoID
    /\ \A t \in Trigs : upd[t] # "idle" => tid[t] # NoID
    /\ \A s \in Subs : joined[s] # NoTrig => tid[joined[s]] # NoID
    /\ \A t \in Trigs : start[t] = "store" => marking[t] # NoTrig
    /\ \A i \in TriggerIDs : triggers[i] # NoTrig => tid[triggers[i]] = i

TypeInv == TypeOK /\ StartedHasID

\* The part of TypeOK about the variables a removal changes.
RegistryType ==
    /\ triggers \in [TriggerIDs -> Trigs \cup {NoTrig}]
    /\ tsubs \in [Trigs -> SUBSET Subs]
    /\ byID \subseteq Subs
    /\ byConn \in [Conns -> SUBSET Subs]
    /\ removed \subseteq Subs
    /\ subCount \in Int /\ trigCount \in Int
    /\ tails \subseteq Tail

\* A removal leaves the registry typed and registers nothing.
RegistryShrinks ==
    /\ RegistryType'
    /\ \A i \in TriggerIDs : triggers'[i] \in {triggers[i], NoTrig}

\* The arguments of a removal are typed, so what it leaves in the registry is.
LEMMA TeardownTyped ==
    ASSUME TypeOK, NEW owner \in Owners, NEW U, NEW S \in SUBSET Subs, NEW T \in SUBSET Trigs,
           Teardown(owner, U, S, T)
    PROVE  RegistryShrinks
<1>1. IsFiniteSet(S) /\ IsFiniteSet(T \cap initialized)
  <2>1. IsFiniteSet(S)
    BY FS_Subset, ConstantsAssumption
  <2>2. T \cap initialized \subseteq Trigs
    OBVIOUS
  <2>3. QED
    BY <2>1, <2>2, FS_Subset, ConstantsAssumption
<1>2. Cardinality(S) \in Nat /\ Cardinality(T \cap initialized) \in Nat
  BY <1>1, FS_CardinalityType
<1>3. subCount' \in Int /\ trigCount' \in Int
  BY <1>2 DEF Teardown, CountRemoved, TypeOK
<1>4. tails' \subseteq Tail
  <2> DEFINE tl == [owner |-> owner, close |-> S \ removed, cancel |-> T]
  <2>1. tl \in Tail
    BY DEF Tail
  <2>2. tails' \subseteq tails \cup {tl}
    BY DEF Teardown, LeaveTail
  <2>3. tails \subseteq Tail
    BY DEF TypeOK
  <2>4. QED
    BY <2>1, <2>2, <2>3
<1>5. QED
  BY <1>3, <1>4 DEF Teardown, MarkRemoved, TypeOK, RegistryType, RegistryShrinks

\* The registry holds trigger structs, and so does any lookup by id.
LEMMA RegisteredTyped ==
    ASSUME TypeOK
    PROVE  Registered \subseteq Trigs /\ \A i \in TriggerIDs : TriggersAt({i}) \subseteq Trigs
BY DEF TypeOK, Registered, TriggersAt

\* A removal finds only what it was asked to remove.
LEMMA FoundSubset ==
    ASSUME NEW S PROVE Found(S) \subseteq S
BY DEF Found

\* UnsubscribeSubscription leaves a typed registry, before and after the shutdown.
LEMMA UnsubscribeTyped ==
    ASSUME TypeOK, NEW owner \in Owners, NEW s \in Subs, UnsubscribeSubscription(owner, s)
    PROVE  /\ RegistryShrinks
           /\ shutdown' = shutdown
<1>1. CASE shutdown
  BY <1>1 DEF UnsubscribeSubscription, registryVars, RegistryShrinks, RegistryType, TypeOK
<1>2. CASE ~shutdown
  <2> DEFINE F == Found({s})
             T == {t \in Registered : tsubs[t] \cap F # {} /\ tsubs[t] \subseteq F}
  <2>1. F \in SUBSET Subs
    BY FoundSubset
  <2>2. T \in SUBSET Trigs
    BY RegisteredTyped
  <2>3. Teardown(owner, {s}, F, T) /\ shutdown' = shutdown
    BY <1>2 DEF UnsubscribeSubscription, removeSubscriptionsLocked
  <2> HIDE DEF F, T
  <2>4. QED
    BY <2>1, <2>2, <2>3, TeardownTyped DEF RegistryShrinks, RegistryType, TypeOK
<1>3. QED
  BY <1>1, <1>2 DEF TypeOK

\* What triggers hold are subscriptions.
LEMMA UnionTyped ==
    ASSUME TypeOK, NEW T \in SUBSET Trigs
    PROVE  UNION {tsubs[t] : t \in T} \in SUBSET Subs
<1> SUFFICES ASSUME NEW s \in UNION {tsubs[t] : t \in T} PROVE s \in Subs
  OBVIOUS
<1>1. PICK t \in T : s \in tsubs[t]
  OBVIOUS
<1>2. tsubs[t] \subseteq Subs
  BY DEF TypeOK
<1>3. QED
  BY <1>1, <1>2

\* The same for doneTriggerFromUpdater.
LEMMA DoneTyped ==
    ASSUME TypeOK, NEW owner \in Owners, NEW id \in TriggerIDs, doneTriggerFromUpdater(owner, id)
    PROVE  /\ RegistryShrinks
           /\ shutdown' = shutdown
<1> DEFINE T == TriggersAt({id})
           S == UNION {tsubs[t] : t \in T}
<1>1. T \in SUBSET Trigs
  BY RegisteredTyped
<1>2. S \in SUBSET Subs
  BY <1>1, UnionTyped
<1>3. Teardown(owner, S, S, T) /\ shutdown' = shutdown
  BY DEF doneTriggerFromUpdater, detachTriggerLocked
<1> HIDE DEF T, S
<1>4. QED
  BY <1>1, <1>2, <1>3, TeardownTyped DEF RegistryShrinks, RegistryType, TypeOK

\* Writes owed to subscriptions are jobs.
LEMMA JobsTyped ==
    ASSUME NEW S \in SUBSET Subs, NEW k \in Rechecked \cup Terminal
    PROVE  JobsOn(S, k) \in SUBSET Job
BY DEF JobsOn, Job

\* A write that goes on or ends leaves jobs.
LEMMA AdvanceTyped ==
    ASSUME TypeOK, NEW th \in Threads, NEW j \in jobs[th],
           NEW st \in {"todo", "checked", "writing", "unsubscribe"},
           Drop(th, j) \/ Advance(th, j, st)
    PROVE  jobs' \in [Threads -> SUBSET Job]
<1>1. j \in Job
  BY DEF TypeOK
<1>2. [j EXCEPT !.st = st] \in Job
  BY <1>1 DEF Job
<1>3. QED
  BY <1>2 DEF TypeOK, Drop, Advance

\* Every goroutine that writes or removes may own a removal's tail.
LEMMA ThreadsOwn ==
    /\ Threads \subseteq Owners
    /\ \A t \in Trigs : Upd(t) \in Threads /\ Start(t) \in Threads
    /\ \A s \in Subs : Hook(s) \in Threads /\ Caller(s) \in Owners
    /\ HB \in Threads /\ Client \in Owners /\ AfterFunc \in Owners
BY DEF Threads, Owners

\* Every operation keeps the types.  One step per action of Next.
LEMMA TypeStep == TypeInv /\ [Next]_vars => TypeInv'
<1> SUFFICES ASSUME TypeOK, StartedHasID, [Next]_vars
             PROVE  TypeOK' /\ StartedHasID'
  BY DEF TypeInv
<1> USE ConstantsAssumption
<1> DEFINE Goal == TypeOK' /\ StartedHasID'
<1>add. ASSUME NEW s \in Subs, NEW id \in TriggerIDs, addSubscription(s, id)
        PROVE  Goal
  <2>1. CASE RejectSubscription(s)
    BY <2>1 DEF RejectSubscription, TypeOK, StartedHasID, registryVars, triggerVars, threadVars
  <2>2. CASE JoinTrigger(s, id)
    <3>1. triggers[id] \in Trigs /\ tid[triggers[id]] # NoID
      BY <2>2 DEF JoinTrigger, TypeOK, StartedHasID
    <3>2. QED
      BY <2>2, <3>1 DEF JoinTrigger, registerSubscriptionLocked, TypeOK, StartedHasID, triggerVars
  <2>3. ASSUME NEW t \in Trigs, CreateTrigger(s, id, t)
        PROVE  Goal
    BY <2>3 DEF CreateTrigger, registerSubscriptionLocked, TypeOK, StartedHasID
  <2>4. QED
    BY <1>add, <2>1, <2>2, <2>3 DEF addSubscription
<1>client. ASSUME NEW s \in Subs, ClientUnsubscribes(s) \/ CancelClient(s)
           PROVE  Goal
  <2>1. CASE ClientUnsubscribes(s)
    <3>1. RegistryShrinks /\ shutdown' = shutdown
      BY <2>1, UnsubscribeTyped, ThreadsOwn DEF ClientUnsubscribes
    <3>2. QED
      BY <2>1, <3>1 DEF ClientUnsubscribes, RegistryShrinks, RegistryType, TypeOK,
                        StartedHasID, triggerVars, clientVars, threadVars
  <2>2. CASE CancelClient(s)
    BY <2>2 DEF CancelClient, TypeOK, StartedHasID, registryVars, triggerVars, threadVars
  <2>3. QED
    BY <1>client, <2>1, <2>2
<1>conn. ASSUME NEW c \in Conns, UnsubscribeClient(c)
         PROVE  Goal
  <2> DEFINE F == Found(byConn[c])
             T == {t \in Registered : tsubs[t] \cap F # {} /\ tsubs[t] \subseteq F}
  <2>1. F \in SUBSET Subs
    BY FoundSubset DEF TypeOK
  <2>2. T \in SUBSET Trigs
    BY RegisteredTyped
  <2>3. Teardown(Client, byConn[c], F, T)
    BY <1>conn DEF UnsubscribeClient, removeSubscriptionsLocked
  <2> HIDE DEF F, T
  <2>4. RegistryShrinks
    BY <2>1, <2>2, <2>3, TeardownTyped, ThreadsOwn
  <2>5. QED
    BY <1>conn, <2>4 DEF UnsubscribeClient, RegistryShrinks, RegistryType, TypeOK,
                         StartedHasID, triggerVars, clientVars, threadVars
<1>cancel. CASE CancelResolver
  BY <1>cancel DEF CancelResolver, TypeOK, StartedHasID, registryVars, triggerVars, threadVars
<1>call. ASSUME NEW t \in Trigs, NEW op \in UpdaterOps, CallUpdater(t, op)
         PROVE  Goal
  <2>1. tid[t] # NoID
    BY <1>call DEF CallUpdater, MayCall, StartedHasID
  <2>2. updDone' \subseteq Trigs
    BY <1>call DEF CallUpdater, TypeOK
  <2>3. QED
    BY <1>call, <2>1, <2>2 DEF CallUpdater, TypeOK, StartedHasID, registryVars, clientVars
<1>tick. CASE HeartbeatTick
  BY <1>tick DEF HeartbeatTick, TypeOK, StartedHasID, registryVars, triggerVars, clientVars
<1>shutdown. CASE shutdownResolver
  <2> DEFINE S == UNION {tsubs[t] : t \in Registered}
  <2>1. S \in SUBSET Subs
    BY RegisteredTyped, UnionTyped
  <2>2. Teardown(AfterFunc, Subs, S, Registered)
    BY <1>shutdown DEF shutdownResolver
  <2> HIDE DEF S
  <2>3. RegistryShrinks
    BY <2>1, <2>2, TeardownTyped, RegisteredTyped, ThreadsOwn
  <2>4. QED
    BY <1>shutdown, <2>3 DEF shutdownResolver, RegistryShrinks, RegistryType, TypeOK,
                             StartedHasID, triggerVars, clientVars, threadVars
<1>tail. ASSUME NEW s \in Subs, TailStep(s)
         PROVE  Goal
  <2>1. PICK tl \in tails : CloseCompleted(tl, s)
    BY <1>tail DEF TailStep
  <2>2. tl \in Tail
    BY DEF TypeOK
  <2>3. [tl EXCEPT !.close = @ \ {s}] \in Tail
    BY <2>2 DEF Tail
  <2>4. tails' \subseteq Tail
    BY <2>1, <2>3 DEF CloseCompleted, TypeOK
  <2>5. QED
    BY <2>1, <2>4 DEF CloseCompleted, TypeOK, StartedHasID, triggerVars, threadVars
<1>cancelTrig. ASSUME NEW t \in Trigs, CancelStep(t)
               PROVE  Goal
  <2>1. PICK tl \in tails : CancelTrigger(tl, t)
    BY <1>cancelTrig DEF CancelStep
  <2>2. tl \in Tail
    BY DEF TypeOK
  <2>3. [tl EXCEPT !.cancel = @ \ {t}] \in Tail
    BY <2>2 DEF Tail
  <2>4. tails' \subseteq Tail
    BY <2>1, <2>3 DEF CancelTrigger, TypeOK
  <2>5. QED
    BY <2>1, <2>4 DEF CancelTrigger, TypeOK, StartedHasID, clientVars, threadVars
<1>write. ASSUME NEW th \in Threads, WriteStep(th)
          PROVE  Goal
  <2>1. PICK j \in jobs[th] : \/ CheckWrite(th, j) \/ BeginWrite(th, j)
                              \/ EndWrite(th, j) \/ UnsubscribeFailed(th, j)
    BY <1>write DEF WriteStep
  <2>2. j.sub \in Subs
    BY DEF TypeOK, Job
  <2>3. jobs' \in [Threads -> SUBSET Job]
    BY <2>1, AdvanceTyped DEF CheckWrite, BeginWrite, EndWrite, UnsubscribeFailed
  <2>4. CASE CheckWrite(th, j) \/ BeginWrite(th, j) \/ EndWrite(th, j)
    <3>1. UNCHANGED <<registryVars, triggerVars, clientVars, hook, start, upd, hbIDs>>
      BY <2>4 DEF CheckWrite, BeginWrite, EndWrite
    <3>2. QED
      BY <2>3, <3>1 DEF TypeOK, StartedHasID, registryVars, triggerVars, clientVars
  <2>5. CASE UnsubscribeFailed(th, j)
    <3>1. RegistryShrinks /\ shutdown' = shutdown
      BY <2>2, <2>5, UnsubscribeTyped, ThreadsOwn DEF UnsubscribeFailed
    <3>2. QED
      BY <2>3, <2>5, <3>1 DEF UnsubscribeFailed, RegistryShrinks, RegistryType, TypeOK,
                              StartedHasID, triggerVars, clientVars
  <2>6. QED
    BY <2>1, <2>4, <2>5
<1>upd. ASSUME NEW t \in Trigs, UpdaterStep(t)
        PROVE  Goal
  <2>1. ASSUME NEW J \in SUBSET Job, upd[t] # "idle", Deliver(t, J)
        PROVE  Goal
    <3>1. jobs' \in [Threads -> SUBSET Job]
      BY <2>1, ThreadsOwn DEF Deliver, TypeOK
    <3>2. upd' \in [Trigs -> UpdaterOps \cup {"idle", "running"}]
      BY <2>1 DEF Deliver, TypeOK
    <3>3. QED
      BY <2>1, <3>1, <3>2 DEF Deliver, TypeOK, StartedHasID, registryVars, triggerVars, clientVars
  <2>id. upd[t] # "idle" => tid[t] \in TriggerIDs
    BY DEF StartedHasID, TypeOK
  <2>targets. upd[t] # "idle" => Targets(t) \in SUBSET Subs
    BY <2>id, RegisteredTyped, UnionTyped DEF Targets
  <2>2. CASE handleTriggerUpdate(t)
    <3>1. PICK S \in SUBSET (Targets(t) \ ctxDone) : \E E \in SUBSET S :
             Deliver(t, JobsOn(S \ E, "data") \cup JobsOn(E, "writeError"))
      BY <2>2 DEF handleTriggerUpdate
    <3> PICK E \in SUBSET S : Deliver(t, JobsOn(S \ E, "data") \cup JobsOn(E, "writeError"))
      BY <3>1
    <3>2. S \in SUBSET Subs /\ upd[t] # "idle"
      BY <2>2, <2>targets DEF handleTriggerUpdate
    <3>3. JobsOn(S \ E, "data") \cup JobsOn(E, "writeError") \in SUBSET Job
      BY <3>2, JobsTyped DEF Rechecked, Terminal
    <3>4. QED
      BY <2>1, <3>1, <3>2, <3>3
  <2>3. CASE handleUpdateSubscription(t)
    <3>1. PICK S \in SUBSET (Targets(t) \ ctxDone), k \in {"data", "writeError"} :
             Deliver(t, JobsOn(S, k))
      BY <2>3 DEF handleUpdateSubscription
    <3>2. S \in SUBSET Subs /\ upd[t] # "idle"
      BY <2>3, <2>targets DEF handleUpdateSubscription
    <3>3. JobsOn(S, k) \in SUBSET Job
      BY <3>2, JobsTyped DEF Rechecked, Terminal
    <3>4. QED
      BY <2>1, <3>1, <3>2, <3>3
  <2>4. CASE heartbeatTriggerSubscriptions(t)
    <3>1. PICK S \in SUBSET (Targets(t) \ removed) : Deliver(t, JobsOn(S, "heartbeat"))
      BY <2>4 DEF heartbeatTriggerSubscriptions
    <3>2. S \in SUBSET Subs /\ upd[t] # "idle"
      BY <2>4, <2>targets DEF heartbeatTriggerSubscriptions
    <3>3. JobsOn(S, "heartbeat") \in SUBSET Job
      BY <3>2, JobsTyped DEF Rechecked, Terminal
    <3>4. QED
      BY <2>1, <3>1, <3>2, <3>3
  <2>5. CASE handleTriggerComplete(t) \/ handleTriggerError(t)
    <3>1. PICK k \in Terminal : Deliver(t, JobsOn(Targets(t), k))
      BY <2>5 DEF handleTriggerComplete, handleTriggerError, Terminal
    <3>2. upd[t] # "idle"
      BY <2>5 DEF handleTriggerComplete, handleTriggerError
    <3>3. JobsOn(Targets(t), k) \in SUBSET Job
      BY <2>targets, <3>2, JobsTyped
    <3>4. QED
      BY <2>1, <3>1, <3>2, <3>3
  <2>6. CASE UpdaterDone(t)
    <3>1. RegistryShrinks /\ shutdown' = shutdown
      BY <2>6, <2>id, DoneTyped, ThreadsOwn DEF UpdaterDone
    <3>2. QED
      BY <2>6, <3>1 DEF UpdaterDone, RegistryShrinks, RegistryType, TypeOK,
                        StartedHasID, triggerVars, clientVars
  <2>7. CASE UpdaterCloseSubscription(t)
    <3>1. RegistryShrinks /\ shutdown' = shutdown
      BY <2>7, UnsubscribeTyped, ThreadsOwn DEF UpdaterCloseSubscription
    <3>2. QED
      BY <2>7, <3>1 DEF UpdaterCloseSubscription, RegistryShrinks, RegistryType, TypeOK,
                        StartedHasID, triggerVars, clientVars
  <2>8. CASE ReturnUpdater(t)
    BY <2>8 DEF ReturnUpdater, TypeOK, StartedHasID, registryVars, triggerVars, clientVars
  <2>9. QED
    BY <1>upd, <2>2, <2>3, <2>4, <2>5, <2>6, <2>7, <2>8 DEF UpdaterStep
<1>start. ASSUME NEW t \in Trigs, StartGoroutine(t)
          PROVE  Goal
  <2>id. start[t] # "none" => tid[t] \in TriggerIDs
    BY DEF StartedHasID, TypeOK
  <2>1. CASE StartHookReturns(t) \/ SourceStarted(t)
    BY <2>1 DEF StartHookReturns, SourceStarted, StartStep, TypeOK, StartedHasID, registryVars,
                triggerVars, clientVars
  <2>2. CASE StartFails(t)
    <3>1. JobsOn(tsubs[t], "writeError") \in SUBSET Job
      BY JobsTyped DEF TypeOK, Rechecked, Terminal
    <3>2. jobs' \in [Threads -> SUBSET Job]
      BY <2>2, <3>1, ThreadsOwn DEF StartFails, TypeOK
    <3>3. QED
      BY <2>2, <3>2 DEF StartFails, StartStep, TypeOK, StartedHasID, registryVars, triggerVars,
                        clientVars
  <2>3. CASE StartTeardown(t)
    <3>1. RegistryShrinks /\ shutdown' = shutdown
      BY <2>3, <2>id, DoneTyped, ThreadsOwn DEF StartTeardown, StartStep
    <3>2. QED
      BY <2>3, <3>1 DEF StartTeardown, StartStep, RegistryShrinks, RegistryType, TypeOK,
                        StartedHasID, triggerVars, clientVars
  <2>4. CASE markTriggerInitialized(t)
    BY <2>4, <2>id DEF markTriggerInitialized, StartStep, TypeOK, StartedHasID, registryVars,
                       clientVars
  <2>5. CASE StoreInitialized(t)
    BY <2>5 DEF StoreInitialized, StartStep, TypeOK, StartedHasID, registryVars, clientVars
  <2>6. CASE ReportInitialized(t)
    BY <2>6 DEF ReportInitialized, StartStep, TypeOK, StartedHasID, triggerVars, clientVars
  <2>7. QED
    BY <1>start, <2>1, <2>2, <2>3, <2>4, <2>5, <2>6 DEF StartGoroutine
<1>hook. ASSUME NEW s \in Subs, HookGoroutine(s)
         PROVE  Goal
  <2>1. CASE HookReturns(s)
    <3>1. JobsOn({s}, "writeError") \in SUBSET Job
      BY JobsTyped DEF Rechecked, Terminal
    <3>2. jobs' \in [Threads -> SUBSET Job]
      <4>1. Hook(s) \in Threads /\ jobs \in [Threads -> SUBSET Job]
        BY ThreadsOwn DEF TypeOK
      <4>2. jobs' = jobs \/ jobs' = [jobs EXCEPT ![Hook(s)] = JobsOn({s}, "writeError")]
        BY <2>1 DEF HookReturns
      <4> HIDE DEF TypeOK
      <4> QED BY <3>1, <4>1, <4>2
    <3>3. QED
      BY <2>1, <3>2 DEF HookReturns, TypeOK, StartedHasID, registryVars, triggerVars, clientVars
  <2>2. CASE HookTeardown(s)
    <3>1. RegistryShrinks /\ shutdown' = shutdown
      BY <2>2, UnsubscribeTyped, ThreadsOwn DEF HookTeardown
    <3>2. QED
      BY <2>2, <3>1 DEF HookTeardown, RegistryShrinks, RegistryType, TypeOK,
                        StartedHasID, triggerVars, clientVars
  <2>3. QED
    BY <1>hook, <2>1, <2>2 DEF HookGoroutine
<1>caller. ASSUME NEW s \in Subs, CallerGoroutine(s)
           PROVE  Goal
  <2>1. CASE CallerSeesCancel(s) \/ CallerSeesCompleted(s) \/ CallerSeesShutdown(s)
    BY <2>1 DEF CallerSeesCancel, CallerSeesCompleted, CallerSeesShutdown, CallerStep, TypeOK,
                StartedHasID, registryVars, triggerVars, threadVars
  <2>2. CASE CallerUnsubscribes(s)
    <3>1. RegistryShrinks /\ shutdown' = shutdown
      BY <2>2, UnsubscribeTyped, ThreadsOwn DEF CallerUnsubscribes
    <3>2. QED
      BY <2>2, <3>1 DEF CallerUnsubscribes, CallerStep, RegistryShrinks, RegistryType, TypeOK,
                        StartedHasID, triggerVars, threadVars
  <2>3. QED
    BY <1>caller, <2>1, <2>2 DEF CallerGoroutine
<1>beat. ASSUME NEW i \in TriggerIDs, HeartbeatTrigger(i)
         PROVE  Goal
  <2>1. PICK S \in SUBSET (UNION {tsubs[t] : t \in TriggersAt({i})} \ removed) :
           jobs' = [jobs EXCEPT ![HB] = JobsOn(S, "heartbeat")]
    BY <1>beat DEF HeartbeatTrigger
  <2>2. UNION {tsubs[t] : t \in TriggersAt({i})} \in SUBSET Subs
    BY RegisteredTyped, UnionTyped
  <2>3. JobsOn(S, "heartbeat") \in SUBSET Job
    BY <2>2, JobsTyped DEF Rechecked, Terminal
  <2>4. jobs' \in [Threads -> SUBSET Job]
    BY <2>1, <2>3, ThreadsOwn DEF TypeOK
  <2>5. QED
    BY <1>beat, <2>4 DEF HeartbeatTrigger, TypeOK, StartedHasID, registryVars, triggerVars,
                         clientVars
<1>stutter. CASE UNCHANGED vars
  BY <1>stutter DEF vars, TypeOK, StartedHasID, registryVars, triggerVars, clientVars, threadVars
<1>qed. QED
  BY <1>add, <1>client, <1>conn, <1>cancel, <1>call, <1>tick, <1>shutdown, <1>tail, <1>cancelTrig,
     <1>write, <1>upd, <1>start, <1>hook, <1>caller, <1>beat, <1>stutter
     DEF Next, Environment

\* The initial state is typed.
LEMMA TypeInit == Init => TypeInv
<1> SUFFICES ASSUME Init PROVE TypeOK /\ StartedHasID
  BY DEF TypeInv
<1>1. TypeOK
  <2>1. /\ rctxDone \in BOOLEAN /\ shutdown \in BOOLEAN
        /\ byID \subseteq Subs /\ removed \subseteq Subs /\ ctxDone \subseteq Subs
        /\ initialized \subseteq Trigs /\ cancelled \subseteq Trigs /\ updDone \subseteq Trigs
        /\ hbIDs \subseteq TriggerIDs /\ tails \subseteq Tail
    BY DEF Init
  <2>2. subCount \in Int /\ trigCount \in Int /\ closes \in [Subs -> Nat]
    BY DEF Init
  <2>3. /\ triggers \in [TriggerIDs -> Trigs \cup {NoTrig}]
        /\ byConn \in [Conns -> SUBSET Subs] /\ tsubs \in [Trigs -> SUBSET Subs]
        /\ tid \in [Trigs -> TriggerIDs \cup {NoID}]
        /\ joined \in [Subs -> Trigs \cup {NoTrig}]
        /\ marking \in [Trigs -> Trigs \cup {NoTrig}]
        /\ jobs \in [Threads -> SUBSET Job]
    BY DEF Init
  <2>4. /\ caller \in [Subs -> {"idle", "select", "unsubscribe", "wait", "final", "returned"}]
        /\ hook \in [Subs -> {"none", "run", "failed", "done"}]
        /\ start \in [Trigs -> {"none", "hook", "source", "failed", "mark", "store", "report",
                               "done"}]
        /\ upd \in [Trigs -> UpdaterOps \cup {"idle", "running"}]
    BY DEF Init
  <2>5. QED
    BY <2>1, <2>2, <2>3, <2>4 DEF TypeOK
<1>2. StartedHasID
  BY ConstantsAssumption DEF Init, StartedHasID
<1>3. QED
  BY <1>1, <1>2

\* TypeInv is an invariant: what the other proofs start from.
THEOREM TypeInvariant == Spec => []TypeInv
BY TypeInit, TypeStep, PTL DEF Spec

\* Type correctness: in every reachable state, and for every value of the constants, the
\* registry, the goroutines and the pending writes and removals have their types.
THEOREM TypeCorrect == Spec => []TypeOK
<1>1. TypeInv => TypeOK
  BY DEF TypeInv
<1>2. QED
  BY <1>1, TypeInvariant, PTL

-----------------------------------------------------------------------------
(* Safety. Every step of Next either leaves the registry alone, adds a      *)
(* subscription, removes some, closes a completed channel or cancels a      *)
(* trigger (StepShape); each invariant is then shown for these five.        *)

\* A subscription is registered by its own call, once, before it is removed.
AddedOnce ==
    /\ \A s \in Subs : caller[s] = "idle" => joined[s] = NoTrig
    /\ \A s \in removed : joined[s] # NoTrig

\* Each removed subscription is closed already or owed to exactly one remover.
TailsOwed ==
    /\ \A tl \in tails : \A s \in tl.close : s \in removed /\ closes[s] = 0
    /\ \A tl, tm \in tails : tl.close \cap tm.close # {} => tl = tm

RegistryInv == TypeInv /\ IndexesAgree /\ AddedOnce
ClosingInv  == CompletedClosedOnce /\ TailsOwed

SafetyInv ==
    /\ RegistryInv
    /\ ClosingInv
    /\ NoWriteAfterCompleted
    /\ NoOrphanedTrigger
    /\ SubscriptionCountExact
    /\ ShutdownIsFinal

-----------------------------------------------------------------------------
(* The kinds of steps.                                                     *)

KeepsCallers == \A s \in Subs : caller'[s] = "idle" => caller[s] = "idle"

\* A write that looks at removed begins only for a subscription that is not removed.
ChecksWrites ==
    \A th \in Threads : \A j \in jobs'[th] :
        j.st = "writing" /\ j.kind \in Rechecked => j \in jobs[th] \/ j.sub \notin removed

Quiet ==
    /\ UNCHANGED <<shutdown, triggers, byID, byConn, subCount, tsubs, removed, tails,
                   tid, joined, closes, cancelled>>
    /\ KeepsCallers
    /\ ChecksWrites

\* A removal takes the registered ones among the ids it is given, and exactly the triggers
\* this leaves empty.
RemovalArgs(U, S, T) ==
    /\ S = U \cap byID
    /\ T \subseteq Registered
    /\ \A t \in Registered : t \in T <=> tsubs[t] \subseteq S

Removal ==
    \E owner \in Owners, U, S \in SUBSET Subs, T \in SUBSET Trigs :
        /\ RemovalArgs(U, S, T)
        /\ Teardown(owner, U, S, T)
        /\ shutdown' => shutdown \/ U = Subs

Removes ==
    /\ Removal
    /\ UNCHANGED <<tid, joined, closes, cancelled>>
    /\ KeepsCallers
    /\ \A th \in Threads : jobs'[th] \subseteq jobs[th]

-----------------------------------------------------------------------------
(* Every step is of one of these kinds.                                    *)

\* When the indexes agree, a removal finds exactly the registered ones among the ids it is
\* given.
LEMMA FoundIsRegistered ==
    ASSUME RegistryInv, NEW S \in SUBSET Subs
    PROVE  Found(S) = S \cap byID
<1> SUFFICES ASSUME NEW s \in S \cap byID PROVE s \in Found(S)
  BY DEF Found
<1>1. joined[s] \in Trigs /\ s \in tsubs[joined[s]]
  BY DEF RegistryInv, IndexesAgree, TypeInv, TypeOK
<1>2. joined[s] \in Registered
  BY <1>1 DEF RegistryInv, IndexesAgree
<1>3. triggers[tid[joined[s]]] = joined[s]
  BY <1>2 DEF Registered, RegistryInv, TypeInv, StartedHasID
<1>4. QED
  BY <1>1, <1>3, ConstantsAssumption DEF Found

\* removeSubscriptionsLocked removes whole triggers exactly when it empties them.
LEMMA LockedArgs ==
    ASSUME RegistryInv, NEW owner \in Owners, NEW U \in SUBSET Subs,
           removeSubscriptionsLocked(owner, U)
    PROVE  \E S \in SUBSET Subs, T \in SUBSET Trigs :
              RemovalArgs(U, S, T) /\ Teardown(owner, U, S, T)
<1> DEFINE S == Found(U)
           T == {t \in Registered : tsubs[t] \cap S # {} /\ tsubs[t] \subseteq S}
<1>1. S = U \cap byID
  BY FoundIsRegistered
<1>2. T \in SUBSET Trigs /\ Registered \subseteq Trigs
  BY RegisteredTyped DEF RegistryInv, TypeInv
<1>3. \A t \in Registered : t \in T <=> tsubs[t] \subseteq S
  BY <1>2 DEF RegistryInv, IndexesAgree
<1>4. Teardown(owner, U, S, T)
  BY DEF removeSubscriptionsLocked
<1>5. RemovalArgs(U, S, T) /\ S \in SUBSET Subs
  <2> HIDE DEF S
  <2> QED BY <1>1, <1>3 DEF RemovalArgs
<1> HIDE DEF S, T
<1>6. QED
  BY <1>2, <1>4, <1>5

\* detachTriggerLocked empties the triggers it is given and no other, because a
\* subscription is under one trigger.
LEMMA DetachArgs ==
    ASSUME RegistryInv, NEW T \in SUBSET Registered
    PROVE  /\ UNION {tsubs[t] : t \in T} \in SUBSET Subs
           /\ T \in SUBSET Trigs
           /\ RemovalArgs(UNION {tsubs[t] : t \in T}, UNION {tsubs[t] : t \in T}, T)
<1> DEFINE S == UNION {tsubs[t] : t \in T}
<1>1. Registered \subseteq Trigs
  BY RegisteredTyped DEF RegistryInv, TypeInv
<1>2. S \in SUBSET Subs
  BY <1>1, UnionTyped DEF RegistryInv, TypeInv
<1>3. ASSUME NEW t \in T, NEW s \in tsubs[t]
      PROVE  s \in byID /\ joined[s] = t
  <2>1. t \in Trigs /\ s \in Subs
    BY <1>1 DEF RegistryInv, TypeInv, TypeOK
  <2>2. QED
    BY <2>1 DEF RegistryInv, IndexesAgree
<1>4. S = S \cap byID
  BY <1>3
<1>5. ASSUME NEW t \in Registered, tsubs[t] \subseteq S
      PROVE  t \in T
  <2>1. PICK s \in Subs : s \in tsubs[t]
    BY <1>1 DEF RegistryInv, IndexesAgree, TypeInv, TypeOK
  <2>2. PICK u \in T : s \in tsubs[u]
    BY <1>5, <2>1
  <2>3. joined[s] = t /\ joined[s] = u
    BY <1>1, <2>1, <2>2 DEF RegistryInv, IndexesAgree
  <2>4. QED
    BY <2>3
<1>6. \A t \in T : tsubs[t] \subseteq S
  OBVIOUS
<1>7. RemovalArgs(S, S, T)
  <2> HIDE DEF S
  <2> QED BY <1>4, <1>5, <1>6 DEF RemovalArgs
<1>8. QED
  BY <1>1, <1>2, <1>7

\* UnsubscribeSubscription is a removal, or does nothing after the shutdown.
LEMMA UnsubscribeRemoves ==
    ASSUME RegistryInv, NEW owner \in Owners, NEW s \in Subs, UnsubscribeSubscription(owner, s)
    PROVE  Removal \/ UNCHANGED registryVars
<1>1. CASE shutdown
  BY <1>1 DEF UnsubscribeSubscription
<1>2. CASE ~shutdown
  <2>1. removeSubscriptionsLocked(owner, {s}) /\ shutdown' = shutdown
    BY <1>2 DEF UnsubscribeSubscription
  <2>2. {s} \in SUBSET Subs
    OBVIOUS
  <2>3. QED
    BY <1>2, <2>1, <2>2, LockedArgs DEF Removal
<1>3. QED
  BY <1>1, <1>2 DEF RegistryInv, TypeInv, TypeOK

\* So is doneTriggerFromUpdater.
LEMMA DoneRemoves ==
    ASSUME RegistryInv, NEW owner \in Owners, NEW id \in TriggerIDs,
           doneTriggerFromUpdater(owner, id)
    PROVE  Removal
<1> DEFINE T == TriggersAt({id})
           S == UNION {tsubs[t] : t \in T}
<1>1. T \in SUBSET Registered
  BY DEF TriggersAt, Registered
<1>2. Teardown(owner, S, S, T) /\ shutdown' = shutdown
  BY DEF doneTriggerFromUpdater, detachTriggerLocked
<1>3. S \in SUBSET Subs /\ T \in SUBSET Trigs /\ RemovalArgs(S, S, T)
  BY <1>1, DetachArgs
<1> HIDE DEF S, T
<1>4. QED
  BY <1>2, <1>3 DEF Removal

\* And shutdownResolver, which removes everything.
LEMMA ShutdownRemoves ==
    ASSUME RegistryInv, shutdownResolver
    PROVE  Removal
<1> DEFINE S == UNION {tsubs[t] : t \in Registered}
<1>1. S \in SUBSET Subs /\ Registered \in SUBSET Trigs /\ RemovalArgs(S, S, Registered)
  BY DetachArgs
<1>2. Teardown(AfterFunc, Subs, S, Registered)
  BY DEF shutdownResolver
<1>3. ASSUME NEW s \in byID PROVE s \in S
  <2>1. s \in Subs
    BY DEF RegistryInv, TypeInv, TypeOK
  <2>2. joined[s] \in Trigs /\ s \in tsubs[joined[s]]
    BY <2>1 DEF RegistryInv, IndexesAgree, TypeInv, TypeOK
  <2>3. joined[s] \in Registered
    BY <2>2 DEF RegistryInv, IndexesAgree
  <2>4. QED
    BY <2>2, <2>3
<1> HIDE DEF S
<1>4. S = Subs \cap byID
  BY <1>1, <1>3 DEF RemovalArgs
<1>5. RemovalArgs(Subs, S, Registered)
  BY <1>1, <1>4 DEF RemovalArgs
<1>6. QED
  BY <1>1, <1>2, <1>5, ThreadsOwn DEF Removal

\* New writes are not under way yet.
LEMMA NewJobs ==
    ASSUME TypeOK, NEW th \in Threads, NEW J,
           jobs' = [jobs EXCEPT ![th] = J], \A j \in J : j.st = "todo"
    PROVE  ChecksWrites
BY DEF ChecksWrites, TypeOK

\* The writes a call has to do start as "todo".
LEMMA JobsAreTodo ==
    ASSUME NEW S, NEW k PROVE \A j \in JobsOn(S, k) : j.st = "todo"
BY DEF JobsOn

\* What a step may be.
Shapes ==
    \/ Quiet
    \/ \E s \in Subs, id \in TriggerIDs : JoinTrigger(s, id)
    \/ \E s \in Subs, id \in TriggerIDs, t \in Trigs : CreateTrigger(s, id, t)
    \/ Removes
    \/ \E s \in Subs : TailStep(s)
    \/ \E t \in Trigs : CancelStep(t)

\* One step per action of Next.
LEMMA StepShape == RegistryInv /\ [Next]_vars => Shapes
<1> SUFFICES ASSUME RegistryInv, [Next]_vars PROVE Shapes
  OBVIOUS
<1>type. TypeOK
  BY DEF RegistryInv, TypeInv
<1>same. UNCHANGED jobs => ChecksWrites /\ \A th \in Threads : jobs'[th] \subseteq jobs[th]
  BY DEF ChecksWrites
<1>callers. UNCHANGED caller => KeepsCallers
  BY DEF KeepsCallers
<1>unsub. ASSUME NEW owner \in Owners, NEW s \in Subs, UnsubscribeSubscription(owner, s),
                 UNCHANGED <<tid, joined, closes, cancelled>>, KeepsCallers,
                 \A th \in Threads : jobs'[th] \subseteq jobs[th]
          PROVE  Shapes
  <2>1. CASE Removal
    BY <1>unsub, <2>1 DEF Removes, Shapes
  <2>2. CASE UNCHANGED registryVars
    BY <1>unsub, <2>2 DEF Quiet, ChecksWrites, Shapes, registryVars
  <2>3. QED
    BY <1>unsub, <2>1, <2>2, UnsubscribeRemoves
<1>add. ASSUME NEW s \in Subs, NEW id \in TriggerIDs, addSubscription(s, id)
        PROVE  Shapes
  <2>1. CASE RejectSubscription(s)
    <3>1. KeepsCallers
      BY <1>type, <2>1 DEF RejectSubscription, KeepsCallers, TypeOK
    <3>2. QED
      BY <1>same, <2>1, <3>1 DEF RejectSubscription, Quiet, Shapes, registryVars, triggerVars,
                                 threadVars
  <2>2. QED
    BY <1>add, <2>1 DEF addSubscription, Shapes
<1>client. ASSUME NEW s \in Subs, ClientUnsubscribes(s) \/ CancelClient(s)
           PROVE  Shapes
  <2>1. CASE ClientUnsubscribes(s)
    BY <2>1, <1>same, <1>callers, <1>unsub, ThreadsOwn
       DEF ClientUnsubscribes, triggerVars, clientVars, threadVars
  <2>2. CASE CancelClient(s)
    BY <2>2, <1>same, <1>callers
       DEF CancelClient, Quiet, Shapes, registryVars, triggerVars, threadVars
  <2>3. QED
    BY <1>client, <2>1, <2>2
<1>conn. ASSUME NEW c \in Conns, UnsubscribeClient(c)
         PROVE  Shapes
  <2>1. byConn[c] \in SUBSET Subs
    BY <1>type DEF TypeOK
  <2>2. removeSubscriptionsLocked(Client, byConn[c]) /\ shutdown' = shutdown
    BY <1>conn DEF UnsubscribeClient
  <2>3. Removal
    BY <2>1, <2>2, LockedArgs, ThreadsOwn DEF Removal
  <2>4. QED
    BY <1>conn, <1>same, <1>callers, <2>3
       DEF UnsubscribeClient, Removes, Shapes, triggerVars, clientVars, threadVars
<1>cancel. CASE CancelResolver
  BY <1>cancel, <1>same, <1>callers
     DEF CancelResolver, Quiet, Shapes, registryVars, triggerVars, threadVars
<1>call. ASSUME NEW t \in Trigs, NEW op \in UpdaterOps, CallUpdater(t, op)
         PROVE  Shapes
  BY <1>call, <1>same, <1>callers DEF CallUpdater, Quiet, Shapes, registryVars, clientVars
<1>tick. CASE HeartbeatTick
  BY <1>tick, <1>same, <1>callers
     DEF HeartbeatTick, Quiet, Shapes, registryVars, triggerVars, clientVars
<1>shutdown. CASE shutdownResolver
  BY <1>shutdown, <1>same, <1>callers, ShutdownRemoves
     DEF shutdownResolver, Removes, Shapes, triggerVars, clientVars, threadVars
<1>write. ASSUME NEW th \in Threads, WriteStep(th)
          PROVE  Shapes
  <2>1. PICK j \in jobs[th] : \/ CheckWrite(th, j) \/ BeginWrite(th, j)
                              \/ EndWrite(th, j) \/ UnsubscribeFailed(th, j)
    BY <1>write DEF WriteStep
  <2>2. j \in Job /\ j.sub \in Subs
    BY <1>type DEF TypeOK, Job
  <2>drop. Drop(th, j) => \A x \in Threads : jobs'[x] \subseteq jobs[x]
    BY <1>type DEF Drop, TypeOK
  <2>3. CASE CheckWrite(th, j) \/ BeginWrite(th, j) \/ EndWrite(th, j)
    <3>1. UNCHANGED <<registryVars, triggerVars, clientVars>>
      BY <2>3 DEF CheckWrite, BeginWrite, EndWrite
    <3>2. ASSUME NEW st \in {"checked", "writing", "unsubscribe"}, Advance(th, j, st),
                 st = "writing" /\ j.kind \in Rechecked => j.sub \notin removed
          PROVE  ChecksWrites
      <4>1. [j EXCEPT !.st = st].st = st /\ [j EXCEPT !.st = st].kind = j.kind
            /\ [j EXCEPT !.st = st].sub = j.sub
        BY <2>2 DEF Job
      <4>2. \A x \in Threads : jobs'[x] \subseteq jobs[x] \cup {[j EXCEPT !.st = st]}
        BY <1>type, <3>2 DEF Advance, TypeOK
      <4>3. QED
        BY <3>2, <4>1, <4>2 DEF ChecksWrites
    <3>3. \/ Drop(th, j)
          \/ \E st \in {"checked", "writing", "unsubscribe"} :
                /\ Advance(th, j, st)
                /\ st = "writing" /\ j.kind \in Rechecked => j.sub \notin removed
      BY <2>3 DEF CheckWrite, BeginWrite, EndWrite
    <3>4. ChecksWrites
      BY <2>drop, <3>2, <3>3 DEF ChecksWrites
    <3>5. QED
      BY <1>callers, <3>1, <3>4 DEF Quiet, Shapes, registryVars, triggerVars, clientVars
  <2>4. CASE UnsubscribeFailed(th, j)
    BY <1>callers, <1>unsub, <2>2, <2>4, <2>drop, ThreadsOwn
       DEF UnsubscribeFailed, triggerVars, clientVars
  <2>5. QED
    BY <2>1, <2>3, <2>4
<1>upd. ASSUME NEW t \in Trigs, UpdaterStep(t)
        PROVE  Shapes
  <2>1. ASSUME NEW J, Deliver(t, J), \A j \in J : j.st = "todo"
        PROVE  Shapes
    <3>1. ChecksWrites
      BY <1>type, <2>1, NewJobs, ThreadsOwn DEF Deliver
    <3>2. QED
      BY <1>callers, <2>1, <3>1 DEF Deliver, Quiet, Shapes, registryVars, triggerVars, clientVars
  <2>2. CASE handleTriggerUpdate(t)
    BY <2>1, <2>2, JobsAreTodo DEF handleTriggerUpdate
  <2>3. CASE handleUpdateSubscription(t)
    BY <2>1, <2>3, JobsAreTodo DEF handleUpdateSubscription
  <2>4. CASE heartbeatTriggerSubscriptions(t)
    BY <2>1, <2>4, JobsAreTodo DEF heartbeatTriggerSubscriptions
  <2>5. CASE handleTriggerComplete(t) \/ handleTriggerError(t)
    BY <2>1, <2>5, JobsAreTodo DEF handleTriggerComplete, handleTriggerError
  <2>6. CASE UpdaterDone(t)
    <3>1. tid[t] \in TriggerIDs
      BY <1>type, <2>6 DEF UpdaterDone, RegistryInv, TypeInv, StartedHasID, TypeOK
    <3>2. Removal
      BY <2>6, <3>1, DoneRemoves, ThreadsOwn DEF UpdaterDone
    <3>3. QED
      BY <1>same, <1>callers, <2>6, <3>2 DEF UpdaterDone, Removes, Shapes, triggerVars, clientVars
  <2>7. CASE UpdaterCloseSubscription(t)
    BY <1>same, <1>callers, <1>unsub, <2>7, ThreadsOwn
       DEF UpdaterCloseSubscription, triggerVars, clientVars
  <2>8. CASE ReturnUpdater(t)
    BY <1>same, <1>callers, <2>8
       DEF ReturnUpdater, Quiet, Shapes, registryVars, triggerVars, clientVars
  <2>9. QED
    BY <1>upd, <2>2, <2>3, <2>4, <2>5, <2>6, <2>7, <2>8 DEF UpdaterStep
<1>start. ASSUME NEW t \in Trigs, StartGoroutine(t)
          PROVE  Shapes
  <2>1. CASE StartHookReturns(t) \/ SourceStarted(t)
    BY <1>same, <1>callers, <2>1
       DEF StartHookReturns, SourceStarted, Quiet, Shapes, registryVars, triggerVars, clientVars
  <2>2. CASE StartFails(t)
    <3>1. ChecksWrites
      BY <1>type, <2>2, NewJobs, JobsAreTodo, ThreadsOwn DEF StartFails
    <3>2. QED
      BY <1>callers, <2>2, <3>1 DEF StartFails, Quiet, Shapes, registryVars, triggerVars,
                                    clientVars
  <2>3. CASE StartTeardown(t)
    <3>1. tid[t] \in TriggerIDs
      BY <1>type, <2>3 DEF StartTeardown, StartStep, RegistryInv, TypeInv, StartedHasID, TypeOK
    <3>2. Removal
      BY <2>3, <3>1, DoneRemoves, ThreadsOwn DEF StartTeardown
    <3>3. QED
      BY <1>same, <1>callers, <2>3, <3>2 DEF StartTeardown, Removes, Shapes, triggerVars,
                                             clientVars
  <2>4. CASE markTriggerInitialized(t) \/ StoreInitialized(t) \/ ReportInitialized(t)
    BY <1>same, <1>callers, <2>4
       DEF markTriggerInitialized, StoreInitialized, ReportInitialized, Quiet, Shapes,
           registryVars, triggerVars, clientVars
  <2>5. QED
    BY <1>start, <2>1, <2>2, <2>3, <2>4 DEF StartGoroutine
<1>hook. ASSUME NEW s \in Subs, HookGoroutine(s)
         PROVE  Shapes
  <2>1. CASE HookReturns(s)
    <3>1. Hook(s) \in Threads /\ \A j \in JobsOn({s}, "writeError") : j.st = "todo"
      BY JobsAreTodo, ThreadsOwn
    <3>2. UNCHANGED jobs \/ jobs' = [jobs EXCEPT ![Hook(s)] = JobsOn({s}, "writeError")]
      BY <2>1 DEF HookReturns
    <3>3. ChecksWrites
      BY <1>type, <1>same, <3>1, <3>2, NewJobs
    <3>4. QED
      BY <1>callers, <2>1, <3>3 DEF HookReturns, Quiet, Shapes, registryVars, triggerVars,
                                    clientVars
  <2>2. CASE HookTeardown(s)
    BY <1>same, <1>callers, <1>unsub, <2>2, ThreadsOwn DEF HookTeardown, triggerVars, clientVars
  <2>3. QED
    BY <1>hook, <2>1, <2>2 DEF HookGoroutine
<1>caller. ASSUME NEW s \in Subs, CallerGoroutine(s)
           PROVE  Shapes
  <2>1. KeepsCallers
    BY <1>type, <1>caller DEF CallerGoroutine, CallerSeesCancel, CallerUnsubscribes,
       CallerSeesCompleted, CallerSeesShutdown, CallerStep, KeepsCallers, TypeOK
  <2>2. CASE CallerSeesCancel(s) \/ CallerSeesCompleted(s) \/ CallerSeesShutdown(s)
    BY <1>same, <2>1, <2>2
       DEF CallerSeesCancel, CallerSeesCompleted, CallerSeesShutdown, Quiet, Shapes,
           registryVars, triggerVars, threadVars
  <2>3. CASE CallerUnsubscribes(s)
    BY <1>same, <1>unsub, <2>1, <2>3, ThreadsOwn DEF CallerUnsubscribes, triggerVars, threadVars
  <2>4. QED
    BY <1>caller, <2>2, <2>3 DEF CallerGoroutine
<1>beat. ASSUME NEW i \in TriggerIDs, HeartbeatTrigger(i)
         PROVE  Shapes
  <2>1. PICK S : jobs' = [jobs EXCEPT ![HB] = JobsOn(S, "heartbeat")]
    BY <1>beat DEF HeartbeatTrigger
  <2>2. HB \in Threads /\ \A j \in JobsOn(S, "heartbeat") : j.st = "todo"
    BY JobsAreTodo, ThreadsOwn
  <2>3. ChecksWrites
    BY <1>type, <2>1, <2>2, NewJobs
  <2>4. QED
    BY <1>callers, <1>beat, <2>3 DEF HeartbeatTrigger, Quiet, Shapes, registryVars, triggerVars,
                                     clientVars
<1>stutter. CASE UNCHANGED vars
  BY <1>same, <1>callers, <1>stutter
     DEF vars, Quiet, Shapes, registryVars, triggerVars, clientVars, threadVars
<1>qed. QED
  BY <1>add, <1>client, <1>conn, <1>cancel, <1>call, <1>tick, <1>shutdown, <1>write, <1>upd,
     <1>start, <1>hook, <1>caller, <1>beat, <1>stutter
     DEF Next, Environment, Shapes

-----------------------------------------------------------------------------
(* The indexes.                                                            *)

\* A trigger that has no id yet is not registered and holds nothing.
LEMMA FreshTrigger ==
    ASSUME RegistryInv, NEW t \in Trigs, tid[t] = NoID
    PROVE  t \notin Registered /\ tsubs[t] = {}
<1>1. t \notin Registered
  BY ConstantsAssumption DEF RegistryInv, TypeInv, StartedHasID, Registered
<1>2. QED
  BY <1>1 DEF RegistryInv, IndexesAgree

\* A subscription that is being added is in no index.
LEMMA FreshSubscription ==
    ASSUME RegistryInv, NEW s \in Subs, caller[s] = "idle"
    PROVE  joined[s] = NoTrig /\ s \notin byID /\ s \notin removed
BY DEF RegistryInv, IndexesAgree, AddedOnce

\* registerSubscriptionLocked adds the subscription to every index, under a trigger that is
\* registered once it has returned.
LEMMA RegisterAgrees ==
    ASSUME RegistryInv, NEW s \in Subs, NEW t \in Trigs, caller[s] = "idle",
           registerSubscriptionLocked(t, s), UNCHANGED removed,
           \A u \in Trigs : u \in Registered' <=> u \in Registered \/ u = t
    PROVE  IndexesAgree' /\ AddedOnce'
<1>1. joined[s] = NoTrig /\ s \notin byID /\ s \notin removed
  BY FreshSubscription
<1>2. /\ byID' = byID \cup {s}
      /\ tsubs'[t] = tsubs[t] \cup {s} /\ \A u \in Trigs : u # t => tsubs'[u] = tsubs[u]
      /\ joined'[s] = t /\ \A x \in Subs : x # s => joined'[x] = joined[x]
      /\ \A x \in Subs : x # s => caller'[x] = caller[x]
      /\ caller'[s] # "idle"
  BY DEF registerSubscriptionLocked, RegistryInv, TypeInv, TypeOK
<1>3. /\ ConnOf[s] \in Conns
      /\ byConn'[ConnOf[s]] = byConn[ConnOf[s]] \cup {s}
      /\ \A c \in Conns : c # ConnOf[s] => byConn'[c] = byConn[c]
  BY ConstantsAssumption DEF registerSubscriptionLocked, RegistryInv, TypeInv, TypeOK
<1>4. \A x \in Subs, c \in Conns : x \in byConn'[c] <=> x \in byID' /\ c = ConnOf[x]
  BY <1>1, <1>2, <1>3 DEF RegistryInv, IndexesAgree
<1>5. \A x \in Subs, u \in Trigs : x \in tsubs'[u] <=> x \in byID' /\ joined'[x] = u
  BY <1>1, <1>2 DEF RegistryInv, IndexesAgree
<1>6. \A u \in Trigs : u \in Registered' <=> tsubs'[u] # {}
  BY <1>2 DEF RegistryInv, IndexesAgree
<1>7. \A x \in Subs : x \in byID' <=> joined'[x] # NoTrig /\ x \notin removed'
  BY <1>1, <1>2, ConstantsAssumption DEF RegistryInv, IndexesAgree
<1>8. AddedOnce'
  <2>1. removed \subseteq Subs
    BY DEF RegistryInv, TypeInv, TypeOK
  <2>2. QED
    BY <1>1, <1>2, <2>1 DEF RegistryInv, AddedOnce
<1>9. QED
  BY <1>4, <1>5, <1>6, <1>7, <1>8 DEF IndexesAgree

\* Where a trigger is registered after a removal.
LEMMA RemovedTriggers ==
    ASSUME TypeOK, NEW owner, NEW U, NEW S, NEW T, Teardown(owner, U, S, T)
    PROVE  Registered' = Registered \ T
<1>1. triggers' = [i \in TriggerIDs |-> IF triggers[i] \in T THEN NoTrig ELSE triggers[i]]
  BY DEF Teardown
<1>2. QED
  BY <1>1 DEF Registered

\* Whatever a step does, the indexes still agree.
LEMMA RegistryStep == RegistryInv /\ [Next]_vars => RegistryInv'
<1> SUFFICES ASSUME RegistryInv, [Next]_vars PROVE RegistryInv'
  OBVIOUS
<1>type. TypeInv'
  BY TypeStep DEF RegistryInv
<1>1. CASE Quiet
  <2>1. removed \subseteq Subs
    BY DEF RegistryInv, TypeInv, TypeOK
  <2>2. AddedOnce'
    BY <1>1, <2>1 DEF Quiet, KeepsCallers, RegistryInv, AddedOnce
  <2>3. IndexesAgree'
    BY <1>1 DEF Quiet, RegistryInv, IndexesAgree, Registered
  <2>4. QED
    BY <1>type, <2>2, <2>3 DEF RegistryInv
<1>2. ASSUME NEW s \in Subs, NEW id \in TriggerIDs, JoinTrigger(s, id)
      PROVE  RegistryInv'
  <2>1. triggers[id] \in Trigs /\ triggers[id] \in Registered
    BY <1>2 DEF JoinTrigger, Registered, RegistryInv, TypeInv, TypeOK
  <2>2. Registered' = Registered
    BY <1>2 DEF JoinTrigger, Registered
  <2>3. QED
    BY <1>2, <1>type, <2>1, <2>2, RegisterAgrees DEF JoinTrigger, RegistryInv
<1>3. ASSUME NEW s \in Subs, NEW id \in TriggerIDs, NEW t \in Trigs, CreateTrigger(s, id, t)
      PROVE  RegistryInv'
  <2>1. \A i \in TriggerIDs : triggers'[i] = IF i = id THEN t ELSE triggers[i]
    BY <1>3 DEF CreateTrigger, RegistryInv, TypeInv, TypeOK
  <2>2. triggers[id] = NoTrig
    BY <1>3 DEF CreateTrigger
  <2>3. Registered' = Registered \cup {t}
    BY <2>1, <2>2, ConstantsAssumption DEF Registered
  <2>4. QED
    BY <1>3, <1>type, <2>3, RegisterAgrees DEF CreateTrigger, RegistryInv
<1>4. CASE Removes
  <2>1. PICK owner \in Owners, U \in SUBSET Subs, S \in SUBSET Subs, T \in SUBSET Trigs :
           RemovalArgs(U, S, T) /\ Teardown(owner, U, S, T)
    BY <1>4 DEF Removes, Removal
  <2>2. Registered' = Registered \ T
    BY <2>1, RemovedTriggers DEF RegistryInv, TypeInv
  <2>3. /\ byID' = byID \ U /\ removed' = removed \cup S /\ joined' = joined
        /\ \A t \in Trigs : tsubs'[t] = tsubs[t] \ S
        /\ \A c \in Conns : byConn'[c] = byConn[c] \ U
    BY <1>4, <2>1 DEF Removes, Teardown, MarkRemoved
  <2>4. \A s \in Subs, c \in Conns : s \in byConn'[c] <=> s \in byID' /\ c = ConnOf[s]
    BY <2>3 DEF RegistryInv, IndexesAgree
  <2>5. \A s \in Subs, t \in Trigs : s \in tsubs'[t] <=> s \in byID' /\ joined'[s] = t
    BY <2>1, <2>3 DEF RemovalArgs, RegistryInv, IndexesAgree
  <2>6. \A t \in Trigs : t \in Registered' <=> tsubs'[t] # {}
    BY <2>1, <2>2, <2>3 DEF RemovalArgs, RegistryInv, IndexesAgree
  <2>7. \A s \in Subs : s \in byID' <=> joined'[s] # NoTrig /\ s \notin removed'
    BY <2>1, <2>3 DEF RemovalArgs, RegistryInv, IndexesAgree
  <2>8. AddedOnce'
    BY <1>4, <2>1, <2>3 DEF Removes, KeepsCallers, RemovalArgs, RegistryInv, IndexesAgree,
                            AddedOnce
  <2>9. QED
    BY <1>type, <2>4, <2>5, <2>6, <2>7, <2>8 DEF RegistryInv, IndexesAgree
<1>5. ASSUME UNCHANGED <<triggers, byID, byConn, tsubs, removed, joined, caller>>
      PROVE  RegistryInv'
  BY <1>5, <1>type DEF RegistryInv, IndexesAgree, AddedOnce, Registered
<1>6. ASSUME NEW s \in Subs, TailStep(s)
      PROVE  RegistryInv'
  BY <1>5, <1>6 DEF TailStep, CloseCompleted
<1>7. ASSUME NEW t \in Trigs, CancelStep(t)
      PROVE  RegistryInv'
  BY <1>5, <1>7 DEF CancelStep, CancelTrigger, clientVars
<1>8. QED
  BY <1>1, <1>2, <1>3, <1>4, <1>6, <1>7, StepShape DEF Shapes

\* The empty registry is consistent.
LEMMA RegistryInit == Init => RegistryInv
<1> SUFFICES ASSUME Init PROVE IndexesAgree /\ AddedOnce
  BY TypeInit DEF RegistryInv
<1>1. Registered = {}
  BY DEF Init, Registered
<1>2. QED
  BY <1>1 DEF Init, IndexesAgree, AddedOnce

\* RegistryInv is an invariant: what the other safety proofs start from.
THEOREM RegistryInvariant == Spec => []RegistryInv
BY RegistryInit, RegistryStep, PTL DEF Spec

\* Whoever adds and removes, and however clients, updater calls, failed writes, failed
\* startups and the shutdown interleave, subscriptionsByID, subscriptionsByConnection and
\* trigger.subscriptions hold the same subscriptions, and the registered triggers are
\* exactly those that have any.
THEOREM IndexesAlwaysAgree == Spec => []IndexesAgree
<1>1. RegistryInv => IndexesAgree
  BY DEF RegistryInv
<1>2. QED
  BY <1>1, RegistryInvariant, PTL

-----------------------------------------------------------------------------
(* Closing the completed channels.                                         *)

\* What a removal leaves behind.
LEMMA TailLeft ==
    ASSUME NEW owner, NEW U, NEW S, NEW T, Teardown(owner, U, S, T)
    PROVE  LET tl == [owner |-> owner, close |-> S \ removed, cancel |-> T]
           IN  /\ tails \subseteq tails' /\ tails' \subseteq tails \cup {tl}
               /\ tl.close # {} \/ T # {} => tl \in tails'
               /\ tl.close = S \ removed /\ tl.cancel = T
BY DEF Teardown, LeaveTail

\* However many remove a subscription, one of them marks it and closes its channel.
LEMMA ClosingStep == RegistryInv /\ ClosingInv /\ [Next]_vars => ClosingInv'
<1> SUFFICES ASSUME RegistryInv, ClosingInv, [Next]_vars PROVE ClosingInv'
  OBVIOUS
<1>type. closes \in [Subs -> Nat] /\ removed \subseteq Subs /\ tails \subseteq Tail
  BY DEF RegistryInv, TypeInv, TypeOK
<1>1. ASSUME UNCHANGED <<removed, tails, closes>>
      PROVE  ClosingInv'
  BY <1>1 DEF ClosingInv, CompletedClosedOnce, TailsOwed
<1>2. CASE Removes
  <2>1. PICK owner \in Owners, U \in SUBSET Subs, S \in SUBSET Subs, T \in SUBSET Trigs :
           Teardown(owner, U, S, T)
    BY <1>2 DEF Removes, Removal
  <2> DEFINE tl == [owner |-> owner, close |-> S \ removed, cancel |-> T]
  <2>2. tails' \subseteq tails \cup {tl} /\ tl.close = S \ removed
    BY <2>1, TailLeft
  <2>3. removed' = removed \cup S /\ closes' = closes
    BY <1>2, <2>1 DEF Removes, Teardown, MarkRemoved
  <2>4. \A s \in S \ removed : closes[s] = 0
    BY <1>type DEF ClosingInv, CompletedClosedOnce
  <2>5. \A tm \in tails : tm.close \subseteq removed
    BY DEF ClosingInv, TailsOwed
  <2> HIDE DEF tl
  <2>6. \A tm \in tails' : \A s \in tm.close : s \in removed' /\ closes'[s] = 0
    BY <2>2, <2>3, <2>4 DEF ClosingInv, TailsOwed
  <2>7. \A tm, tn \in tails' : tm.close \cap tn.close # {} => tm = tn
    BY <2>2, <2>5 DEF ClosingInv, TailsOwed
  <2>8. CompletedClosedOnce'
    BY <2>3 DEF ClosingInv, CompletedClosedOnce
  <2>9. QED
    BY <2>6, <2>7, <2>8 DEF ClosingInv, TailsOwed
<1>3. ASSUME NEW s \in Subs, TailStep(s)
      PROVE  ClosingInv'
  <2>1. PICK tl \in tails : CloseCompleted(tl, s)
    BY <1>3 DEF TailStep
  <2> DEFINE rest == [tl EXCEPT !.close = @ \ {s}]
  <2>2. rest.close = tl.close \ {s}
    BY <1>type DEF Tail
  <2>3. tails' \subseteq (tails \ {tl}) \cup {rest} /\ s \in tl.close
    BY <2>1 DEF CloseCompleted
  <2> HIDE DEF rest
  <2>4. /\ closes'[s] = closes[s] + 1 /\ \A x \in Subs : x # s => closes'[x] = closes[x]
        /\ removed' = removed
    BY <1>type, <2>1 DEF CloseCompleted
  <2>5. closes[s] = 0 /\ s \in removed
    BY <2>3 DEF ClosingInv, TailsOwed
  <2>6. \A tm \in tails \ {tl} : tm.close \cap tl.close = {}
    BY DEF ClosingInv, TailsOwed
  <2>7. \A tm \in tails' : s \notin tm.close /\ \A x \in tm.close : x \in Subs /\ x \in removed
                                                                  /\ closes[x] = 0
    BY <1>type, <2>2, <2>3, <2>6 DEF ClosingInv, TailsOwed
  <2>8. \A tm, tn \in tails' : tm.close \cap tn.close # {} => tm = tn
    BY <2>2, <2>3, <2>6 DEF ClosingInv, TailsOwed
  <2>9. TailsOwed'
    BY <2>4, <2>7, <2>8 DEF TailsOwed
  <2>10. CompletedClosedOnce'
    BY <2>4, <2>5 DEF ClosingInv, CompletedClosedOnce
  <2>11. QED
    BY <2>9, <2>10 DEF ClosingInv
<1>4. ASSUME NEW t \in Trigs, CancelStep(t)
      PROVE  ClosingInv'
  <2>1. PICK tl \in tails : CancelTrigger(tl, t)
    BY <1>4 DEF CancelStep
  <2> DEFINE rest == [tl EXCEPT !.cancel = @ \ {t}]
  <2>2. rest.close = {}
    BY <1>type, <2>1 DEF Tail, CancelTrigger
  <2>3. tails' \subseteq tails \cup {rest} /\ UNCHANGED <<removed, closes>>
    BY <2>1 DEF CancelTrigger, clientVars
  <2> HIDE DEF rest
  <2>4. QED
    BY <2>2, <2>3 DEF ClosingInv, CompletedClosedOnce, TailsOwed
<1>5. QED
  BY <1>1, <1>2, <1>3, <1>4, StepShape
     DEF Shapes, Quiet, JoinTrigger, CreateTrigger

\* A write that looked at removed under writeMu is over before completed is closed: the
\* remover sets removed first and then takes writeMu.
LEMMA WritesStep ==
    RegistryInv /\ ClosingInv /\ NoWriteAfterCompleted /\ [Next]_vars => NoWriteAfterCompleted'
<1> SUFFICES ASSUME RegistryInv, ClosingInv, NoWriteAfterCompleted, [Next]_vars
             PROVE  NoWriteAfterCompleted'
  OBVIOUS
<1>type. closes \in [Subs -> Nat] /\ \A th \in Threads : \A j \in jobs[th] : j.sub \in Subs
  BY DEF RegistryInv, TypeInv, TypeOK, Job
<1>1. CASE Quiet
  <2>1. SUFFICES ASSUME NEW th \in Threads, NEW j \in jobs'[th], j.st = "writing",
                        j.kind \in Rechecked
                 PROVE  closes[j.sub] = 0
    BY <1>1 DEF Quiet, NoWriteAfterCompleted
  <2>2. CASE j \in jobs[th]
    BY <2>1, <2>2 DEF NoWriteAfterCompleted
  <2>3. CASE j.sub \notin removed
    <3>1. j.sub \in Subs
      BY TypeStep, <2>1 DEF RegistryInv, TypeInv, TypeOK, Job
    <3>2. QED
      BY <1>type, <2>3, <3>1 DEF ClosingInv, CompletedClosedOnce
  <2>4. QED
    BY <1>1, <2>1, <2>2, <2>3 DEF Quiet, ChecksWrites
<1>2. CASE Removes
  BY <1>2 DEF Removes, NoWriteAfterCompleted
<1>3. ASSUME NEW s \in Subs, TailStep(s)
      PROVE  NoWriteAfterCompleted'
  <2>1. PICK tl \in tails : CloseCompleted(tl, s)
    BY <1>3 DEF TailStep
  <2>2. ~Locked(s) /\ UNCHANGED jobs /\ \A x \in Subs : x # s => closes'[x] = closes[x]
    BY <1>type, <2>1 DEF CloseCompleted, threadVars
  <2>3. QED
    BY <1>type, <2>2 DEF Locked, NoWriteAfterCompleted
<1>4. ASSUME UNCHANGED <<jobs, closes>>
      PROVE  NoWriteAfterCompleted'
  BY <1>4 DEF NoWriteAfterCompleted
<1>5. ASSUME NEW t \in Trigs, CancelStep(t)
      PROVE  NoWriteAfterCompleted'
  BY <1>4, <1>5 DEF CancelStep, CancelTrigger, clientVars, threadVars
<1>6. QED
  BY <1>1, <1>2, <1>3, <1>4, <1>5, StepShape DEF Shapes, JoinTrigger, CreateTrigger

-----------------------------------------------------------------------------
(* Triggers, counts and the shutdown.                                      *)

\* A trigger that is owed a cancellation stays owed until it is cancelled.
LEMMA OrphanStep == RegistryInv /\ NoOrphanedTrigger /\ [Next]_vars => NoOrphanedTrigger'
<1> SUFFICES ASSUME RegistryInv, NoOrphanedTrigger, [Next]_vars,
                    NEW u \in Trigs, tid'[u] # NoID
             PROVE  (u \in Registered \cup cancelled \cup UNION {tl.cancel : tl \in tails})'
  BY DEF NoOrphanedTrigger
<1> DEFINE Safe == \/ u \in Registered'
                   \/ u \in cancelled'
                   \/ \E tl \in tails' : u \in tl.cancel
<1> SUFFICES Safe
  OBVIOUS
<1>type. tid \in [Trigs -> TriggerIDs \cup {NoID}] /\ tails \subseteq Tail
  BY DEF RegistryInv, TypeInv, TypeOK
<1>was. tid[u] # NoID => \/ u \in Registered
                         \/ u \in cancelled
                         \/ \E tl \in tails : u \in tl.cancel
  BY DEF NoOrphanedTrigger
<1>1. ASSUME UNCHANGED <<triggers, tails, cancelled, tid>>
      PROVE  Safe
  BY <1>1, <1>was DEF Registered
<1>2. ASSUME NEW s \in Subs, NEW id \in TriggerIDs, NEW t \in Trigs, CreateTrigger(s, id, t)
      PROVE  Safe
  <2>1. \A i \in TriggerIDs : triggers'[i] = IF i = id THEN t ELSE triggers[i]
    BY <1>2 DEF CreateTrigger, RegistryInv, TypeInv, TypeOK
  <2>2. Registered \cup {t} \subseteq Registered'
    BY <1>2, <2>1, ConstantsAssumption DEF Registered, CreateTrigger
  <2>3. UNCHANGED <<tails, cancelled>> /\ (u # t => tid'[u] = tid[u])
    BY <1>2, <1>type DEF CreateTrigger
  <2>4. QED
    BY <1>was, <2>2, <2>3
<1>3. CASE Removes
  <2>1. PICK owner \in Owners, U \in SUBSET Subs, S \in SUBSET Subs, T \in SUBSET Trigs :
           Teardown(owner, U, S, T)
    BY <1>3 DEF Removes, Removal
  <2>2. Registered' = Registered \ T
    BY <2>1, RemovedTriggers DEF RegistryInv, TypeInv
  <2> DEFINE tl == [owner |-> owner, close |-> S \ removed, cancel |-> T]
  <2>3. tails \subseteq tails' /\ (T # {} => tl \in tails') /\ tl.cancel = T
    BY <2>1, TailLeft
  <2> HIDE DEF tl
  <2>4. QED
    BY <1>3, <1>was, <2>2, <2>3 DEF Removes
<1>4. ASSUME NEW s \in Subs, TailStep(s)
      PROVE  Safe
  <2>1. PICK tl \in tails : CloseCompleted(tl, s)
    BY <1>4 DEF TailStep
  <2> DEFINE rest == [tl EXCEPT !.close = @ \ {s}]
  <2>2. rest.cancel = tl.cancel
    BY <1>type DEF Tail
  <2>3. tails \ {tl} \subseteq tails' /\ (rest.cancel # {} => rest \in tails')
    BY <2>1 DEF CloseCompleted
  <2>4. UNCHANGED <<triggers, cancelled, tid>>
    BY <2>1 DEF CloseCompleted, triggerVars
  <2> HIDE DEF rest
  <2>5. QED
    BY <1>was, <2>2, <2>3, <2>4 DEF Registered
<1>5. ASSUME NEW t \in Trigs, CancelStep(t)
      PROVE  Safe
  <2>1. PICK tl \in tails : CancelTrigger(tl, t)
    BY <1>5 DEF CancelStep
  <2> DEFINE rest == [tl EXCEPT !.cancel = @ \ {t}]
  <2>2. rest.cancel = tl.cancel \ {t}
    BY <1>type DEF Tail
  <2>3. tails \ {tl} \subseteq tails' /\ (rest.cancel # {} => rest \in tails')
    BY <2>1 DEF CancelTrigger
  <2>4. UNCHANGED <<triggers, tid>> /\ cancelled' = cancelled \cup {t}
    BY <2>1 DEF CancelTrigger
  <2> HIDE DEF rest
  <2>5. QED
    BY <1>was, <2>2, <2>3, <2>4 DEF Registered
<1>6. QED
  BY <1>1, <1>2, <1>3, <1>4, <1>5, StepShape DEF Shapes, Quiet, JoinTrigger, triggerVars

\* Only a subscription that is registered is counted down.
LEMMA CountStep == RegistryInv /\ SubscriptionCountExact /\ [Next]_vars => SubscriptionCountExact'
<1> SUFFICES ASSUME RegistryInv, SubscriptionCountExact, [Next]_vars
             PROVE  SubscriptionCountExact'
  OBVIOUS
<1>fin. IsFiniteSet(byID)
  BY FS_Subset, ConstantsAssumption DEF RegistryInv, TypeInv, TypeOK
<1>1. ASSUME UNCHANGED <<byID, subCount>>
      PROVE  SubscriptionCountExact'
  BY <1>1 DEF SubscriptionCountExact
<1>2. ASSUME NEW s \in Subs, NEW t \in Trigs, caller[s] = "idle", registerSubscriptionLocked(t, s)
      PROVE  SubscriptionCountExact'
  <2>1. s \notin byID
    BY <1>2, FreshSubscription
  <2>2. byID' = byID \cup {s} /\ subCount' = subCount + 1
    BY <1>2 DEF registerSubscriptionLocked
  <2>3. Cardinality(byID \cup {s}) = Cardinality(byID) + 1
    BY <1>fin, <2>1, FS_AddElement
  <2>4. QED
    BY <2>2, <2>3 DEF SubscriptionCountExact
<1>3. CASE Removes
  <2>1. PICK owner \in Owners, U \in SUBSET Subs, S \in SUBSET Subs, T \in SUBSET Trigs :
           RemovalArgs(U, S, T) /\ Teardown(owner, U, S, T)
    BY <1>3 DEF Removes, Removal
  <2>2. byID' = byID \ S /\ S \subseteq byID
    BY <2>1 DEF RemovalArgs, Teardown
  <2>3. subCount' = subCount - Cardinality(S)
    BY <2>1 DEF Teardown, CountRemoved
  <2>4. IsFiniteSet(S) /\ byID \cap S = S
    BY <1>fin, <2>2, FS_Subset
  <2>5. Cardinality(byID \ S) = Cardinality(byID) - Cardinality(S)
    BY <1>fin, <2>4, FS_Difference
  <2>6. QED
    BY <2>2, <2>3, <2>5 DEF SubscriptionCountExact
<1>4. ASSUME NEW s \in Subs, NEW id \in TriggerIDs, JoinTrigger(s, id)
      PROVE  SubscriptionCountExact'
  <2>1. triggers[id] \in Trigs
    BY <1>4 DEF JoinTrigger, RegistryInv, TypeInv, TypeOK
  <2>2. QED
    BY <1>2, <1>4, <2>1 DEF JoinTrigger
<1>5. QED
  BY <1>1, <1>2, <1>3, <1>4, StepShape DEF Shapes, Quiet, CreateTrigger,
     TailStep, CloseCompleted, CancelStep, CancelTrigger

\* Nothing registers after the shutdown, and the shutdown removes everything.
LEMMA ShutdownStep == RegistryInv /\ ShutdownIsFinal /\ [Next]_vars => ShutdownIsFinal'
<1> SUFFICES ASSUME RegistryInv, ShutdownIsFinal, [Next]_vars, shutdown'
             PROVE  byID' = {} /\ Registered' = {}
  BY DEF ShutdownIsFinal
<1>1. ASSUME UNCHANGED <<shutdown, byID, triggers>>
      PROVE  byID' = {} /\ Registered' = {}
  BY <1>1 DEF ShutdownIsFinal, Registered
<1>2. CASE Removes
  <2>1. PICK owner \in Owners, U \in SUBSET Subs, S \in SUBSET Subs, T \in SUBSET Trigs :
           /\ RemovalArgs(U, S, T) /\ Teardown(owner, U, S, T)
           /\ shutdown' => shutdown \/ U = Subs
    BY <1>2 DEF Removes, Removal
  <2>2. byID' = byID \ U /\ Registered' = Registered \ T
    BY <2>1, RemovedTriggers DEF Teardown, RegistryInv, TypeInv
  <2>3. CASE shutdown
    BY <2>2, <2>3 DEF ShutdownIsFinal
  <2>4. CASE U = Subs
    <3>1. byID \subseteq Subs /\ Registered \subseteq Trigs
      BY RegisteredTyped DEF RegistryInv, TypeInv, TypeOK
    <3>2. S = byID
      BY <2>1, <2>4, <3>1 DEF RemovalArgs
    <3>3. \A t \in Registered : tsubs[t] \subseteq S
      BY <3>1, <3>2 DEF RegistryInv, IndexesAgree, TypeInv, TypeOK
    <3>4. Registered \subseteq T
      BY <2>1, <3>3 DEF RemovalArgs
    <3>5. QED
      BY <2>2, <2>4, <3>1, <3>4
  <2>5. QED
    BY <2>1, <2>3, <2>4
<1>3. QED
  BY <1>1, <1>2, StepShape DEF Shapes, Quiet, JoinTrigger, CreateTrigger,
     TailStep, CloseCompleted, CancelStep, CancelTrigger

-----------------------------------------------------------------------------
(* The theorems.                                                           *)

\* SafetyInv is inductive.
LEMMA SafetyStep == SafetyInv /\ [Next]_vars => SafetyInv'
BY RegistryStep, ClosingStep, WritesStep, OrphanStep, CountStep, ShutdownStep DEF SafetyInv

\* Nothing is registered, removed or written to at first.
LEMMA SafetyInit == Init => SafetyInv
<1> SUFFICES ASSUME Init PROVE SafetyInv
  OBVIOUS
<1>1. RegistryInv
  BY RegistryInit
<1>2. ClosingInv /\ NoWriteAfterCompleted
  BY DEF Init, ClosingInv, CompletedClosedOnce, TailsOwed, NoWriteAfterCompleted
<1>3. NoOrphanedTrigger /\ ShutdownIsFinal
  BY DEF Init, NoOrphanedTrigger, ShutdownIsFinal
<1>4. SubscriptionCountExact
  BY FS_EmptySet DEF Init, SubscriptionCountExact
<1>5. QED
  BY <1>1, <1>2, <1>3, <1>4 DEF SafetyInv

\* SafetyInv holds in every reachable state; the theorems below are its parts.
THEOREM SafetyInvariant == Spec => []SafetyInv
BY SafetyInit, SafetyStep, PTL DEF Spec

\* Whoever removes a subscription, and however many do so at once (its client, its updater,
\* a failed write, a failed startup, the shutdown), its completed channel is closed at most
\* once, and only after removed was set: close never panics.
THEOREM ClosedAtMostOnce == Spec => []CompletedClosedOnce
<1>1. SafetyInv => CompletedClosedOnce
  BY DEF SafetyInv, ClosingInv
<1>2. QED
  BY <1>1, SafetyInvariant, PTL

\* No update, heartbeat or formatted error is being written to a client whose completed
\* channel is closed, whichever goroutine writes and whichever removes.
THEOREM NoLateWrite == Spec => []NoWriteAfterCompleted
<1>1. SafetyInv => NoWriteAfterCompleted
  BY DEF SafetyInv
<1>2. QED
  BY <1>1, SafetyInvariant, PTL

\* A trigger that left the registry is cancelled or in the tail of whoever detached it.
THEOREM TriggersAreCancelled == Spec => []NoOrphanedTrigger
<1>1. SafetyInv => NoOrphanedTrigger
  BY DEF SafetyInv
<1>2. QED
  BY <1>1, SafetyInvariant, PTL

\* The Reporter's subscription count never drifts from the number of registered
\* subscriptions, although a removal may be asked for ids that have already left.
THEOREM CountIsExact == Spec => []SubscriptionCountExact
<1>1. SafetyInv => SubscriptionCountExact
  BY DEF SafetyInv
<1>2. QED
  BY <1>1, SafetyInvariant, PTL

\* After shutdownResolver the registry is empty and stays so.
THEOREM ShutdownStaysFinal == Spec => []ShutdownIsFinal
<1>1. SafetyInv => ShutdownIsFinal
  BY DEF SafetyInv
<1>2. QED
  BY <1>1, SafetyInvariant, PTL

=============================================================================
