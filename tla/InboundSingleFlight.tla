-------------------------- MODULE InboundSingleFlight --------------------------
(***************************************************************************)
(* InboundRequestSingleFlight (inbound_request_singleflight.go) as         *)
(* Resolver.ArenaResolveGraphQLResponse (resolve.go) uses it: identical    *)
(* queries that arrive while one is being resolved wait for its bytes.     *)
(* One key is modelled: requests with different keys share nothing but the *)
(* concurrency limit.                                                      *)
(***************************************************************************)
EXTENDS Integers, FiniteSets

CONSTANTS
    Reqs,       \* calls of ArenaResolveGraphQLResponse with the same key
    Slots,      \* capacity of the maxConcurrency semaphore
    NoReq

ASSUME InboundAssumption ==
    /\ IsFiniteSet(Reqs)
    /\ NoReq \notin Reqs
    /\ Slots \in Nat \ {0}

VARIABLES
    pc,          \* where ArenaResolveGraphQLResponse is
    stored,      \* the InflightRequest in the shard's map, named after its creator
    inflight,    \* the InflightRequest a call holds
    followers,   \* followerCount
    data, shared, err,   \* InflightRequests with Data, SharedData, Err set
    closes,      \* how often close(Done) ran
    slots,       \* tokens left in maxConcurrency
    ok,          \* resolving succeeded
    reply        \* how the call ended

vars == <<pc, stored, inflight, followers, data, shared, err, closes, slots, ok, reply>>

Init ==
    /\ pc = [r \in Reqs |-> "new"]
    /\ stored = NoReq
    /\ inflight = [r \in Reqs |-> NoReq]
    /\ followers = [r \in Reqs |-> 0]
    /\ data = {} /\ shared = {} /\ err = {}
    /\ closes = [r \in Reqs |-> 0]
    /\ slots = Slots
    /\ ok = [r \in Reqs |-> TRUE]
    /\ reply = [r \in Reqs |-> "none"]

Goto(r, from, to) == pc[r] = from /\ pc' = [pc EXCEPT ![r] = to]

\* GetOrCreate: LoadOrStore.
CreateInflight(r) ==
    /\ stored = NoReq
    /\ Goto(r, "new", "acquire")
    /\ stored' = r
    /\ inflight' = [inflight EXCEPT ![r] = r]
    /\ UNCHANGED <<followers, data, shared, err, closes, slots, ok, reply>>

JoinInflight(r) ==
    /\ stored # NoReq
    /\ Goto(r, "new", "joined")
    /\ inflight' = [inflight EXCEPT ![r] = stored]
    /\ UNCHANGED <<stored, followers, data, shared, err, closes, slots, ok, reply>>

AddFollower(r) ==
    /\ Goto(r, "joined", "wait")
    /\ followers' = [followers EXCEPT ![inflight[r]] = @ + 1]
    /\ UNCHANGED <<stored, inflight, data, shared, err, closes, slots, ok, reply>>

\* The follower is woken by close(Done): the leader's error, its bytes, or, if there are
\* none, the call goes on to resolve the request itself.
FollowerWakes(r) ==
    /\ pc[r] = "wait"
    /\ closes[inflight[r]] > 0
    /\ LET o == inflight[r]
           goesOn == o \notin err /\ o \notin data
       IN  /\ pc' = [pc EXCEPT ![r] = IF goesOn THEN "acquire" ELSE "done"]
           /\ reply' = [reply EXCEPT ![r] = IF o \in err THEN "error"
                                            ELSE IF goesOn THEN @
                                            ELSE IF o \in shared THEN "shared"
                                            ELSE "sharedWithoutHeaders"]
    /\ UNCHANGED <<stored, inflight, followers, data, shared, err, closes, slots, ok>>

FollowerCancelled(r) ==
    /\ Goto(r, "wait", "done")
    /\ reply' = [reply EXCEPT ![r] = "cancelled"]
    /\ UNCHANGED <<stored, inflight, followers, data, shared, err, closes, slots, ok>>

AcquireSlot(r) ==
    /\ slots > 0
    /\ Goto(r, "acquire", "resolve")
    /\ slots' = slots - 1
    /\ UNCHANGED <<stored, inflight, followers, data, shared, err, closes, ok, reply>>

\* Mutant: SharedData is not set before FinishOk.
ResolveWithoutSharing(r, success) ==
    /\ Goto(r, "resolve", "delete")
    /\ ok' = [ok EXCEPT ![r] = success]
    /\ UNCHANGED <<stored, inflight, followers, data, shared, err, closes, slots, reply>>

\* Init, authorization, loading or rendering fails; or the response is written to the client.
Resolve(r, success) ==
    /\ Goto(r, "resolve", IF success THEN "share" ELSE "delete")
    /\ ok' = [ok EXCEPT ![r] = success]
    /\ UNCHANGED <<stored, inflight, followers, data, shared, err, closes, slots, reply>>

\* inflight.SharedData is set before FinishOk.
SetSharedData(r) ==
    /\ Goto(r, "share", "delete")
    /\ shared' = shared \cup {inflight[r]}
    /\ UNCHANGED <<stored, inflight, followers, data, err, closes, slots, ok, reply>>

\* FinishOk and FinishErr delete whatever is stored under the key.
DeleteInflight(r) ==
    /\ Goto(r, "delete", "publish")
    /\ stored' = NoReq
    /\ UNCHANGED <<inflight, followers, data, shared, err, closes, slots, ok, reply>>

\* FinishOk copies the bytes if there are followers; FinishErr sets Err.
PublishResult(r) ==
    LET o == inflight[r] IN
    /\ Goto(r, "publish", "close")
    /\ data' = IF ok[r] /\ followers[o] > 0 THEN data \cup {o} ELSE data
    /\ err' = IF ok[r] THEN err ELSE err \cup {o}
    /\ UNCHANGED <<stored, inflight, followers, shared, closes, slots, ok, reply>>

\* Mutant: FinishErr does not close Done.
CloseAfterSuccess(r) ==
    LET o == inflight[r] IN
    /\ Goto(r, "close", "release")
    /\ closes' = [closes EXCEPT ![o] = IF ok[r] THEN @ + 1 ELSE @]
    /\ reply' = [reply EXCEPT ![r] = IF ok[r] THEN "own" ELSE "error"]
    /\ UNCHANGED <<stored, inflight, followers, data, shared, err, slots, ok>>

\* close(Done): closing a closed channel panics.
CloseDone(r) ==
    LET o == inflight[r] IN
    /\ Goto(r, "close", "release")
    /\ closes' = [closes EXCEPT ![o] = @ + 1]
    /\ reply' = [reply EXCEPT ![r] = IF closes[o] > 0 THEN "panic"
                                     ELSE IF ok[r] THEN "own" ELSE "error"]
    /\ UNCHANGED <<stored, inflight, followers, data, shared, err, slots, ok>>

\* Mutant: the token is not put back by a deferred function.
ReleaseUnlessPanic(r) ==
    /\ Goto(r, "release", "done")
    /\ slots' = IF reply[r] = "panic" THEN slots ELSE slots + 1
    /\ UNCHANGED <<stored, inflight, followers, data, shared, err, closes, ok, reply>>

\* The deferred function puts the token back, after a panic too.
ReleaseSlot(r) ==
    /\ Goto(r, "release", "done")
    /\ slots' = slots + 1
    /\ UNCHANGED <<stored, inflight, followers, data, shared, err, closes, ok, reply>>

LeaderStep(r) ==
    \/ AddFollower(r)
    \/ Resolve(r, TRUE) \/ Resolve(r, FALSE)
    \/ SetSharedData(r) \/ DeleteInflight(r) \/ PublishResult(r) \/ CloseDone(r) \/ ReleaseSlot(r)

Next ==
    \E r \in Reqs :
        \/ CreateInflight(r) \/ JoinInflight(r)
        \/ FollowerWakes(r) \/ FollowerCancelled(r)
        \/ AcquireSlot(r) \/ LeaderStep(r)

Spec == Init /\ [][Next]_vars

\* Goroutines run, resolving ends, and the semaphore's channel serves its waiters in turn.
FairSpec ==
    /\ Spec
    /\ \A r \in Reqs : /\ WF_vars(LeaderStep(r)) /\ WF_vars(FollowerWakes(r))
                        /\ SF_vars(AcquireSlot(r))

-----------------------------------------------------------------------------
\* "SharedData MUST be set BEFORE FinishOk": no follower is served the leader's bytes
\* without the state (response headers) that goes with them.
SharedDataBeforeBytes == \A r \in Reqs : reply[r] # "sharedWithoutHeaders"

\* A call waits for a leader without holding a slot of maxConcurrency, so that even with a
\* single slot the tokens add up: a token is missing exactly for each call that resolves.
SlotsConserved ==
    slots + Cardinality({r \in Reqs : pc[r] \in {"resolve", "share", "delete", "publish",
                                                  "close", "release"}}) = Slots

\* Every request gets an answer, with any number of slots.
EveryRequestReturns == \A r \in Reqs : pc[r] # "new" ~> pc[r] = "done"

\* "The first caller to create an InflightRequest for a given key is a leader, everyone else
\* a follower": only the leader finishes an InflightRequest, once.
FinishedOnlyByLeader == \A r \in Reqs : closes[r] <= 1
=============================================================================
