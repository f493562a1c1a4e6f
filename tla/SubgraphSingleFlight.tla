------------------------- MODULE SubgraphSingleFlight -------------------------
(***************************************************************************)
(* SubgraphRequestSingleFlight (subgraph_request_singleflight.go) as       *)
(* Loader.loadByContext (loader.go) uses it: fetches with the same key     *)
(* share one subgraph request, and the sizes of the last responses give    *)
(* the next leader a buffer size hint.                                     *)
(***************************************************************************)
EXTENDS Integers, FiniteSets

CONSTANTS
    Reqs,       \* calls of loadByContext
    Direct,     \* those singleFlightAllowed refuses, e.g. fetches of a mutation
    Keys,       \* values of computeSFKey; all share one fetchKey
    Window,     \* 50 in the code: responses a size estimate remembers
    MaxLen,     \* bound on the length of a response
    NoReq, None, GaveUp, Failed

ASSUME SubgraphAssumption ==
    /\ Direct \subseteq Reqs
    /\ NoReq \notin Reqs
    /\ Window \in Nat \ {0, 1}
    /\ MaxLen \in Nat
    /\ None \notin (0..MaxLen) \cup {GaveUp, Failed}
    /\ GaveUp \notin (0..MaxLen) \cup {Failed}
    /\ Failed \notin 0..MaxLen

VARIABLES
    pc,          \* where loadByContext is
    key,         \* the request's sfKey
    items,       \* shard.items: key -> request whose SingleFlightItem is stored
    item,        \* the SingleFlightItem a request holds, named after its creator
    result,      \* item.response or item.err, as the leader set it
    loaded,      \* items whose loaded channel is closed
    out,         \* what loadByContext returns
    count, totalBytes,   \* fetchSize
    hint         \* item.sizeHint

itemVars == <<items, item, result, loaded>>
sizeVars == <<count, totalBytes, hint>>
vars == <<pc, key, itemVars, out, sizeVars>>

\* A response is represented by its length.
Outcomes == (0..MaxLen) \cup {Failed}

TypeOK ==
    /\ pc \in [Reqs -> {"new", "hint", "load", "direct", "store", "wait", "delete", "close",
                        "size", "done"}]
    /\ key \in [Reqs -> Keys]
    /\ items \in [Keys -> Reqs \cup {NoReq}]
    /\ item \in [Reqs -> Reqs \cup {NoReq}]
    /\ result \in [Reqs -> Outcomes \cup {None}]
    /\ loaded \subseteq Reqs
    /\ out \in [Reqs -> Outcomes \cup {None, GaveUp}]
    /\ count \in Nat /\ totalBytes \in Nat
    /\ hint \in [Reqs -> Nat]

Init ==
    /\ pc = [r \in Reqs |-> "new"]
    /\ key \in [Reqs -> Keys]
    /\ items = [k \in Keys |-> NoReq]
    /\ item = [r \in Reqs |-> NoReq]
    /\ result = [r \in Reqs |-> None]
    /\ loaded = {}
    /\ out = [r \in Reqs |-> None]
    /\ count = 0 /\ totalBytes = 0
    /\ hint = [r \in Reqs |-> 0]

Goto(r, from, to) == pc[r] = from /\ pc' = [pc EXCEPT ![r] = to]

\* LoadOrStore stored the request's own item: it leads.
CreateItem(r) ==
    /\ r \notin Direct
    /\ items[key[r]] = NoReq
    /\ Goto(r, "new", "hint")
    /\ items' = [items EXCEPT ![key[r]] = r]
    /\ item' = [item EXCEPT ![r] = r]
    /\ UNCHANGED <<key, result, loaded, out, sizeVars>>

\* LoadOrStore found an item: the request follows.
JoinItem(r) ==
    /\ r \notin Direct
    /\ items[key[r]] # NoReq
    /\ Goto(r, "new", "wait")
    /\ item' = [item EXCEPT ![r] = items[key[r]]]
    /\ UNCHANGED <<key, items, result, loaded, out, sizeVars>>

GetOrCreateItem(r) == CreateItem(r) \/ JoinItem(r)

ReadSizeHint(r) ==
    /\ Goto(r, "hint", "load")
    /\ hint' = [hint EXCEPT ![r] = IF count > 0 THEN totalBytes \div count ELSE @]
    /\ UNCHANGED <<key, itemVars, out, count, totalBytes>>

\* A request that may not be shared loads by itself, outside the map.
StartDirect(r) ==
    /\ r \in Direct
    /\ Goto(r, "new", "direct")
    /\ item' = [item EXCEPT ![r] = r]
    /\ UNCHANGED <<key, items, result, loaded, out, sizeVars>>

\* loadByContextDirect returns a response or an error.
loadByContextDirect(r, o) ==
    /\ Goto(r, "load", "store") \/ Goto(r, "direct", "done")
    /\ out' = [out EXCEPT ![r] = o]
    /\ UNCHANGED <<key, itemVars, sizeVars>>

\* Mutant: the leader's error is not stored, so followers get an empty response.
StoreWithoutError(r) ==
    /\ Goto(r, "store", "delete")
    /\ result' = [result EXCEPT ![r] = IF out[r] = Failed THEN 0 ELSE out[r]]
    /\ UNCHANGED <<key, items, item, loaded, out, sizeVars>>

\* item.err or item.response is set before the deferred Finish runs.
StoreResult(r) ==
    /\ Goto(r, "store", "delete")
    /\ result' = [result EXCEPT ![r] = out[r]]
    /\ UNCHANGED <<key, items, item, loaded, out, sizeVars>>

\* Mutant: a failed item stays in the map.
DeleteSuccessful(r) ==
    /\ Goto(r, "delete", "close")
    /\ items' = [items EXCEPT ![key[r]] = IF result[r] = Failed THEN @ ELSE NoReq]
    /\ UNCHANGED <<key, item, result, loaded, out, sizeVars>>

\* Finish: delete the key, close loaded, update the size estimate under size.mu.
DeleteItem(r) ==
    /\ Goto(r, "delete", "close")
    /\ items' = [items EXCEPT ![key[r]] = NoReq]
    /\ UNCHANGED <<key, item, result, loaded, out, sizeVars>>

\* Mutant: loaded is closed after a successful load only.
CloseSuccessful(r) ==
    /\ Goto(r, "close", "size")
    /\ loaded' = IF result[r] = Failed THEN loaded ELSE loaded \cup {item[r]}
    /\ UNCHANGED <<key, items, item, result, out, sizeVars>>

CloseLoaded(r) ==
    /\ Goto(r, "close", "size")
    /\ loaded' = loaded \cup {item[r]}
    /\ UNCHANGED <<key, items, item, result, out, sizeVars>>

\* len(item.response), which is nil after an error.
Length(o) == IF o = Failed THEN 0 ELSE o

\* Mutant: the average kept from the last window is not counted as a response.
RestartWindow(r) ==
    /\ Goto(r, "size", "done")
    /\ count' = IF count = Window THEN 1 ELSE count + 1
    /\ totalBytes' = Length(result[r]) + (IF count = 0 THEN 0
                                          ELSE IF count = Window THEN totalBytes \div Window
                                          ELSE totalBytes)
    /\ UNCHANGED <<key, itemVars, out, hint>>

UpdateSize(r) ==
    /\ Goto(r, "size", "done")
    /\ count' = IF count = Window THEN 2 ELSE count + 1
    /\ totalBytes' = Length(result[r]) + (IF count = 0 THEN 0
                                          ELSE IF count = Window THEN totalBytes \div Window
                                          ELSE totalBytes)
    /\ UNCHANGED <<key, itemVars, out, hint>>

\* A follower takes the item's result once loaded is closed, or leaves with its context.
FollowerReturns(r) ==
    /\ item[r] \in loaded
    /\ Goto(r, "wait", "done")
    /\ out' = [out EXCEPT ![r] = result[item[r]]]
    /\ UNCHANGED <<key, itemVars, sizeVars>>

FollowerCancelled(r) ==
    /\ Goto(r, "wait", "done")
    /\ out' = [out EXCEPT ![r] = GaveUp]
    /\ UNCHANGED <<key, itemVars, sizeVars>>

LeaderStep(r) ==
    \/ ReadSizeHint(r) \/ StoreResult(r) \/ DeleteItem(r) \/ CloseLoaded(r) \/ UpdateSize(r)
    \/ \E o \in Outcomes : loadByContextDirect(r, o)

Next ==
    \E r \in Reqs :
        \/ GetOrCreateItem(r) \/ StartDirect(r)
        \/ LeaderStep(r)
        \/ FollowerReturns(r) \/ FollowerCancelled(r)

Spec == Init /\ [][Next]_vars

\* Goroutines run and subgraph requests end (the HTTP client has a timeout).  No context
\* is assumed to be cancelled.
FairSpec == Spec /\ \A r \in Reqs : WF_vars(LeaderStep(r)) /\ WF_vars(FollowerReturns(r))

-----------------------------------------------------------------------------
\* What a request's flight has come to: a leader is done when it closes loaded.
Outcome(r) ==
    IF item[r] = r /\ r \notin Direct /\ r \notin loaded THEN None ELSE out[r]

Flight == INSTANCE SingleFlight WITH
    flight <- item, outcome <- [r \in Reqs |-> Outcome(r)]

\* Every behaviour is one of the abstract single flight: one subgraph request per flight,
\* and no follower returns with anything but its leader's response or error, although the
\* item leaves the map, is closed and is read in separate steps.
RefinesSingleFlight == Flight!FlightSpec

\* The item of a finished flight is never handed to a new request: whoever finds an item in
\* the map finds one its leader has still to close.  (Stale items would replay old data.)
StoredItemsAreOpen == \A k \in Keys : items[k] # NoReq => items[k] \notin loaded

\* The size estimate never exceeds the longest response, across every wrap of its window,
\* so no leader allocates a larger buffer than some response has needed.
SizeHintBounded ==
    /\ count <= Window
    /\ totalBytes <= count * MaxLen
    /\ \A r \in Reqs : hint[r] <= MaxLen

\* Every call returns: no follower is left waiting on a flight that is over.
EveryLoadReturns == \A r \in Reqs : pc[r] # "new" ~> pc[r] = "done"
=============================================================================
