---------------------- MODULE SubgraphSingleFlightProofs ----------------------
(***************************************************************************)
(* The single flight of subgraph requests for any number of requests, keys  *)
(* and any window: no stored item is finished, the size estimate is         *)
(* bounded, and every behaviour is one of the abstract SingleFlight.        *)
(***************************************************************************)
EXTENDS SubgraphSingleFlight, TLAPS

\* An average of n numbers, none above m, is not above m.
LEMMA AverageBounded ==
    ASSUME NEW n \in Nat \ {0}, NEW m \in Nat, NEW t \in Nat, t <= n * m
    PROVE  t \div n \in Nat /\ t \div n <= m
<1> DEFINE q == t \div n
<1>1. q \in Int /\ n * q <= t /\ q >= 0
  OBVIOUS
<1>2. ASSUME q >= m + 1 PROVE FALSE
  <2>1. n * q >= n * (m + 1)
    BY <1>1, <1>2
  <2>2. n * (m + 1) = n * m + n
    OBVIOUS
  <2>3. n * m \in Nat /\ n * q \in Int
    BY <1>1
  <2> QED BY <1>1, <2>1, <2>2, <2>3
<1> QED BY <1>1, <1>2

Leading == {"hint", "load", "store", "delete", "close", "size"}

\* What a request's program counter says of its item and its outcome.
Books(r) ==
    /\ pc[r] = "new" => item[r] = NoReq /\ out[r] = None
    /\ pc[r] \in Leading => item[r] = r /\ r \notin Direct
    /\ pc[r] \in {"hint", "load", "wait", "direct"} => out[r] = None
    /\ pc[r] \in {"store", "delete", "close", "size"} => out[r] \in Outcomes
    /\ pc[r] \in {"delete", "close", "size"} => result[r] = out[r]
    /\ pc[r] = "direct" => item[r] = r /\ r \in Direct
    /\ pc[r] = "wait" => item[r] \in Reqs \ {r}
    /\ pc[r] = "done" => item[r] \in Reqs

\* The item somebody else holds belongs to a leader.
FollowsLeader == \A r \in Reqs : item[r] \notin {r, NoReq} => item[item[r]] = item[r]
                                                           /\ item[r] \notin Direct

\* A stored item is its leader's, who has still to delete it.
StoredByLeader ==
    \A k \in Keys : items[k] # NoReq =>
        key[items[k]] = k /\ pc[items[k]] \in {"hint", "load", "store", "delete"}

\* An item is closed by its leader only, after the result was stored.
ClosedByLeader ==
    \A l \in Reqs : /\ l \in loaded => /\ pc[l] \in {"size", "done"}
                                       /\ item[l] = l /\ l \notin Direct
                                       /\ result[l] = out[l] /\ out[l] \in Outcomes
                    /\ pc[l] \in {"size", "done"} /\ item[l] = l /\ l \notin Direct => l \in loaded

\* The inductive invariant.
FlightInv ==
    /\ TypeOK /\ (\A r \in Reqs : Books(r))
    /\ FollowsLeader /\ StoredByLeader /\ ClosedByLeader /\ SizeHintBounded

\* The hint of a leader is an average of responses.
LEMMA HintBounded ==
    ASSUME FlightInv, count > 0
    PROVE  totalBytes \div count \in Nat /\ totalBytes \div count <= MaxLen
<1>1. count \in Nat \ {0} /\ totalBytes \in Nat /\ MaxLen \in Nat /\ totalBytes <= count * MaxLen
  BY SubgraphAssumption DEF FlightInv, TypeOK, SizeHintBounded
<1> HIDE DEF FlightInv
<1> QED BY <1>1, AverageBounded

\* The types and the bounds of the size estimate are kept by every step.
LEMMA FlightTypeStep == FlightInv /\ [Next]_vars => (TypeOK /\ SizeHintBounded)'
<1> SUFFICES ASSUME FlightInv, [Next]_vars PROVE (TypeOK /\ SizeHintBounded)'
  OBVIOUS
<1> USE SubgraphAssumption DEF FlightInv, TypeOK, SizeHintBounded, Outcomes
<1>1. ASSUME NEW r \in Reqs, CreateItem(r) PROVE (TypeOK /\ SizeHintBounded)'
  BY <1>1 DEF CreateItem, Goto, itemVars, sizeVars
<1>2. ASSUME NEW r \in Reqs, JoinItem(r) PROVE (TypeOK /\ SizeHintBounded)'
  BY <1>2 DEF JoinItem, Goto, itemVars, sizeVars
<1>3. ASSUME NEW r \in Reqs, StartDirect(r) PROVE (TypeOK /\ SizeHintBounded)'
  BY <1>3 DEF StartDirect, Goto, itemVars, sizeVars
<1>4. ASSUME NEW r \in Reqs, ReadSizeHint(r) PROVE (TypeOK /\ SizeHintBounded)'
  <2>1. count > 0 => totalBytes \div count \in Nat /\ totalBytes \div count <= MaxLen
    BY HintBounded
  <2> QED BY <1>4, <2>1 DEF ReadSizeHint, Goto, itemVars
<1>5. ASSUME NEW r \in Reqs, StoreResult(r) PROVE (TypeOK /\ SizeHintBounded)'
  BY <1>5 DEF StoreResult, Goto, itemVars, sizeVars, Books
<1>6. ASSUME NEW r \in Reqs, DeleteItem(r) PROVE (TypeOK /\ SizeHintBounded)'
  BY <1>6 DEF DeleteItem, Goto, itemVars, sizeVars
<1>7. ASSUME NEW r \in Reqs, CloseLoaded(r) PROVE (TypeOK /\ SizeHintBounded)'
  BY <1>7 DEF CloseLoaded, Goto, itemVars, sizeVars, Books, Leading
<1>8. ASSUME NEW r \in Reqs, UpdateSize(r) PROVE (TypeOK /\ SizeHintBounded)'
  <2>1. count = Window => totalBytes \div Window \in Nat /\ totalBytes \div Window <= MaxLen
    BY AverageBounded
  <2>2. Length(result[r]) \in Nat /\ Length(result[r]) <= MaxLen
    BY <1>8 DEF UpdateSize, Goto, Books, Leading, Length
  <2>3. CASE count = Window
    <3>1. totalBytes' \in Nat /\ totalBytes' <= 2 * MaxLen /\ count' = 2
      BY <1>8, <2>1, <2>2, <2>3 DEF UpdateSize
    <3> QED BY <1>8, <3>1 DEF UpdateSize, Goto, itemVars
  <2>4. CASE count # Window
    <3>1. count' = count + 1 /\ count' \in Nat /\ count' <= Window
      BY <1>8, <2>4 DEF UpdateSize
    <3>2. totalBytes' \in Nat /\ totalBytes' <= totalBytes + MaxLen
      BY <1>8, <2>2, <2>4 DEF UpdateSize
    <3>3. count' * MaxLen = count * MaxLen + MaxLen /\ count * MaxLen \in Nat
      BY <3>1
    <3>4. totalBytes' <= count' * MaxLen
      BY <3>1, <3>2, <3>3
    <3> QED BY <1>8, <3>1, <3>2, <3>4 DEF UpdateSize, Goto, itemVars
  <2> QED BY <2>3, <2>4
<1>9. ASSUME NEW r \in Reqs, FollowerReturns(r) PROVE (TypeOK /\ SizeHintBounded)'
  BY <1>9 DEF FollowerReturns, Goto, itemVars, sizeVars
<1>10. ASSUME NEW r \in Reqs, FollowerCancelled(r) PROVE (TypeOK /\ SizeHintBounded)'
  BY <1>10 DEF FollowerCancelled, Goto, itemVars, sizeVars
<1>11. ASSUME NEW r \in Reqs, NEW o \in Outcomes, loadByContextDirect(r, o) PROVE (TypeOK /\ SizeHintBounded)'
  BY <1>11 DEF loadByContextDirect, Goto, itemVars, sizeVars
<1>12. CASE UNCHANGED vars
  BY <1>12 DEF vars, itemVars, sizeVars
<1> QED BY <1>1, <1>2, <1>3, <1>4, <1>5, <1>6, <1>7, <1>8, <1>9, <1>10, <1>11, <1>12
     DEF Next, GetOrCreateItem, LeaderStep

\* Who leads, who follows and what is stored stay in step.
LEMMA FlightBooksStep ==
    FlightInv /\ [Next]_vars =>
        ((\A r \in Reqs : Books(r)) /\ FollowsLeader /\ StoredByLeader /\ ClosedByLeader)'
<1> DEFINE Kept == (\A q \in Reqs : Books(q)) /\ FollowsLeader /\ StoredByLeader /\ ClosedByLeader
<1> SUFFICES ASSUME FlightInv, [Next]_vars PROVE Kept'
  OBVIOUS
<1> USE SubgraphAssumption DEF FlightInv, TypeOK, Books, Leading, FollowsLeader, StoredByLeader,
        ClosedByLeader, Outcomes
<1>1. ASSUME NEW r \in Reqs, CreateItem(r) PROVE Kept'
  BY <1>1 DEF CreateItem, Goto, itemVars, sizeVars
<1>2. ASSUME NEW r \in Reqs, JoinItem(r) PROVE Kept'
  BY <1>2 DEF JoinItem, Goto, itemVars, sizeVars
<1>3. ASSUME NEW r \in Reqs, StartDirect(r) PROVE Kept'
  BY <1>3 DEF StartDirect, Goto, itemVars, sizeVars
<1>4. ASSUME NEW r \in Reqs, ReadSizeHint(r) PROVE Kept'
  BY <1>4 DEF ReadSizeHint, Goto, itemVars, sizeVars
<1>5. ASSUME NEW r \in Reqs, StoreResult(r) PROVE Kept'
  BY <1>5 DEF StoreResult, Goto, itemVars, sizeVars
<1>6. ASSUME NEW r \in Reqs, DeleteItem(r) PROVE Kept'
  BY <1>6 DEF DeleteItem, Goto, itemVars, sizeVars
<1>7. ASSUME NEW r \in Reqs, CloseLoaded(r) PROVE Kept'
  BY <1>7 DEF CloseLoaded, Goto, itemVars, sizeVars
<1>8. ASSUME NEW r \in Reqs, UpdateSize(r) PROVE Kept'
  BY <1>8 DEF UpdateSize, Goto, itemVars, sizeVars
<1>9. ASSUME NEW r \in Reqs, FollowerReturns(r) PROVE Kept'
  BY <1>9 DEF FollowerReturns, Goto, itemVars, sizeVars
<1>10. ASSUME NEW r \in Reqs, FollowerCancelled(r) PROVE Kept'
  BY <1>10 DEF FollowerCancelled, Goto, itemVars, sizeVars
<1>11. ASSUME NEW r \in Reqs, NEW o \in Outcomes, loadByContextDirect(r, o) PROVE Kept'
  BY <1>11 DEF loadByContextDirect, Goto, itemVars, sizeVars
<1>12. CASE UNCHANGED vars
  BY <1>12 DEF vars, itemVars, sizeVars
<1> QED BY <1>1, <1>2, <1>3, <1>4, <1>5, <1>6, <1>7, <1>8, <1>9, <1>10, <1>11, <1>12
     DEF Next, GetOrCreateItem, LeaderStep

LEMMA FlightInvHolds == Spec => []FlightInv
<1>1. Init => FlightInv
  BY SubgraphAssumption DEF Init, FlightInv, TypeOK, Books, Leading, FollowsLeader,
     StoredByLeader, ClosedByLeader, SizeHintBounded, Outcomes
<1>2. FlightInv /\ [Next]_vars => FlightInv'
  BY FlightTypeStep, FlightBooksStep DEF FlightInv
<1> QED BY <1>1, <1>2, PTL DEF Spec

\* For any number of requests and keys: an item found in shard.items is one whose
\* loaded channel is still open, so GetOrCreateItem never hands out a finished flight.
THEOREM FlightStoredOpen == Spec => []StoredItemsAreOpen
<1>1. FlightInv => StoredItemsAreOpen
  BY DEF FlightInv, TypeOK, StoredByLeader, ClosedByLeader, StoredItemsAreOpen
<1> QED BY <1>1, FlightInvHolds, PTL

\* For any window and any bound on responses: the average that fetchSize hands out
\* as a size hint never exceeds the longest response.
THEOREM FlightSizeHint == Spec => []SizeHintBounded
BY FlightInvHolds, PTL DEF FlightInv

\* One request returns, seen through the refinement mapping.
LEMMA OneReturns ==
    ASSUME NEW r \in Reqs, NEW o,
           \A q \in Reqs : Outcome(q)' = IF q = r THEN o ELSE Outcome(q)
    PROVE  [q \in Reqs |-> Outcome(q)]' = [[q \in Reqs |-> Outcome(q)] EXCEPT ![r] = o]
OBVIOUS

\* A step of loadByContext is a step of the abstract single flight, or none.
LEMMA FlightStep == FlightInv /\ FlightInv' /\ [Next]_vars => [Flight!FlightNext]_(Flight!flightVars)
<1> SUFFICES ASSUME FlightInv, FlightInv', [Next]_vars
             PROVE  [Flight!FlightNext]_(Flight!flightVars)
  OBVIOUS
<1> USE SubgraphAssumption DEF FlightInv, TypeOK, Books, Leading, FollowsLeader, StoredByLeader,
        ClosedByLeader, Outcomes
<1>1. ASSUME NEW r \in Reqs, CreateItem(r) PROVE [Flight!FlightNext]_(Flight!flightVars)
  <2>1. [q \in Reqs |-> Outcome(q)]' = [q \in Reqs |-> Outcome(q)]
    BY <1>1 DEF CreateItem, Goto, itemVars, sizeVars, Outcome
  <2>2. Flight!Lead(r)
    BY <1>1, <2>1 DEF CreateItem, Goto, itemVars, Outcome, Flight!Lead, Flight!Follow
  <2> QED BY <1>1, <2>2 DEF Flight!FlightNext
<1>2. ASSUME NEW r \in Reqs, JoinItem(r) PROVE [Flight!FlightNext]_(Flight!flightVars)
  <2>1. [q \in Reqs |-> Outcome(q)]' = [q \in Reqs |-> Outcome(q)]
    BY <1>2 DEF JoinItem, Goto, itemVars, sizeVars, Outcome
  <2>2. items[key[r]] \in Reqs /\ Flight!Follow(r, items[key[r]])
    BY <1>2, <2>1 DEF JoinItem, Goto, itemVars, Outcome, Flight!Lead, Flight!Follow
  <2> QED BY <1>2, <2>2 DEF Flight!FlightNext
<1>3. ASSUME NEW r \in Reqs, StartDirect(r) PROVE [Flight!FlightNext]_(Flight!flightVars)
  <2>1. [q \in Reqs |-> Outcome(q)]' = [q \in Reqs |-> Outcome(q)]
    BY <1>3 DEF StartDirect, Goto, itemVars, sizeVars, Outcome
  <2>2. Flight!Lead(r)
    BY <1>3, <2>1 DEF StartDirect, Goto, itemVars, Outcome, Flight!Lead, Flight!Follow
  <2> QED BY <1>3, <2>2 DEF Flight!FlightNext
<1>4. ASSUME NEW r \in Reqs, ReadSizeHint(r) PROVE [Flight!FlightNext]_(Flight!flightVars)
  <2>1. [q \in Reqs |-> Outcome(q)]' = [q \in Reqs |-> Outcome(q)]
    BY <1>4 DEF ReadSizeHint, Goto, itemVars, sizeVars, Outcome
  <2> QED BY <1>4, <2>1 DEF ReadSizeHint, Goto, itemVars, Flight!flightVars
<1>5. ASSUME NEW r \in Reqs, StoreResult(r) PROVE [Flight!FlightNext]_(Flight!flightVars)
  <2>1. [q \in Reqs |-> Outcome(q)]' = [q \in Reqs |-> Outcome(q)]
    BY <1>5 DEF StoreResult, Goto, itemVars, sizeVars, Outcome
  <2> QED BY <1>5, <2>1 DEF StoreResult, Goto, itemVars, Flight!flightVars
<1>6. ASSUME NEW r \in Reqs, DeleteItem(r) PROVE [Flight!FlightNext]_(Flight!flightVars)
  <2>1. [q \in Reqs |-> Outcome(q)]' = [q \in Reqs |-> Outcome(q)]
    BY <1>6 DEF DeleteItem, Goto, itemVars, sizeVars, Outcome
  <2> QED BY <1>6, <2>1 DEF DeleteItem, Goto, itemVars, Flight!flightVars
<1>7. ASSUME NEW r \in Reqs, CloseLoaded(r) PROVE [Flight!FlightNext]_(Flight!flightVars)
  <2> DEFINE oc == [q \in Reqs |-> Outcome(q)]
  <2>1. oc' = [oc EXCEPT ![r] = out[r]]
    BY <1>7 DEF CloseLoaded, Goto, itemVars, sizeVars, Outcome
  <2>2. out[r] \in Outcomes /\ Flight!FinishFlight(r, out[r])
    BY <1>7, <2>1 DEF CloseLoaded, Goto, itemVars, sizeVars, Outcome,
       Flight!FinishFlight, Flight!GiveUp, Flight!Return
  <2> QED BY <2>2 DEF Flight!FlightNext
<1>8. ASSUME NEW r \in Reqs, UpdateSize(r) PROVE [Flight!FlightNext]_(Flight!flightVars)
  <2>1. [q \in Reqs |-> Outcome(q)]' = [q \in Reqs |-> Outcome(q)]
    BY <1>8 DEF UpdateSize, Goto, itemVars, sizeVars, Outcome
  <2> QED BY <1>8, <2>1 DEF UpdateSize, Goto, itemVars, Flight!flightVars
<1>9. ASSUME NEW r \in Reqs, FollowerReturns(r) PROVE [Flight!FlightNext]_(Flight!flightVars)
  <2> DEFINE oc == [q \in Reqs |-> Outcome(q)]
  <2>1. item[r] \in Reqs \ {r} /\ item[r] \in loaded /\ out[r] = None
    BY <1>9 DEF FollowerReturns, Goto
  <2>2. oc[item[r]] = result[item[r]] /\ result[item[r]] # None /\ oc[r] = None
    BY <2>1 DEF Outcome
  <2>3. \A q \in Reqs : Outcome(q)' = IF q = r THEN result[item[r]] ELSE Outcome(q)
    BY <1>9, <2>1 DEF FollowerReturns, itemVars, Outcome
  <2>4. oc' = [oc EXCEPT ![r] = oc[item[r]]]
    BY <2>2, <2>3
  <2>5. item' = item
    BY <1>9 DEF FollowerReturns, itemVars
  <2>6. Flight!Share(r)
    BY <2>1, <2>2, <2>4, <2>5 DEF Flight!Share, Flight!Return
  <2> QED BY <2>6 DEF Flight!FlightNext
<1>10. ASSUME NEW r \in Reqs, FollowerCancelled(r) PROVE [Flight!FlightNext]_(Flight!flightVars)
  <2> DEFINE oc == [q \in Reqs |-> Outcome(q)]
  <2>1. oc' = [oc EXCEPT ![r] = GaveUp]
    <3>1. \A q \in Reqs : Outcome(q)' = IF q = r THEN GaveUp ELSE Outcome(q)
      BY <1>10 DEF FollowerCancelled, Goto, itemVars, sizeVars, Outcome
    <3> QED BY <3>1, OneReturns, SMTT(30)
  <2>2. Flight!GiveUp(r)
    BY <1>10, <2>1 DEF FollowerCancelled, Goto, itemVars, sizeVars, Outcome,
       Flight!FinishFlight, Flight!GiveUp, Flight!Return
  <2> QED BY <2>2 DEF Flight!FlightNext
<1>11. ASSUME NEW r \in Reqs, NEW o \in Outcomes, loadByContextDirect(r, o) PROVE [Flight!FlightNext]_(Flight!flightVars)
  <2>1. CASE pc[r] = "load"
    <3>1. [q \in Reqs |-> Outcome(q)]' = [q \in Reqs |-> Outcome(q)]
      BY <1>11, <2>1 DEF loadByContextDirect, Goto, itemVars, sizeVars, Outcome
    <3> QED BY <1>11, <3>1 DEF loadByContextDirect, itemVars, Flight!flightVars
  <2>2. CASE pc[r] = "direct"
    <3> DEFINE oc == [q \in Reqs |-> Outcome(q)]
    <3>1. \A q \in Reqs : Outcome(q)' = IF q = r THEN o ELSE Outcome(q)
      BY <1>11, <2>2 DEF loadByContextDirect, Goto, itemVars, Outcome
    <3>2. oc' = [oc EXCEPT ![r] = o]
      BY <3>1, OneReturns, SMTT(30)
    <3>3. Flight!FinishFlight(r, o)
      BY <1>11, <2>2, <3>2 DEF loadByContextDirect, Goto, itemVars, Outcome,
         Flight!FinishFlight, Flight!Return
    <3> QED BY <3>3 DEF Flight!FlightNext
  <2> QED BY <1>11, <2>1, <2>2 DEF loadByContextDirect, Goto
<1>12. CASE UNCHANGED vars
  BY <1>12 DEF vars, itemVars, Outcome, Flight!flightVars
<1> QED BY <1>1, <1>2, <1>3, <1>4, <1>5, <1>6, <1>7, <1>8, <1>9, <1>10, <1>11, <1>12
     DEF Next, GetOrCreateItem, LeaderStep

\* For any number of requests and keys loadByContext with its shared items implements
\* the abstract single flight: one request per flight, followers end with its outcome.
THEOREM FlightRefines == Spec => RefinesSingleFlight
<1>1. Init => Flight!FlightInit
  BY SubgraphAssumption DEF Init, Outcome, Flight!FlightInit
<1> QED BY <1>1, FlightStep, FlightInvHolds, PTL DEF Spec, RefinesSingleFlight, Flight!FlightSpec
=============================================================================
