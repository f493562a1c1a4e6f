---------------------------- MODULE WSTransportProofs ----------------------------
(***************************************************************************)
(* NobodyForgotten and NothingOnClosedConnection for any number of calls,   *)
(* connections and keys. What makes them inductive: a call that has passed  *)
(* getOrDial has a connection; the read loop removes a subscription only     *)
(* after its handler was told; shutdown owes handlers a message only        *)
(* between swapping the map and removing the connection.                    *)
(***************************************************************************)
EXTENDS WSTransport, TLAPS

\* A call that has got past getOrDial holds a connection.
Attached ==
    \A s \in Subs : at[s] \in {"subscribe", "write", "undo", "live", "leave", "leaving",
                              "closing", "shutting"} => conn[s] \in Conns

\* A call that waits for a dial knows who dials.
KnowsDialer == \A s \in Subs : at[s] = "wait" => dialer[s] \in Subs

\* The message the read loop holds is for a subscription, and is dropped after
\* the handler has been called with it.
ReaderHolds ==
    \A c \in Conns : /\ reader[c] \in {"handle", "drop"} => msg[c].sub \in Subs
                     /\ reader[c] = "drop" => told[msg[c].sub] > 0

\* Handlers are owed a message only while shutdown notifies them.
OwedWhileNotifying == \A c \in Conns : stage[c] # "notify" => owed[c] = {}

\* The inductive invariant.
WSInv ==
    /\ TypeOK /\ Attached /\ KnowsDialer /\ ReaderHolds /\ OwedWhileNotifying
    /\ NobodyForgotten /\ NothingOnClosedConnection

\* The types are kept by every step.
LEMMA WSTypeStep == WSInv /\ [Next]_vars => TypeOK'
<1> SUFFICES ASSUME TypeOK, Attached, KnowsDialer, ReaderHolds, [Next]_vars PROVE TypeOK'
  BY DEF WSInv
<1> USE ConstantsAssumption DEF TypeOK, CallStates, Stages, ReaderStates, NoMsg
<1>1. CASE UNCHANGED vars
  BY <1>1 DEF vars, callVars, poolVars, connVars, readVars, timerVars, pingVars, netVars
<1>2. ASSUME NEW s \in Subs, CallStep(s) \/ CancelClient(s)
      PROVE  TypeOK'
  <2>1. CASE UsePooled(s)
    BY <2>1 DEF UsePooled, Usable, callVars, poolVars, connVars, readVars, timerVars, pingVars, netVars
  <2>2. CASE JoinDial(s)
    BY <2>2 DEF JoinDial, Usable, callVars, poolVars, connVars, readVars, timerVars, pingVars, netVars
  <2>3. CASE StartDial(s)
    BY <2>3 DEF StartDial, Usable, callVars, poolVars, connVars, readVars, timerVars, pingVars, netVars
  <2>4. CASE DialSucceeds(s)
    <3>1. PICK c \in Conns : c = CHOOSE d \in Conns : stage[d] = "none"
      BY <2>4 DEF DialSucceeds
    <3> QED BY <2>4, <3>1 DEF DialSucceeds, callVars, poolVars, connVars, readVars, timerVars, pingVars, netVars
  <2>5. CASE DialFails(s)
    BY <2>5 DEF DialFails, callVars, poolVars, connVars, readVars, timerVars, pingVars, netVars
  <2>6. CASE Publish(s)
    BY <2>6 DEF Publish, callVars, poolVars, connVars, readVars, timerVars, pingVars, netVars
  <2>7. CASE WaitOver(s)
    BY <2>7 DEF WaitOver, KnowsDialer, callVars, poolVars, connVars, readVars, timerVars, pingVars, netVars
  <2>8. CASE WaitCancelled(s)
    BY <2>8 DEF WaitCancelled, callVars, poolVars, connVars, readVars, timerVars, pingVars, netVars
  <2>9. CASE Register(s)
    BY <2>9 DEF Register, IsClosed, callVars, poolVars, connVars, readVars, timerVars, pingVars, netVars
  <2>10. CASE SubscribeSent(s)
    BY <2>10 DEF SubscribeSent, callVars, poolVars, connVars, readVars, timerVars, pingVars, netVars
  <2>11. CASE SubscribeFails(s)
    BY <2>11 DEF SubscribeFails, Attached, callVars, poolVars, connVars, readVars, timerVars, pingVars, netVars
  <2>12. CASE Drop(s)
    BY <2>12 DEF Drop, RemoveSub, Without, ClosesAtOnce, Attached, callVars, poolVars, connVars, readVars, timerVars, pingVars, netVars
  <2>13. CASE CallCloses(s)
    BY <2>13 DEF CallCloses, Shutdown, callVars, poolVars, connVars, readVars, timerVars, pingVars, netVars
  <2>14. CASE CallHasClosed(s)
    BY <2>14 DEF CallHasClosed, callVars, poolVars, connVars, readVars, timerVars, pingVars, netVars
  <2>15. CASE AfterFunc(s)
    BY <2>15 DEF AfterFunc, callVars, poolVars, connVars, readVars, timerVars, pingVars, netVars
  <2>16. CASE Unsubscribe(s)
    BY <2>16 DEF Unsubscribe, callVars, poolVars, connVars, readVars, timerVars, pingVars, netVars
  <2>17. CASE CancelClient(s)
    BY <2>17 DEF CancelClient, callVars, poolVars, connVars, readVars, timerVars, pingVars, netVars
  <2> QED BY <1>2, <2>1, <2>2, <2>3, <2>4, <2>5, <2>6, <2>7, <2>8, <2>9, <2>10, <2>11, <2>12, <2>13, <2>14, <2>15, <2>16, <2>17 DEF CallStep
<1>3. ASSUME NEW c \in Conns, ReaderStep(c) \/ ShutdownStep(c) \/ TimerFires(c) \/ TimerCloses(c)
             \/ Break(c) \/ GoSilent(c) \/ PingConn(c)
      PROVE  TypeOK'
  <2>1. CASE Handle(c)
    BY <2>1 DEF Handle, NextRead, ReaderHolds, IsClosed, callVars, poolVars, connVars, readVars, timerVars, pingVars, netVars
  <2>2. CASE ReaderDrops(c)
    BY <2>2 DEF ReaderDrops, RemoveSub, Without, ClosesAtOnce, NextRead, ReaderHolds, IsClosed, callVars, poolVars, connVars, readVars, timerVars, pingVars, netVars
  <2>3. CASE ReaderCloses(c)
    BY <2>3 DEF ReaderCloses, Shutdown, callVars, poolVars, connVars, readVars, timerVars, pingVars, netVars
  <2>4. CASE ReadFails(c)
    BY <2>4 DEF ReadFails, Shutdown, callVars, poolVars, connVars, readVars, timerVars, pingVars, netVars
  <2>5. CASE CloseSocket(c)
    BY <2>5 DEF CloseSocket, callVars, poolVars, connVars, readVars, timerVars, pingVars, netVars
  <2>6. CASE SwapSubs(c)
    BY <2>6 DEF SwapSubs, callVars, poolVars, connVars, readVars, timerVars, pingVars, netVars
  <2>7. CASE RemoveConn(c)
    BY <2>7 DEF RemoveConn, callVars, poolVars, connVars, readVars, timerVars, pingVars, netVars
  <2>8. CASE TimerFires(c)
    BY <2>8 DEF TimerFires, callVars, poolVars, connVars, readVars, timerVars, pingVars, netVars
  <2>9. CASE TimerCloses(c)
    BY <2>9 DEF TimerCloses, Shutdown, callVars, poolVars, connVars, readVars, timerVars, pingVars, netVars
  <2>10. CASE PingConn(c)
    BY <2>10 DEF PingConn, Shutdown, IsClosed, callVars, poolVars, connVars, readVars, timerVars, pingVars, netVars
  <2>11. CASE Break(c)
    BY <2>11 DEF Break, callVars, poolVars, connVars, readVars, timerVars, pingVars, netVars
  <2>12. CASE GoSilent(c)
    BY <2>12 DEF GoSilent, callVars, poolVars, connVars, readVars, timerVars, pingVars, netVars
  <2>13. ASSUME NEW s \in Subs, Notify(c, s) PROVE TypeOK'
    BY <2>13 DEF Notify, callVars, poolVars, connVars, readVars, timerVars, pingVars, netVars
  <2> QED BY <1>3, <2>1, <2>2, <2>3, <2>4, <2>5, <2>6, <2>7, <2>8, <2>9, <2>10, <2>11, <2>12, <2>13 DEF ReaderStep, ShutdownStep
<1>4. ASSUME NEW c \in Conns, NEW s \in Subs, NEW last \in BOOLEAN, Receive(c, s, last)
      PROVE  TypeOK'
  BY <1>4 DEF Receive, callVars, poolVars, connVars, readVars, timerVars, pingVars, netVars
<1>5. CASE PingTick \/ PingHasClosed
  BY <1>5 DEF PingTick, PingHasClosed, callVars, poolVars, connVars, readVars, timerVars, pingVars, netVars
<1> QED BY <1>1, <1>2, <1>3, <1>4, <1>5 DEF Next, PingStep

\* What follows a call, a reader and a shutdown around.
LEMMA WSBooksStep ==
    WSInv /\ [Next]_vars => (Attached /\ KnowsDialer /\ ReaderHolds /\ OwedWhileNotifying)'
<1> SUFFICES ASSUME WSInv, [Next]_vars PROVE (Attached /\ KnowsDialer /\ ReaderHolds /\ OwedWhileNotifying)'
  OBVIOUS
<1> USE ConstantsAssumption DEF WSInv, TypeOK, CallStates, Stages, ReaderStates, NoMsg, Attached, KnowsDialer, ReaderHolds, OwedWhileNotifying
<1>1. CASE UNCHANGED vars
  BY <1>1 DEF vars, callVars, poolVars, connVars, readVars, timerVars, pingVars, netVars
<1>2. ASSUME NEW s \in Subs, CallStep(s) \/ CancelClient(s)
      PROVE  (Attached /\ KnowsDialer /\ ReaderHolds /\ OwedWhileNotifying)'
  <2>1. CASE UsePooled(s)
    BY <2>1 DEF UsePooled, Usable, IsClosed, callVars, poolVars, connVars, readVars, timerVars, pingVars, netVars
  <2>2. CASE JoinDial(s)
    BY <2>2 DEF JoinDial, Usable, IsClosed, callVars, poolVars, connVars, readVars, timerVars, pingVars, netVars
  <2>3. CASE StartDial(s)
    BY <2>3 DEF StartDial, Usable, callVars, poolVars, connVars, readVars, timerVars, pingVars, netVars
  <2>4. CASE DialSucceeds(s)
    <3>1. PICK c \in Conns : /\ c = CHOOSE d \in Conns : stage[d] = "none"
                            /\ stage[c] = "none"
      BY <2>4 DEF DialSucceeds
    <3> QED BY <2>4, <3>1 DEF DialSucceeds, callVars, poolVars, connVars, readVars, timerVars, pingVars, netVars
  <2>5. CASE DialFails(s)
    BY <2>5 DEF DialFails, callVars, poolVars, connVars, readVars, timerVars, pingVars, netVars
  <2>6. CASE Publish(s)
    BY <2>6 DEF Publish, callVars, poolVars, connVars, readVars, timerVars, pingVars, netVars
  <2>7. CASE WaitOver(s)
    BY <2>7 DEF WaitOver, callVars, poolVars, connVars, readVars, timerVars, pingVars, netVars
  <2>8. CASE WaitCancelled(s)
    BY <2>8 DEF WaitCancelled, callVars, poolVars, connVars, readVars, timerVars, pingVars, netVars
  <2>9. CASE Register(s)
    BY <2>9 DEF Register, IsClosed, callVars, poolVars, connVars, readVars, timerVars, pingVars, netVars
  <2>10. CASE SubscribeSent(s)
    BY <2>10 DEF SubscribeSent, callVars, poolVars, connVars, readVars, timerVars, pingVars, netVars
  <2>11. CASE SubscribeFails(s)
    BY <2>11 DEF SubscribeFails, callVars, poolVars, connVars, readVars, timerVars, pingVars, netVars
  <2>12. CASE Drop(s)
    BY <2>12 DEF Drop, RemoveSub, Without, ClosesAtOnce, callVars, poolVars, connVars, readVars, timerVars, pingVars, netVars
  <2>13. CASE CallCloses(s)
    BY <2>13 DEF CallCloses, Shutdown, IsClosed, callVars, poolVars, connVars, readVars, timerVars, pingVars, netVars
  <2>14. CASE CallHasClosed(s)
    BY <2>14 DEF CallHasClosed, callVars, poolVars, connVars, readVars, timerVars, pingVars, netVars
  <2>15. CASE AfterFunc(s)
    BY <2>15 DEF AfterFunc, callVars, poolVars, connVars, readVars, timerVars, pingVars, netVars
  <2>16. CASE Unsubscribe(s)
    BY <2>16 DEF Unsubscribe, callVars, poolVars, connVars, readVars, timerVars, pingVars, netVars
  <2>17. CASE CancelClient(s)
    BY <2>17 DEF CancelClient, callVars, poolVars, connVars, readVars, timerVars, pingVars, netVars
  <2> QED BY <1>2, <2>1, <2>2, <2>3, <2>4, <2>5, <2>6, <2>7, <2>8, <2>9, <2>10, <2>11, <2>12, <2>13, <2>14, <2>15, <2>16, <2>17 DEF CallStep
<1>3. ASSUME NEW c \in Conns, ReaderStep(c) \/ ShutdownStep(c) \/ TimerFires(c) \/ TimerCloses(c)
             \/ Break(c) \/ GoSilent(c) \/ PingConn(c)
      PROVE  (Attached /\ KnowsDialer /\ ReaderHolds /\ OwedWhileNotifying)'
  <2>1. CASE Handle(c)
    BY <2>1 DEF Handle, NextRead, IsClosed, callVars, poolVars, connVars, readVars, timerVars, pingVars, netVars
  <2>2. CASE ReaderDrops(c)
    BY <2>2 DEF ReaderDrops, RemoveSub, Without, ClosesAtOnce, NextRead, IsClosed, callVars, poolVars, connVars, readVars, timerVars, pingVars, netVars
  <2>3. CASE ReaderCloses(c)
    BY <2>3 DEF ReaderCloses, Shutdown, callVars, poolVars, connVars, readVars, timerVars, pingVars, netVars
  <2>4. CASE ReadFails(c)
    BY <2>4 DEF ReadFails, Shutdown, callVars, poolVars, connVars, readVars, timerVars, pingVars, netVars
  <2>5. CASE CloseSocket(c)
    BY <2>5 DEF CloseSocket, callVars, poolVars, connVars, readVars, timerVars, pingVars, netVars
  <2>6. CASE SwapSubs(c)
    BY <2>6 DEF SwapSubs, callVars, poolVars, connVars, readVars, timerVars, pingVars, netVars
  <2>7. CASE RemoveConn(c)
    BY <2>7 DEF RemoveConn, callVars, poolVars, connVars, readVars, timerVars, pingVars, netVars
  <2>8. CASE TimerFires(c)
    BY <2>8 DEF TimerFires, callVars, poolVars, connVars, readVars, timerVars, pingVars, netVars
  <2>9. CASE TimerCloses(c)
    BY <2>9 DEF TimerCloses, Shutdown, callVars, poolVars, connVars, readVars, timerVars, pingVars, netVars
  <2>10. CASE PingConn(c)
    BY <2>10 DEF PingConn, Shutdown, IsClosed, callVars, poolVars, connVars, readVars, timerVars, pingVars, netVars
  <2>11. CASE Break(c)
    BY <2>11 DEF Break, callVars, poolVars, connVars, readVars, timerVars, pingVars, netVars
  <2>12. CASE GoSilent(c)
    BY <2>12 DEF GoSilent, callVars, poolVars, connVars, readVars, timerVars, pingVars, netVars
  <2>13. ASSUME NEW s \in Subs, Notify(c, s) PROVE (Attached /\ KnowsDialer /\ ReaderHolds /\ OwedWhileNotifying)'
    BY <2>13 DEF Notify, callVars, poolVars, connVars, readVars, timerVars, pingVars, netVars
  <2> QED BY <1>3, <2>1, <2>2, <2>3, <2>4, <2>5, <2>6, <2>7, <2>8, <2>9, <2>10, <2>11, <2>12, <2>13 DEF ReaderStep, ShutdownStep
<1>4. ASSUME NEW c \in Conns, NEW s \in Subs, NEW last \in BOOLEAN, Receive(c, s, last)
      PROVE  (Attached /\ KnowsDialer /\ ReaderHolds /\ OwedWhileNotifying)'
  BY <1>4 DEF Receive, callVars, poolVars, connVars, readVars, timerVars, pingVars, netVars
<1>5. CASE PingTick \/ PingHasClosed
  BY <1>5 DEF PingTick, PingHasClosed, callVars, poolVars, connVars, readVars, timerVars, pingVars, netVars
<1> QED BY <1>1, <1>2, <1>3, <1>4, <1>5 DEF Next, PingStep

\* Nobody is forgotten and nothing registers behind the swap, in every step.
LEMMA WSSafetyStep ==
    WSInv /\ [Next]_vars => (NobodyForgotten /\ NothingOnClosedConnection)'
<1> SUFFICES ASSUME WSInv, [Next]_vars PROVE (NobodyForgotten /\ NothingOnClosedConnection)'
  OBVIOUS
<1> USE ConstantsAssumption DEF WSInv, TypeOK, CallStates, Stages, ReaderStates, Attached, ReaderHolds, OwedWhileNotifying, NobodyForgotten, NothingOnClosedConnection
<1>1. CASE UNCHANGED vars
  BY <1>1 DEF vars, callVars, poolVars, connVars, readVars, timerVars, pingVars, netVars
<1>2. ASSUME NEW s \in Subs, CallStep(s) \/ CancelClient(s)
      PROVE  (NobodyForgotten /\ NothingOnClosedConnection)'
  <2>1. CASE UsePooled(s)
    BY <2>1 DEF UsePooled, Usable, IsClosed, callVars, poolVars, connVars, readVars, timerVars, pingVars, netVars
  <2>2. CASE JoinDial(s)
    BY <2>2 DEF JoinDial, Usable, IsClosed, callVars, poolVars, connVars, readVars, timerVars, pingVars, netVars
  <2>3. CASE StartDial(s)
    BY <2>3 DEF StartDial, Usable, callVars, poolVars, connVars, readVars, timerVars, pingVars, netVars
  <2>4. CASE DialSucceeds(s)
    <3>1. PICK c \in Conns : /\ c = CHOOSE d \in Conns : stage[d] = "none"
                            /\ stage[c] = "none"
      BY <2>4 DEF DialSucceeds
    <3> QED BY <2>4, <3>1 DEF DialSucceeds, callVars, poolVars, connVars, readVars, timerVars, pingVars, netVars
  <2>5. CASE DialFails(s)
    BY <2>5 DEF DialFails, callVars, poolVars, connVars, readVars, timerVars, pingVars, netVars
  <2>6. CASE Publish(s)
    BY <2>6 DEF Publish, callVars, poolVars, connVars, readVars, timerVars, pingVars, netVars
  <2>7. CASE WaitOver(s)
    BY <2>7 DEF WaitOver, callVars, poolVars, connVars, readVars, timerVars, pingVars, netVars
  <2>8. CASE WaitCancelled(s)
    BY <2>8 DEF WaitCancelled, callVars, poolVars, connVars, readVars, timerVars, pingVars, netVars
  <2>9. CASE Register(s)
    BY <2>9 DEF Register, IsClosed, callVars, poolVars, connVars, readVars, timerVars, pingVars, netVars
  <2>10. CASE SubscribeSent(s)
    BY <2>10 DEF SubscribeSent, callVars, poolVars, connVars, readVars, timerVars, pingVars, netVars
  <2>11. CASE SubscribeFails(s)
    BY <2>11 DEF SubscribeFails, callVars, poolVars, connVars, readVars, timerVars, pingVars, netVars
  <2>12. CASE Drop(s)
    BY <2>12 DEF Drop, RemoveSub, Without, ClosesAtOnce, callVars, poolVars, connVars, readVars, timerVars, pingVars, netVars
  <2>13. CASE CallCloses(s)
    BY <2>13 DEF CallCloses, Shutdown, IsClosed, callVars, poolVars, connVars, readVars, timerVars, pingVars, netVars
  <2>14. CASE CallHasClosed(s)
    BY <2>14 DEF CallHasClosed, callVars, poolVars, connVars, readVars, timerVars, pingVars, netVars
  <2>15. CASE AfterFunc(s)
    BY <2>15 DEF AfterFunc, callVars, poolVars, connVars, readVars, timerVars, pingVars, netVars
  <2>16. CASE Unsubscribe(s)
    BY <2>16 DEF Unsubscribe, callVars, poolVars, connVars, readVars, timerVars, pingVars, netVars
  <2>17. CASE CancelClient(s)
    BY <2>17 DEF CancelClient, callVars, poolVars, connVars, readVars, timerVars, pingVars, netVars
  <2> QED BY <1>2, <2>1, <2>2, <2>3, <2>4, <2>5, <2>6, <2>7, <2>8, <2>9, <2>10, <2>11, <2>12, <2>13, <2>14, <2>15, <2>16, <2>17 DEF CallStep
<1>3. ASSUME NEW c \in Conns, ReaderStep(c) \/ ShutdownStep(c) \/ TimerFires(c) \/ TimerCloses(c)
             \/ Break(c) \/ GoSilent(c) \/ PingConn(c)
      PROVE  (NobodyForgotten /\ NothingOnClosedConnection)'
  <2>1. CASE Handle(c)
    BY <2>1 DEF Handle, NextRead, IsClosed, callVars, poolVars, connVars, readVars, timerVars, pingVars, netVars
  <2>2. CASE ReaderDrops(c)
    BY <2>2 DEF ReaderDrops, RemoveSub, Without, ClosesAtOnce, NextRead, IsClosed, callVars, poolVars, connVars, readVars, timerVars, pingVars, netVars
  <2>3. CASE ReaderCloses(c)
    BY <2>3 DEF ReaderCloses, Shutdown, callVars, poolVars, connVars, readVars, timerVars, pingVars, netVars
  <2>4. CASE ReadFails(c)
    BY <2>4 DEF ReadFails, Shutdown, callVars, poolVars, connVars, readVars, timerVars, pingVars, netVars
  <2>5. CASE CloseSocket(c)
    BY <2>5 DEF CloseSocket, callVars, poolVars, connVars, readVars, timerVars, pingVars, netVars
  <2>6. CASE SwapSubs(c)
    BY <2>6 DEF SwapSubs, callVars, poolVars, connVars, readVars, timerVars, pingVars, netVars
  <2>7. CASE RemoveConn(c)
    BY <2>7 DEF RemoveConn, callVars, poolVars, connVars, readVars, timerVars, pingVars, netVars
  <2>8. CASE TimerFires(c)
    BY <2>8 DEF TimerFires, callVars, poolVars, connVars, readVars, timerVars, pingVars, netVars
  <2>9. CASE TimerCloses(c)
    BY <2>9 DEF TimerCloses, Shutdown, callVars, poolVars, connVars, readVars, timerVars, pingVars, netVars
  <2>10. CASE PingConn(c)
    <3>1. UNCHANGED <<at, conn, subs, owed, told, reader, msg>>
      BY <2>10 DEF PingConn, callVars, poolVars, connVars, readVars
    <3>2. stage' = stage \/ (stage[c] = "open" /\ stage' = [stage EXCEPT ![c] = "close"])
      BY <2>10 DEF PingConn, Shutdown
    <3>3. CASE stage' = stage
      BY <3>1, <3>3
    <3>4. CASE stage[c] = "open" /\ stage' = [stage EXCEPT ![c] = "close"]
      <4>1. \A d \in Conns : stage'[d] = stage[d] \/ (stage[d] = "open" /\ stage'[d] = "close")
        BY <3>4
      <4> QED BY <3>1, <4>1
    <3> QED BY <3>2, <3>3, <3>4
  <2>11. CASE Break(c)
    BY <2>11 DEF Break, callVars, poolVars, connVars, readVars, timerVars, pingVars, netVars
  <2>12. CASE GoSilent(c)
    BY <2>12 DEF GoSilent, callVars, poolVars, connVars, readVars, timerVars, pingVars, netVars
  <2>13. ASSUME NEW s \in Subs, Notify(c, s) PROVE (NobodyForgotten /\ NothingOnClosedConnection)'
    BY <2>13 DEF Notify, callVars, poolVars, connVars, readVars, timerVars, pingVars, netVars
  <2> QED BY <1>3, <2>1, <2>2, <2>3, <2>4, <2>5, <2>6, <2>7, <2>8, <2>9, <2>10, <2>11, <2>12, <2>13 DEF ReaderStep, ShutdownStep
<1>4. ASSUME NEW c \in Conns, NEW s \in Subs, NEW last \in BOOLEAN, Receive(c, s, last)
      PROVE  (NobodyForgotten /\ NothingOnClosedConnection)'
  BY <1>4 DEF Receive, callVars, poolVars, connVars, readVars, timerVars, pingVars, netVars
<1>5. CASE PingTick \/ PingHasClosed
  BY <1>5 DEF PingTick, PingHasClosed, callVars, poolVars, connVars, readVars, timerVars, pingVars, netVars
<1> QED BY <1>1, <1>2, <1>3, <1>4, <1>5 DEF Next, PingStep

LEMMA WSInvHolds == Spec => []WSInv
<1>1. Init => WSInv
  BY ConstantsAssumption DEF Init, WSInv, TypeOK, CallStates, Stages, ReaderStates, NoMsg,
     Attached, KnowsDialer, ReaderHolds, OwedWhileNotifying, NobodyForgotten,
     NothingOnClosedConnection
<1>2. WSInv /\ [Next]_vars => WSInv'
  BY WSTypeStep, WSBooksStep, WSSafetyStep DEF WSInv
<1> QED BY <1>1, <1>2, PTL DEF Spec

\* For any number of calls, connections and keys: an unfinished subscription
\* is in its connection's map or among the handlers shutdown is about to call.
THEOREM WSNobodyForgotten == Spec => []NobodyForgotten
BY WSInvHolds, PTL DEF WSInv

\* For any number of calls, connections and keys: no handler is registered with
\* a connection whose shutdown has taken the handlers.
THEOREM WSNothingRegistersLate == Spec => []NothingOnClosedConnection
BY WSInvHolds, PTL DEF WSInv
=============================================================================
