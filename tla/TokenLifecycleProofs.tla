------------------------ MODULE TokenLifecycleProofs ------------------------
(***************************************************************************)
(* Theorems about TokenLifecycle for every set of tasks and every bound.   *)
(***************************************************************************)
EXTENDS TokenLifecycle, SequenceTheorems, TLAPS

-----------------------------------------------------------------------------
(* Sequences: what the two queues of the store do.                         *)

\* Taking one element out of a queue leaves a queue over the same set.
LEMMA RemoveAtType ==
    ASSUME NEW S, NEW s \in Seq(S), NEW i \in 1..Len(s)
    PROVE  RemoveAt(s, i) \in Seq(S)
  <1>1. SubSeq(s, 1, i - 1) \in Seq(S)
    <2>1. \A k \in 1..(i - 1) : s[k] \in S
      BY ElementOfSeq
    <2>2. QED  BY <2>1, SubSeqProperties
  <1>2. SubSeq(s, i + 1, Len(s)) \in Seq(S)
    <2>1. \A k \in (i + 1)..Len(s) : s[k] \in S
      BY ElementOfSeq
    <2>2. QED  BY <2>1, SubSeqProperties
  <1>3. QED  BY <1>1, <1>2, ConcatProperties DEF RemoveAt

\* Dropping the front of a queue leaves a queue, and its entries are the old
\* ones, shifted.
LEMMA DropFront ==
    ASSUME NEW S, NEW s \in Seq(S), NEW i \in 1..Len(s)
    PROVE  /\ SubSeq(s, i + 1, Len(s)) \in Seq(S)
           /\ Len(SubSeq(s, i + 1, Len(s))) = Len(s) - i
           /\ \A k \in 1..(Len(s) - i) : SubSeq(s, i + 1, Len(s))[k] = s[k + i]
  <1>1. \A k \in (i + 1)..Len(s) : s[k] \in S
    BY ElementOfSeq
  <1>2. QED  BY <1>1, SubSeqProperties

-----------------------------------------------------------------------------
(* Type correctness.                                                       *)

\* Recording a rotation keeps the types of the fields it writes.
LEMMA RecordType ==
    ASSUME TypeOK, NEW p \in PairOrNone, RecordRotation(p)
    PROVE  /\ access_token' \in PairOrNone
           /\ refresh_token' \in PairOrNone
           /\ rotation_seq' \in Nat
           /\ pending' \in Seq(Rotation)
  <1> DEFINE e == [seq |-> rotation_seq + 1, pair |-> p]
  <1>1. e \in Rotation
    BY DEF TypeOK, Rotation
  <1>2. Append(pending, e) \in Seq(Rotation)
    BY <1>1, AppendProperties DEF TypeOK
  <1>3. pending' \in {pending, Append(pending, e)}
    BY DEF RecordRotation
  <1>4. QED  BY <1>2, <1>3 DEF RecordRotation, TypeOK

\* Whether or not it starts a drain, seeing to delivery keeps the types.
LEMMA DeliverType ==
    ASSUME TypeOK, NEW t \in Tasks, DeliverPending(t)
    PROVE  /\ pc' \in [Tasks -> Ready \cup Waiting \cup {"exchanging", "awaiting"}]
           /\ delivery' \in {"done", "scheduled", "delivering"}
  BY DEF TypeOK, DeliverPending, Ready, Waiting

LEMMA TypeInit == Init => TypeOK
  <1> SUFFICES ASSUME Init PROVE TypeOK  OBVIOUS
  <1> USE DEF Init, PairOrNone, Pairs, NoPair
  <1>1. issued \in Pairs /\ valid \subseteq Pairs /\ orphans \subseteq PairOrNone
    BY BoundAssumption DEF BoundAssumption
  <1>2. access_token \in PairOrNone /\ refresh_token \in PairOrNone
    BY BoundAssumption DEF BoundAssumption
  <1>3. pending \in Seq(Rotation) /\ waiters \in Seq(Tasks)
    OBVIOUS
  <1>4. pc \in [Tasks -> Ready \cup Waiting \cup {"exchanging", "awaiting"}]
    BY DEF Ready
  <1>5. /\ entry \in [Tasks -> PairOrNone]
        /\ carried \in [Tasks -> PairOrNone]
        /\ presented \in [Tasks -> PairOrNone]
        /\ wire \in [Tasks -> {"none", "sent", "granted", "denied"}]
    OBVIOUS
  <1>6. QED  BY <1>1, <1>2, <1>3, <1>4, <1>5 DEF TypeOK

LEMMA TypeStep ==
    ASSUME TypeOK, [Next]_vars
    PROVE  TypeOK'
  <1> USE TaskAssumption, NotifyAssumption, BoundAssumption
  <1> USE DEF TaskAssumption, NotifyAssumption, BoundAssumption, TypeOK, PairOrNone, Pairs, NoPair, Ready, Waiting
  <1>1. ASSUME NEW t \in Tasks, RefreshRefused(t) PROVE TypeOK'
    BY <1>1 DEF RefreshRefused, store, lockVars, feed, server
  <1>2. ASSUME NEW t \in Tasks, RefreshNow(t) PROVE TypeOK'
    BY <1>2 DEF RefreshNow, SendExchange, store, feed, server
  <1>3. ASSUME NEW t \in Tasks, RefreshQueues(t) PROVE TypeOK'
    BY <1>3 DEF RefreshQueues, store, feed, server
  <1>4. ASSUME NEW t \in Tasks, RefreshReuses(t) PROVE TypeOK'
    BY <1>4 DEF RefreshReuses, ForgetLocals, HasTurn, store, feed, server
  <1>5. ASSUME NEW t \in Tasks, RefreshFindsClosed(t) PROVE TypeOK'
    BY <1>5 DEF RefreshFindsClosed, ForgetLocals, HasTurn, store, feed, server
  <1>6. ASSUME NEW t \in Tasks, RefreshExchanges(t) PROVE TypeOK'
    BY <1>6 DEF RefreshExchanges, SendExchange, HasTurn, store, feed, server
  <1>7. ASSUME NEW t \in Tasks, ExchangeSucceeds(t) PROVE TypeOK'
    BY <1>7, RecordType, DeliverType DEF ExchangeSucceeds, ForgetLocals, server
  <1>8. ASSUME NEW t \in Tasks, ExchangeDenied(t) PROVE TypeOK'
    BY <1>8 DEF ExchangeDenied, ForgetLocals, store, feed, server
  <1>9. ASSUME NEW t \in Tasks, ExchangeAbandoned(t) PROVE TypeOK'
    <2>1. orphans' \subseteq PairOrNone /\ lost' \in BOOLEAN
      BY <1>9 DEF ExchangeAbandoned
    <2>2. QED  BY <1>9, <2>1 DEF ExchangeAbandoned, ForgetLocals, store, feed
  <1>10. ASSUME NEW t \in Tasks, AdoptNow(t) PROVE TypeOK'
    BY <1>10, RecordType, DeliverType DEF AdoptNow, LoginIssues, lockVars
  <1>11. ASSUME NEW t \in Tasks, AdoptQueues(t) PROVE TypeOK'
    <2>1. issued' \in Pairs /\ issued' = issued + 1 /\ valid' \subseteq Pairs
      BY <1>11 DEF AdoptQueues, LoginIssues
    <2>2. waiters' \in Seq(Tasks) /\ carried' \in [Tasks -> PairOrNone]
      BY <1>11, <2>1 DEF AdoptQueues
    <2>3. pc' \in [Tasks -> Ready \cup Waiting \cup {"exchanging", "awaiting"}]
      BY <1>11 DEF AdoptQueues, Waiting
    <2>4. /\ UNCHANGED store /\ UNCHANGED feed /\ locked' = locked /\ entry' = entry
          /\ presented' = presented /\ wire' = wire /\ closed' = closed
          /\ orphans' = orphans /\ lost' = lost
      BY <1>11 DEF AdoptQueues, LoginIssues
    <2> HIDE DEF PairOrNone, Pairs, NoPair, Ready, Waiting
    <2>5. QED  BY <2>1, <2>2, <2>3, <2>4, Zenon DEF store, feed
  <1>12. ASSUME NEW t \in Tasks, AdoptRecords(t) PROVE TypeOK'
    <2>1. /\ access_token' \in PairOrNone /\ refresh_token' \in PairOrNone
          /\ rotation_seq' \in Nat /\ pending' \in Seq(Rotation)
      <3>1. carried[t] \in PairOrNone /\ RecordRotation(carried[t])
        BY <1>12 DEF AdoptRecords
      <3>2. QED  BY <3>1, RecordType
    <2>2. /\ pc' \in [Tasks -> Ready \cup Waiting \cup {"exchanging", "awaiting"}]
          /\ delivery' \in {"done", "scheduled", "delivering"}
      BY <1>12, DeliverType DEF AdoptRecords
    <2>3. waiters' \in Seq(Tasks)
      BY <1>12 DEF AdoptRecords, HasTurn
    <2>4. QED  BY <1>12, <2>1, <2>2, <2>3 DEF AdoptRecords, ForgetLocals, server
  <1>13. ASSUME NEW t \in Tasks, CancelWaiting(t) PROVE TypeOK'
    <2>1. waiters' \in Seq(Tasks)
      BY <1>13, RemoveAtType DEF CancelWaiting
    <2>2. QED  BY <1>13, <2>1 DEF CancelWaiting, ForgetLocals, store, feed, server
  <1>14. ASSUME NEW t \in Tasks, CancelAwaiting(t) PROVE TypeOK'
    BY <1>14 DEF CancelAwaiting, store, lockVars, feed, server
  <1>15. ASSUME NEW t \in Tasks, Grant(t) PROVE TypeOK'
    <2>1. issued + 1 \in Pairs
      BY <1>15 DEF Grant
    <2>2. issued' \in Pairs /\ valid' \subseteq Pairs
      BY <1>15, <2>1 DEF Grant
    <2>3. carried' \in [Tasks -> PairOrNone]
      BY <1>15 DEF Grant
    <2>4. QED  BY <1>15, <2>2, <2>3 DEF Grant, store, lockVars, feed
  <1>16. ASSUME NEW t \in Tasks, Deny(t) PROVE TypeOK'
    BY <1>16 DEF Deny, store, lockVars, feed, server
  <1>17. CASE DrainPending
    <2>1. CASE DeliverNext
      <3>1. PICK i \in DOMAIN pending :
                /\ pending' = SubSeq(pending, i + 1, Len(pending))
                /\ offered' = pending[i].seq
        BY <2>1 DEF DeliverNext
      <3>2. pending' \in Seq(Rotation) /\ offered' \in Nat
        <4>1. pending[i] \in Rotation
          BY ElementOfSeq
        <4>2. i \in 1..Len(pending)
          OBVIOUS
        <4>3. SubSeq(pending, i + 1, Len(pending)) \in Seq(Rotation)
          BY <4>2, DropFront
        <4>4. QED  BY <3>1, <4>1, <4>3 DEF Rotation
      <3>3. QED  BY <1>17, <2>1, <3>2 DEF DrainPending, DeliverNext, lockVars, server
    <2>2. CASE DrainEnds
      BY <1>17, <2>2 DEF DrainPending, DrainEnds, WakeAwaiters, lockVars, server
    <2>3. QED  BY <1>17, <2>1, <2>2 DEF DrainPending
  <1>18. CASE DrainCancelled
    BY <1>18 DEF DrainCancelled, WakeAwaiters, store, lockVars, server
  <1>19. CASE Close
    BY <1>19 DEF Close, store, lockVars, feed, locals, server
  <1>20. ASSUME NEW p \in orphans, GrantOrphan(p) PROVE TypeOK'
    BY <1>20 DEF GrantOrphan, store, lockVars, feed, locals
  <1>21. CASE UNCHANGED vars
    BY <1>21 DEF vars, store, lockVars, feed, locals, server
  <1>22. QED
    BY <1>1, <1>2, <1>3, <1>4, <1>5, <1>6, <1>7, <1>8, <1>9, <1>10, <1>11, <1>12,
       <1>13, <1>14, <1>15, <1>16, <1>17, <1>18, <1>19, <1>20, <1>21
    DEF Next, TaskStep, Refresh, Adopt, Acquire, EndExchange, Cancel, Callers

\* Every field of the store, every task's locals and the server's records keep
\* their types in every reachable state.
THEOREM TypeCorrect == Safety => []TypeOK
  BY TypeInit, TypeStep, PTL DEF Safety

-----------------------------------------------------------------------------
(* The lock and the token in flight.                                       *)

\* The call that saw to delivery has either returned or waits for the drain.
LEMMA DeliverOutcome ==
    ASSUME NEW t \in Tasks, DeliverPending(t)
    PROVE  \E o \in {"idle", "awaiting"} : pc' = [pc EXCEPT ![t] = o]
  BY DEF DeliverPending

LEMMA LockInit == Init => LockInv
  BY DEF Init, LockInv, ExchangesSerialized, TokenInFlightIsHeld, Carrying

LEMMA LockStep ==
    ASSUME TypeOK, LockInv, [Next]_vars
    PROVE  LockInv'
  <1> USE DEF LockInv, ExchangesSerialized, TokenInFlightIsHeld, Carrying
  <1> USE DEF TypeOK, PairOrNone, Pairs, NoPair, Ready, Waiting
  <1>1. ASSUME NEW t \in Tasks, RefreshRefused(t) PROVE LockInv'
    BY <1>1 DEF RefreshRefused, MayCall, store, lockVars, feed, server
  <1>2. ASSUME NEW t \in Tasks, RefreshNow(t) PROVE LockInv'
    BY <1>2 DEF RefreshNow, MayCall, SendExchange, LockFree, store, lockVars, feed, server
  <1>3. ASSUME NEW t \in Tasks, RefreshQueues(t) PROVE LockInv'
    BY <1>3 DEF RefreshQueues, MayCall, store, lockVars, feed, server
  <1>4. ASSUME NEW t \in Tasks, RefreshReuses(t) PROVE LockInv'
    BY <1>4 DEF RefreshReuses, ForgetLocals, store, lockVars, feed, server
  <1>5. ASSUME NEW t \in Tasks, RefreshFindsClosed(t) PROVE LockInv'
    BY <1>5 DEF RefreshFindsClosed, ForgetLocals, store, lockVars, feed, server
  <1>6. ASSUME NEW t \in Tasks, RefreshExchanges(t) PROVE LockInv'
    BY <1>6 DEF RefreshExchanges, SendExchange, HasTurn, RotatedMeanwhile, store, lockVars, feed, server
  <1>7. ASSUME NEW t \in Tasks, ExchangeSucceeds(t) PROVE LockInv'
    <2>1. PICK o \in {"idle", "awaiting"} : pc' = [pc EXCEPT ![t] = o]
      BY <1>7, DeliverOutcome DEF ExchangeSucceeds
    <2>2. \A u \in Tasks : pc'[u] # "exchanging"
      BY <1>7, <2>1 DEF ExchangeSucceeds
    <2>3. ExchangesSerialized' /\ TokenInFlightIsHeld'
      BY <1>7, <2>2 DEF ExchangeSucceeds
    <2>4. access_token' # NoPair /\ refresh_token' # NoPair /\ rotation_seq' > 0
      BY <1>7 DEF ExchangeSucceeds, RecordRotation
    <2>5. QED  BY <1>7, <2>1, <2>2, <2>3, <2>4 DEF ExchangeSucceeds, ForgetLocals
  <1>8. ASSUME NEW t \in Tasks, ExchangeDenied(t) PROVE LockInv'
    BY <1>8 DEF ExchangeDenied, ForgetLocals, store, lockVars, feed, server
  <1>9. ASSUME NEW t \in Tasks, ExchangeAbandoned(t) PROVE LockInv'
    BY <1>9 DEF ExchangeAbandoned, ForgetLocals, store, lockVars, feed, server
  <1>10. ASSUME NEW t \in Tasks, AdoptNow(t) PROVE LockInv'
    BY <1>10, DeliverOutcome DEF AdoptNow, LoginIssues, RecordRotation, LockFree, store, lockVars, feed, server
  <1>11. ASSUME NEW t \in Tasks, AdoptQueues(t) PROVE LockInv'
    BY <1>11 DEF AdoptQueues, LoginIssues, store, lockVars, feed, server
  <1>12. ASSUME NEW t \in Tasks, AdoptRecords(t) PROVE LockInv'
    BY <1>12, DeliverOutcome DEF AdoptRecords, RecordRotation, ForgetLocals, HasTurn, store, lockVars, feed, server
  <1>13. ASSUME NEW t \in Tasks, CancelWaiting(t) PROVE LockInv'
    BY <1>13 DEF CancelWaiting, ForgetLocals, store, lockVars, feed, server
  <1>14. ASSUME NEW t \in Tasks, CancelAwaiting(t) PROVE LockInv'
    BY <1>14 DEF CancelAwaiting, store, lockVars, feed, server
  <1>15. ASSUME NEW t \in Tasks, Grant(t) PROVE LockInv'
    BY <1>15 DEF Grant, store, lockVars, feed, server
  <1>16. ASSUME NEW t \in Tasks, Deny(t) PROVE LockInv'
    BY <1>16 DEF Deny, store, lockVars, feed, server
  <1>17. CASE DrainPending
    BY <1>17 DEF DrainPending, DeliverNext, DrainEnds, WakeAwaiters, lockVars, server
  <1>18. CASE DrainCancelled
    BY <1>18 DEF DrainCancelled, WakeAwaiters, store, lockVars, server
  <1>19. CASE Close
    BY <1>19 DEF Close, store, lockVars, feed, locals, server
  <1>20. ASSUME NEW p \in orphans, GrantOrphan(p) PROVE LockInv'
    BY <1>20 DEF GrantOrphan, store, lockVars, feed, locals, server
  <1>21. CASE UNCHANGED vars
    BY <1>21 DEF vars, store, lockVars, feed, locals, server
  <1>22. QED
    BY <1>1, <1>2, <1>3, <1>4, <1>5, <1>6, <1>7, <1>8, <1>9, <1>10, <1>11, <1>12,
       <1>13, <1>14, <1>15, <1>16, <1>17, <1>18, <1>19, <1>20, <1>21
    DEF Next, TaskStep, Refresh, Adopt, Acquire, EndExchange, Cancel, Callers

-----------------------------------------------------------------------------
(* The chain of refresh tokens.                                            *)

LEMMA ChainInit == Init => ChainInv
  BY DEF Init, ChainInv, HeldTokenWorks, Carrying, NoPair

LEMMA ChainStep ==
    ASSUME TypeOK, LockInv, ChainInv, [Next]_vars
    PROVE  ChainInv'
  <1> USE DEF LockInv, ExchangesSerialized, TokenInFlightIsHeld, Carrying
  <1> USE DEF ChainInv, HeldTokenWorks
  <1> USE DEF TypeOK, PairOrNone, Pairs, NoPair, Ready, Waiting
  <1>1. ASSUME NEW t \in Tasks, RefreshRefused(t) PROVE ChainInv'
    BY <1>1 DEF RefreshRefused, MayCall, store, lockVars, feed, server
  <1>2. ASSUME NEW t \in Tasks, RefreshNow(t) PROVE ChainInv'
    BY <1>2 DEF RefreshNow, MayCall, SendExchange, store, lockVars, feed, server
  <1>3. ASSUME NEW t \in Tasks, RefreshQueues(t) PROVE ChainInv'
    BY <1>3 DEF RefreshQueues, MayCall, store, lockVars, feed, server
  <1>4. ASSUME NEW t \in Tasks, RefreshReuses(t) PROVE ChainInv'
    BY <1>4 DEF RefreshReuses, ForgetLocals, store, lockVars, feed, server
  <1>5. ASSUME NEW t \in Tasks, RefreshFindsClosed(t) PROVE ChainInv'
    BY <1>5 DEF RefreshFindsClosed, ForgetLocals, store, lockVars, feed, server
  <1>6. ASSUME NEW t \in Tasks, RefreshExchanges(t) PROVE ChainInv'
    BY <1>6 DEF RefreshExchanges, SendExchange, HasTurn, store, lockVars, feed, server
  <1>7. ASSUME NEW t \in Tasks, ExchangeSucceeds(t) PROVE ChainInv'
    BY <1>7, DeliverOutcome DEF ExchangeSucceeds, RecordRotation, ForgetLocals, store, lockVars, feed, server
  <1>8. ASSUME NEW t \in Tasks, ExchangeDenied(t) PROVE ChainInv'
    BY <1>8 DEF ExchangeDenied, ForgetLocals, store, lockVars, feed, server
  <1>9. ASSUME NEW t \in Tasks, ExchangeAbandoned(t) PROVE ChainInv'
    BY <1>9 DEF ExchangeAbandoned, ForgetLocals, store, lockVars, feed, server
  <1>10. ASSUME NEW t \in Tasks, AdoptNow(t) PROVE ChainInv'
    BY <1>10, DeliverOutcome DEF AdoptNow, LoginIssues, RecordRotation, LockFree, store, lockVars, feed, server
  <1>11. ASSUME NEW t \in Tasks, AdoptQueues(t) PROVE ChainInv'
    BY <1>11 DEF AdoptQueues, LoginIssues, store, lockVars, feed, server
  <1>12. ASSUME NEW t \in Tasks, AdoptRecords(t) PROVE ChainInv'
    <2>1. PICK o \in {"idle", "awaiting"} : pc' = [pc EXCEPT ![t] = o]
      BY <1>12, DeliverOutcome DEF AdoptRecords
    <2>2. /\ refresh_token' = carried[t] /\ UNCHANGED <<valid, orphans, issued, lost>>
          /\ carried' = [carried EXCEPT ![t] = NoPair]
          /\ presented' = [presented EXCEPT ![t] = NoPair]
          /\ wire' = [wire EXCEPT ![t] = "none"]
          /\ pc[t] = "adoptWait"
      BY <1>12 DEF AdoptRecords, RecordRotation, ForgetLocals, server
    <2>3. \A u \in Tasks : Carrying(u)' => u # t /\ Carrying(u) /\ carried'[u] = carried[u]
      BY <2>1, <2>2
    <2>4. refresh_token' \in valid' /\ refresh_token' <= issued'
      BY <2>2
    <2>5. \A u \in Tasks : Carrying(u)' => carried'[u] # refresh_token'
      BY <2>2, <2>3
    <2>6. QED  BY <2>2, <2>3, <2>4, <2>5
  <1>13. ASSUME NEW t \in Tasks, CancelWaiting(t) PROVE ChainInv'
    BY <1>13 DEF CancelWaiting, ForgetLocals, store, lockVars, feed, server
  <1>14. ASSUME NEW t \in Tasks, CancelAwaiting(t) PROVE ChainInv'
    BY <1>14 DEF CancelAwaiting, store, lockVars, feed, server
  <1>15. ASSUME NEW t \in Tasks, Grant(t) PROVE ChainInv'
    BY <1>15 DEF Grant, store, lockVars, feed, server
  <1>16. ASSUME NEW t \in Tasks, Deny(t) PROVE ChainInv'
    BY <1>16 DEF Deny, store, lockVars, feed, server
  <1>17. CASE DrainPending
    BY <1>17 DEF DrainPending, DeliverNext, DrainEnds, WakeAwaiters, lockVars, server
  <1>18. CASE DrainCancelled
    BY <1>18 DEF DrainCancelled, WakeAwaiters, store, lockVars, server
  <1>19. CASE Close
    BY <1>19 DEF Close, store, lockVars, feed, locals, server
  <1>20. ASSUME NEW p \in orphans, GrantOrphan(p) PROVE ChainInv'
    <2>1. /\ UNCHANGED <<refresh_token, pc, carried, presented, wire, issued>>
          /\ orphans' = orphans \ {p} /\ valid' = valid \ {p}
      BY <1>20 DEF GrantOrphan, store, locals
    <2>2. HeldTokenWorks'
      <3>1. CASE lost \/ p \in valid
        BY <1>20, <3>1 DEF GrantOrphan
      <3>2. CASE ~(lost \/ p \in valid)
        <4>1. valid' = valid /\ ~lost
          BY <2>1, <3>2
        <4>2. QED  BY <2>1, <4>1
      <3>3. QED  BY <3>1, <3>2
    <2>3. QED  BY <2>1, <2>2
  <1>21. CASE UNCHANGED vars
    BY <1>21 DEF vars, store, lockVars, feed, locals, server
  <1>22. QED
    BY <1>1, <1>2, <1>3, <1>4, <1>5, <1>6, <1>7, <1>8, <1>9, <1>10, <1>11, <1>12,
       <1>13, <1>14, <1>15, <1>16, <1>17, <1>18, <1>19, <1>20, <1>21
    DEF Next, TaskStep, Refresh, Adopt, Acquire, EndExchange, Cancel, Callers

-----------------------------------------------------------------------------
(* The deliveries.                                                         *)

LEMMA DeliveryInit == Init => DeliveryInv
  BY TaskAssumption DEF TaskAssumption, Init, DeliveryInv, QueueInv, DeliveryWaitIsSound, DrainRuns, Ready

\* Queue entries carry numbers, and the queue is indexed from 1.
LEMMA QueueType ==
    ASSUME TypeOK
    PROVE  /\ Len(pending) \in Nat /\ DOMAIN pending = 1..Len(pending)
           /\ \A i \in DOMAIN pending : pending[i].seq \in Nat
  <1>1. pending \in Seq(Rotation)
    BY DEF TypeOK
  <1>2. \A i \in 1..Len(pending) : pending[i] \in Rotation
    BY <1>1, ElementOfSeq
  <1>3. QED  BY <1>1, <1>2, LenProperties DEF Rotation

\* Recording a rotation appends the newest number: the queue stays ordered.
LEMMA RecordQueue ==
    ASSUME TypeOK, QueueInv, NEW p \in PairOrNone, RecordRotation(p), UNCHANGED offered
    PROVE  QueueInv'
  <1> USE DEF TypeOK, QueueInv, RecordRotation
  <1> DEFINE e == [seq |-> rotation_seq + 1, pair |-> p]
  <1>1. CASE ~Notify
    <2>1. pending' = pending /\ rotation_seq' = rotation_seq + 1
      BY <1>1
    <2>2. QED  BY <1>1, <2>1, QueueType
  <1>2. CASE Notify
    <2>1. pending' = Append(pending, e)
      BY <1>2
    <2>2. e \in Rotation
      BY DEF Rotation
    <2>3. /\ pending' # <<>>
          /\ Len(pending') = Len(pending) + 1
          /\ \A i \in 1..Len(pending) : pending'[i] = pending[i]
          /\ pending'[Len(pending) + 1] = e
      BY <2>1, <2>2, AppendProperties
    <2>4. DOMAIN pending' = 1..(Len(pending) + 1) /\ DOMAIN pending = 1..Len(pending)
      BY <2>1, <2>3, QueueType
    <2>5. \A i \in DOMAIN pending : pending[i].seq \in Nat
      BY QueueType
    <2>6. \A i \in DOMAIN pending' :
             offered' < pending'[i].seq /\ pending'[i].seq <= rotation_seq'
      BY <2>3, <2>4, <2>5
    <2>7. \A i, j \in DOMAIN pending' : i < j => pending'[i].seq < pending'[j].seq
      BY <2>3, <2>4, <2>5
    <2>8. QED  BY <1>2, <2>3, <2>6, <2>7
  <1>3. QED  BY <1>1, <1>2

\* Seeing to delivery leaves a drain that runs, and one caller at most waiting
\* for it, who started it.
LEMMA DeliverWaits ==
    ASSUME TypeOK, DeliveryInv, NEW t \in Tasks, DeliverPending(t),
           t = Drainer => delivery = "delivering"
    PROVE  /\ DeliveryWaitIsSound'
           /\ Notify => DrainRuns'
           /\ pc'[Drainer] \notin Ready => delivery' = "delivering"
  <1> USE TaskAssumption DEF TaskAssumption, TypeOK, DeliveryInv, DeliveryWaitIsSound
  <1> USE DEF DrainRuns, Ready, Waiting
  <1>1. CASE ~Notify \/ DrainRuns
    BY <1>1 DEF DeliverPending
  <1>2. CASE Notify /\ ~DrainRuns
    <2>1. pc' = [pc EXCEPT ![t] = "awaiting"] /\ delivery' = "scheduled"
      BY <1>2 DEF DeliverPending
    <2>2. t # Drainer /\ \A u \in Tasks : pc[u] # "awaiting"
      BY <1>2
    <2>3. QED  BY <1>2, <2>1, <2>2
  <1>3. QED  BY <1>1, <1>2

LEMMA DeliveryStep ==
    ASSUME TypeOK, DeliveryInv, [Next]_vars
    PROVE  DeliveryInv'
  <1> USE TaskAssumption, NotifyAssumption
  <1> USE DEF TaskAssumption, NotifyAssumption, DeliveryInv, QueueInv
  <1> USE DEF DeliveryWaitIsSound, DrainRuns
  <1> USE DEF TypeOK, PairOrNone, Pairs, NoPair, Ready, Waiting
  <1>1. ASSUME NEW t \in Tasks, RefreshRefused(t) PROVE DeliveryInv'
    BY <1>1 DEF RefreshRefused, MayCall, store, lockVars, feed, server
  <1>2. ASSUME NEW t \in Tasks, RefreshNow(t) PROVE DeliveryInv'
    BY <1>2 DEF RefreshNow, MayCall, SendExchange, store, lockVars, feed, server
  <1>3. ASSUME NEW t \in Tasks, RefreshQueues(t) PROVE DeliveryInv'
    BY <1>3 DEF RefreshQueues, MayCall, store, lockVars, feed, server
  <1>4. ASSUME NEW t \in Tasks, RefreshReuses(t) PROVE DeliveryInv'
    BY <1>4 DEF RefreshReuses, ForgetLocals, store, lockVars, feed, server
  <1>5. ASSUME NEW t \in Tasks, RefreshFindsClosed(t) PROVE DeliveryInv'
    BY <1>5 DEF RefreshFindsClosed, ForgetLocals, store, lockVars, feed, server
  <1>6. ASSUME NEW t \in Tasks, RefreshExchanges(t) PROVE DeliveryInv'
    BY <1>6 DEF RefreshExchanges, SendExchange, HasTurn, store, lockVars, feed, server
  <1>7. ASSUME NEW t \in Tasks, ExchangeSucceeds(t) PROVE DeliveryInv'
    <2>1. QueueInv'
      <3>1. carried[t] \in PairOrNone
        BY <1>7 DEF ExchangeSucceeds
      <3>2. QED  BY <1>7, <3>1, RecordQueue DEF ExchangeSucceeds
    <2>2. /\ DeliveryWaitIsSound'
          /\ Notify => DrainRuns'
          /\ pc'[Drainer] \notin Ready => delivery' = "delivering"
      BY <1>7, DeliverWaits DEF ExchangeSucceeds
    <2>3. QED  BY <1>7, <2>1, <2>2 DEF ExchangeSucceeds
  <1>8. ASSUME NEW t \in Tasks, ExchangeDenied(t) PROVE DeliveryInv'
    BY <1>8 DEF ExchangeDenied, ForgetLocals, store, lockVars, feed, server
  <1>9. ASSUME NEW t \in Tasks, ExchangeAbandoned(t) PROVE DeliveryInv'
    BY <1>9 DEF ExchangeAbandoned, ForgetLocals, store, lockVars, feed, server
  <1>10. ASSUME NEW t \in Callers, AdoptNow(t) PROVE DeliveryInv'
    <2>1. QueueInv'
      <3>1. issued + 1 \in PairOrNone
        BY <1>10, BoundAssumption DEF BoundAssumption, AdoptNow, LoginIssues
      <3>2. QED  BY <1>10, <3>1, RecordQueue DEF AdoptNow
    <2>2. /\ DeliveryWaitIsSound'
          /\ Notify => DrainRuns'
          /\ pc'[Drainer] \notin Ready => delivery' = "delivering"
      BY <1>10, DeliverWaits DEF AdoptNow, Callers
    <2>3. QED  BY <1>10, <2>1, <2>2 DEF AdoptNow
  <1>11. ASSUME NEW t \in Callers, AdoptQueues(t) PROVE DeliveryInv'
    BY <1>11 DEF Callers, AdoptQueues, LoginIssues, store, lockVars, feed, server
  <1>12. ASSUME NEW t \in Tasks, AdoptRecords(t) PROVE DeliveryInv'
    <2>1. QueueInv'
      <3>1. carried[t] \in PairOrNone
        BY <1>12 DEF AdoptRecords
      <3>2. QED  BY <1>12, <3>1, RecordQueue DEF AdoptRecords
    <2>2. /\ DeliveryWaitIsSound'
          /\ Notify => DrainRuns'
          /\ pc'[Drainer] \notin Ready => delivery' = "delivering"
      BY <1>12, DeliverWaits DEF AdoptRecords
    <2>3. QED  BY <1>12, <2>1, <2>2 DEF AdoptRecords
  <1>13. ASSUME NEW t \in Tasks, CancelWaiting(t) PROVE DeliveryInv'
    BY <1>13 DEF CancelWaiting, ForgetLocals, store, lockVars, feed, server
  <1>14. ASSUME NEW t \in Tasks, CancelAwaiting(t) PROVE DeliveryInv'
    BY <1>14 DEF CancelAwaiting, store, lockVars, feed, server
  <1>15. ASSUME NEW t \in Tasks, Grant(t) PROVE DeliveryInv'
    BY <1>15 DEF Grant, store, lockVars, feed, server
  <1>16. ASSUME NEW t \in Tasks, Deny(t) PROVE DeliveryInv'
    BY <1>16 DEF Deny, store, lockVars, feed, server
  <1>17. CASE DrainPending
    <2> DEFINE n == Len(pending)
    <2>1. DOMAIN pending = 1..n /\ n \in Nat /\ \A i \in 1..n : pending[i].seq \in Nat
      BY QueueType
    <2>2. rotation_seq' = rotation_seq /\ UNCHANGED halted
      BY <1>17 DEF DrainPending
    <2>3. pc[Drainer] \in Ready
      BY <1>17 DEF DrainPending
    <2>4. CASE DeliverNext
      <3>1. PICK i \in DOMAIN pending :
                /\ Fresh(i)
                /\ pending' = SubSeq(pending, i + 1, n)
                /\ offered' = pending[i].seq
        BY <2>4 DEF DeliverNext
      <3>2. i = n /\ pending[i].seq = rotation_seq
        <4>1. pending[i].seq >= rotation_seq /\ pending[i].seq <= rotation_seq
          BY <2>1, <3>1 DEF Fresh
        <4>2. ~(i < n)
          <5>1. SUFFICES ASSUME i < n PROVE FALSE  OBVIOUS
          <5>2. pending[i].seq < pending[n].seq /\ pending[n].seq <= rotation_seq
            <6>1. n \in DOMAIN pending
              BY <2>1, <3>1, <5>1
            <6>2. QED  BY <3>1, <5>1, <6>1
          <5>3. QED  BY <2>1, <4>1, <5>2
        <4>3. QED  BY <2>1, <3>1, <4>1, <4>2
      <3>3. pending' = <<>> /\ offered' = rotation_seq
        BY <2>1, <3>1, <3>2
      <3>4. delivery' = "delivering" /\ UNCHANGED pc
        BY <2>4 DEF DeliverNext
      <3>5. QED  BY <2>2, <3>3, <3>4
    <2>5. CASE DrainEnds
      <3>1. Notify => offered = rotation_seq
        BY <2>1, <2>5 DEF DrainEnds, Fresh
      <3>2. pending' = <<>> /\ UNCHANGED offered /\ delivery' = "done"
        BY <2>5 DEF DrainEnds
      <3>3. \A t \in Tasks : pc'[t] # "awaiting"
        BY <2>5 DEF DrainEnds, WakeAwaiters
      <3>4. pc'[Drainer] \in Ready
        BY <2>3, <2>5 DEF DrainEnds, WakeAwaiters
      <3>5. QED  BY <2>2, <3>1, <3>2, <3>3, <3>4
    <2>6. QED  BY <1>17, <2>4, <2>5 DEF DrainPending
  <1>18. CASE DrainCancelled
    BY <1>18 DEF DrainCancelled, WakeAwaiters, store, lockVars, server
  <1>19. CASE Close
    BY <1>19 DEF Close, store, lockVars, feed, locals, server
  <1>20. ASSUME NEW p \in orphans, GrantOrphan(p) PROVE DeliveryInv'
    BY <1>20 DEF GrantOrphan, store, lockVars, feed, locals, server
  <1>21. CASE UNCHANGED vars
    BY <1>21 DEF vars, store, lockVars, feed, locals, server
  <1>22. QED
    BY <1>1, <1>2, <1>3, <1>4, <1>5, <1>6, <1>7, <1>8, <1>9, <1>10, <1>11, <1>12,
       <1>13, <1>14, <1>15, <1>16, <1>17, <1>18, <1>19, <1>20, <1>21
    DEF Next, TaskStep, Refresh, Adopt, Acquire, EndExchange, Cancel, Callers

-----------------------------------------------------------------------------
(* The theorems.                                                           *)

\* The three parts of the invariant hold together in every reachable state.
THEOREM StoreInvariant == Safety => []StoreInv
  <1>1. Init => TypeOK /\ StoreInv
    BY TypeInit, LockInit, ChainInit, DeliveryInit DEF StoreInv
  <1>2. TypeOK /\ StoreInv /\ [Next]_vars => (TypeOK /\ StoreInv)'
    BY TypeStep, LockStep, ChainStep, DeliveryStep DEF StoreInv
  <1>3. QED  BY <1>1, <1>2, PTL DEF Safety

\* Token requests never overlap, whatever tasks refresh, log in or cancel.
THEOREM Serialized == Safety => []ExchangesSerialized
  <1>1. StoreInv => ExchangesSerialized
    BY DEF StoreInv, LockInv
  <1>2. QED  BY <1>1, StoreInvariant, PTL

\* A token request always presents the token that is held when it is answered,
\* so no answer overwrites a pair it was not derived from.
THEOREM InFlightIsHeld == Safety => []TokenInFlightIsHeld
  <1>1. StoreInv => TokenInFlightIsHeld
    BY DEF StoreInv, LockInv
  <1>2. QED  BY <1>1, StoreInvariant, PTL

\* A client that never lost an answer can always refresh.
THEOREM NeverStranded == Safety => []HeldTokenWorks
  <1>1. StoreInv => HeldTokenWorks
    BY DEF StoreInv, ChainInv
  <1>2. QED  BY <1>1, StoreInvariant, PTL

\* When the deliveries are at rest the consumer has been given the newest pair.
THEOREM NothingIsLeftBehind == Safety => []NothingLeftBehind
  <1>1. TypeOK /\ StoreInv => NothingLeftBehind
    BY DEF StoreInv, DeliveryInv, QueueInv, NothingLeftBehind, TypeOK
  <1>2. QED  BY <1>1, TypeCorrect, StoreInvariant, PTL

\* A callback that calls back into the client never waits for itself.
THEOREM NoSelfWait == Safety => []DeliveryWaitIsSound
  <1>1. StoreInv => DeliveryWaitIsSound
    BY DEF StoreInv, DeliveryInv
  <1>2. QED  BY <1>1, StoreInvariant, PTL

-----------------------------------------------------------------------------
(* The store implements RotationFeed.                                      *)

LEMMA FeedInitial == Init => Feed!FeedInit
  BY DEF Init, Feed!FeedInit

\* Every step of the store is a rotation, an offer of the newest rotation, a
\* halt, or leaves the feed alone.
LEMMA FeedStep ==
    ASSUME TypeOK, DeliveryInv, [Next]_vars
    PROVE  [Feed!FeedNext]_(Feed!feedVars)
  <1> USE DEF Feed!FeedNext, Feed!Rotate, Feed!Offer, Feed!Halt, Feed!feedVars
  <1>1. ASSUME NEW t \in Tasks, RefreshRefused(t) PROVE [Feed!FeedNext]_(Feed!feedVars)
    BY <1>1 DEF RefreshRefused, store, feed
  <1>2. ASSUME NEW t \in Tasks, RefreshNow(t) PROVE [Feed!FeedNext]_(Feed!feedVars)
    BY <1>2 DEF RefreshNow, store, feed
  <1>3. ASSUME NEW t \in Tasks, RefreshQueues(t) PROVE [Feed!FeedNext]_(Feed!feedVars)
    BY <1>3 DEF RefreshQueues, store, feed
  <1>4. ASSUME NEW t \in Tasks, RefreshReuses(t) PROVE [Feed!FeedNext]_(Feed!feedVars)
    BY <1>4 DEF RefreshReuses, store, feed
  <1>5. ASSUME NEW t \in Tasks, RefreshFindsClosed(t) PROVE [Feed!FeedNext]_(Feed!feedVars)
    BY <1>5 DEF RefreshFindsClosed, store, feed
  <1>6. ASSUME NEW t \in Tasks, RefreshExchanges(t) PROVE [Feed!FeedNext]_(Feed!feedVars)
    BY <1>6 DEF RefreshExchanges, store, feed
  <1>7. ASSUME NEW t \in Tasks, ExchangeSucceeds(t) PROVE [Feed!FeedNext]_(Feed!feedVars)
    BY <1>7 DEF ExchangeSucceeds, RecordRotation
  <1>8. ASSUME NEW t \in Tasks, ExchangeDenied(t) PROVE [Feed!FeedNext]_(Feed!feedVars)
    BY <1>8 DEF ExchangeDenied, store, feed
  <1>9. ASSUME NEW t \in Tasks, ExchangeAbandoned(t) PROVE [Feed!FeedNext]_(Feed!feedVars)
    BY <1>9 DEF ExchangeAbandoned, store, feed
  <1>10. ASSUME NEW t \in Tasks, AdoptNow(t) PROVE [Feed!FeedNext]_(Feed!feedVars)
    BY <1>10 DEF AdoptNow, RecordRotation
  <1>11. ASSUME NEW t \in Tasks, AdoptQueues(t) PROVE [Feed!FeedNext]_(Feed!feedVars)
    BY <1>11 DEF AdoptQueues, store, feed
  <1>12. ASSUME NEW t \in Tasks, AdoptRecords(t) PROVE [Feed!FeedNext]_(Feed!feedVars)
    BY <1>12 DEF AdoptRecords, RecordRotation
  <1>13. ASSUME NEW t \in Tasks, CancelWaiting(t) PROVE [Feed!FeedNext]_(Feed!feedVars)
    BY <1>13 DEF CancelWaiting, store, feed
  <1>14. ASSUME NEW t \in Tasks, CancelAwaiting(t) PROVE [Feed!FeedNext]_(Feed!feedVars)
    BY <1>14 DEF CancelAwaiting, store, feed
  <1>15. ASSUME NEW t \in Tasks, Grant(t) PROVE [Feed!FeedNext]_(Feed!feedVars)
    BY <1>15 DEF Grant, store, feed
  <1>16. ASSUME NEW t \in Tasks, Deny(t) PROVE [Feed!FeedNext]_(Feed!feedVars)
    BY <1>16 DEF Deny, store, feed
  <1>17. CASE DrainPending
    <2>1. rotation_seq' = rotation_seq /\ UNCHANGED halted
      BY <1>17 DEF DrainPending
    <2>2. CASE DeliverNext
      <3>1. PICK i \in DOMAIN pending : Fresh(i) /\ offered' = pending[i].seq
        BY <2>2 DEF DeliverNext
      <3>2. /\ pending[i].seq \in Nat /\ rotation_seq \in Nat /\ offered \in Nat
            /\ offered < pending[i].seq /\ pending[i].seq <= rotation_seq
        BY <3>1, QueueType DEF DeliveryInv, QueueInv, TypeOK
      <3>3. offered' = rotation_seq /\ offered < rotation_seq
        BY <3>1, <3>2 DEF Fresh
      <3>4. QED  BY <2>1, <3>3
    <2>3. CASE DrainEnds
      BY <2>1, <2>3 DEF DrainEnds
    <2>4. QED  BY <1>17, <2>2, <2>3 DEF DrainPending
  <1>18. CASE DrainCancelled
    BY <1>18 DEF DrainCancelled, store
  <1>19. CASE Close
    BY <1>19 DEF Close, store, feed
  <1>20. ASSUME NEW p \in orphans, GrantOrphan(p) PROVE [Feed!FeedNext]_(Feed!feedVars)
    BY <1>20 DEF GrantOrphan, store, feed
  <1>21. CASE UNCHANGED vars
    BY <1>21 DEF vars, store, feed
  <1>22. QED
    BY <1>1, <1>2, <1>3, <1>4, <1>5, <1>6, <1>7, <1>8, <1>9, <1>10, <1>11, <1>12,
       <1>13, <1>14, <1>15, <1>16, <1>17, <1>18, <1>19, <1>20, <1>21
    DEF Next, TaskStep, Refresh, Adopt, Acquire, EndExchange, Cancel, Callers

\* What the consumer's callback is started with is always the newest rotation,
\* never the same one twice and never an older one after a newer one.
THEOREM ImplementsFeed == Safety => DeliversInOrder
  <1>1. TypeOK /\ StoreInv /\ [Next]_vars => [Feed!FeedNext]_(Feed!feedVars)
    BY FeedStep DEF StoreInv
  <1>2. QED
    BY <1>1, FeedInitial, TypeCorrect, StoreInvariant, PTL
    DEF Safety, DeliversInOrder, Feed!FeedSafety

=============================================================================
