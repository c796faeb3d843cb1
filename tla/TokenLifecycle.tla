--------------------------- MODULE TokenLifecycle ---------------------------
(***************************************************************************)
(* The token store of the client, _tokens.py: the held pair, the lock that *)
(* serialises exchanges, the rotation counter and the ordered delivery of   *)
(* rotated pairs to the consumer's callback.                                *)
(*                                                                         *)
(* The program is a set of asyncio tasks on one thread: what stands between *)
(* two awaits is one step.  A step therefore ends at lock.acquire() when    *)
(* the lock is taken, at the token request, at shield(delivery) or at the   *)
(* consumer's callback.                                                     *)
(*                                                                         *)
(* A token pair is the number under which the authorization server issued   *)
(* it; NoPair stands for None.  The authorization server and the consumer   *)
(* are the environment.                                                     *)
(***************************************************************************)
EXTENDS SequencesExt

CONSTANTS
    Tasks,      \* the asyncio tasks that call refresh() or adopt()
    Drainer,    \* the one of them that runs the callback, and what it calls
    Notify,     \* TRUE when the client was given an on_token_refresh callback
    MaxPairs    \* bound: the number of pairs the server ever issues

ASSUME TaskAssumption == Drainer \in Tasks
ASSUME NotifyAssumption == Notify \in BOOLEAN
ASSUME BoundAssumption == MaxPairs \in Nat \ {0}

VARIABLES
    \* --- the fields of TokenLifecycle ---
    access_token,   \* pair whose access token is held
    refresh_token,  \* pair whose refresh token is held
    rotation_seq,   \* number of rotations recorded
    pending,        \* deque of rotations still to deliver
    locked,         \* asyncio.Lock: taken or not
    waiters,        \* asyncio.Lock: the tasks waiting for it, first come first
    delivery,       \* state of the drain task
    \* --- the local state of each task ---
    pc,             \* where the task's call stands
    entry,          \* refresh_at_entry of a refresh() that waits or exchanges
    carried,        \* the pair a login brought, or the pair in a token answer
    presented,      \* refresh token in the task's token request
    wire,           \* state of the task's token request
    \* --- the client that owns the store ---
    closed,         \* EngieBeClient._closed
    \* --- the authorization server ---
    issued,         \* number of pairs issued so far
    valid,          \* pairs whose refresh token the server still accepts
    orphans,        \* tokens in requests the client gave up before an answer
    \* --- history ---
    offered,        \* rotation the callback was last started with
    lost,           \* the server rotated and the client never read the answer
    halted          \* a drain task was cancelled

store == <<access_token, refresh_token, rotation_seq, pending>>
lockVars == <<locked, waiters>>
feed == <<delivery, offered, halted>>
locals == <<pc, entry, carried, presented, wire>>
server == <<issued, valid, orphans, lost>>
vars == <<store, lockVars, feed, locals, server, closed>>

NoPair == 0
Pairs == 1..MaxPairs
PairOrNone == Pairs \cup {NoPair}

\* An entry of the delivery queue: a rotation's number and its pair.
Rotation == [seq : Nat, pair : PairOrNone]

Callers == Tasks \ {Drainer}

\* A task outside any call of the store; "raised" when its last call raised.
Ready == {"idle", "raised"}
Waiting == {"refreshWait", "adoptWait"}

TypeOK ==
    /\ access_token \in PairOrNone
    /\ refresh_token \in PairOrNone
    /\ rotation_seq \in Nat
    /\ pending \in Seq(Rotation)
    /\ locked \in BOOLEAN
    /\ waiters \in Seq(Tasks)
    /\ delivery \in {"done", "scheduled", "delivering"}
    /\ pc \in [Tasks -> Ready \cup Waiting \cup {"exchanging", "awaiting"}]
    /\ entry \in [Tasks -> PairOrNone]
    /\ carried \in [Tasks -> PairOrNone]
    /\ presented \in [Tasks -> PairOrNone]
    /\ wire \in [Tasks -> {"none", "sent", "granted", "denied"}]
    /\ closed \in BOOLEAN
    /\ issued \in Pairs
    /\ valid \subseteq Pairs
    /\ orphans \subseteq PairOrNone
    /\ offered \in Nat
    /\ lost \in BOOLEAN
    /\ halted \in BOOLEAN

(***************************************************************************)
(* The constructor takes any combination of the two tokens, None included. *)
(* The first pair, number 1, is the one an earlier session left behind.    *)
(***************************************************************************)
Init ==
    /\ access_token \in {NoPair, 1}
    /\ refresh_token \in {NoPair, 1}
    /\ rotation_seq = 0
    /\ pending = <<>>
    /\ locked = FALSE
    /\ waiters = <<>>
    /\ delivery = "done"
    /\ pc = [t \in Tasks |-> "idle"]
    /\ entry = [t \in Tasks |-> NoPair]
    /\ carried = [t \in Tasks |-> NoPair]
    /\ presented = [t \in Tasks |-> NoPair]
    /\ wire = [t \in Tasks |-> "none"]
    /\ closed = FALSE
    /\ issued = 1
    /\ valid = {1}
    /\ orphans = {}
    /\ offered = 0
    /\ lost = FALSE
    /\ halted = FALSE

-----------------------------------------------------------------------------
(* The private helpers: what they do to the state they are called in.      *)

\* Mutants of RecordRotation: it queues the bare number; it does not count the
\* rotation; it keeps the old refresh token.
QueuesBareNumber(p) ==
    /\ access_token' = p /\ refresh_token' = p
    /\ rotation_seq' = rotation_seq + 1
    /\ pending' = Append(pending, [seq |-> rotation_seq + 1])
ForgetsToCount(p) ==
    /\ access_token' = p /\ refresh_token' = p
    /\ pending' = IF Notify THEN Append(pending, [seq |-> rotation_seq, pair |-> p]) ELSE pending
    /\ UNCHANGED rotation_seq
KeepsRefreshToken(p) ==
    /\ access_token' = p
    /\ rotation_seq' = rotation_seq + 1
    /\ pending' = IF Notify THEN Append(pending, [seq |-> rotation_seq + 1, pair |-> p]) ELSE pending
    /\ UNCHANGED refresh_token

\* _record_rotation: store the pair, number it, queue it if anyone listens.
RecordRotation(p) ==
    /\ access_token' = p
    /\ refresh_token' = p
    /\ rotation_seq' = rotation_seq + 1
    /\ pending' = IF Notify
                  THEN Append(pending, [seq |-> rotation_seq + 1, pair |-> p])
                  ELSE pending

\* A drain task exists and has not ended.
DrainRuns == delivery # "done"

\* Mutant of DeliverPending: a drain that runs does not count.
AlwaysStartsDrain(t) ==
    IF ~Notify
    THEN pc' = [pc EXCEPT ![t] = "idle"] /\ UNCHANGED delivery
    ELSE pc' = [pc EXCEPT ![t] = "awaiting"] /\ delivery' = "scheduled"

\* _deliver_pending: start a drain and wait for it, unless one already runs.
DeliverPending(t) ==
    IF ~Notify \/ DrainRuns
    THEN /\ pc' = [pc EXCEPT ![t] = "idle"]
         /\ UNCHANGED delivery
    ELSE /\ pc' = [pc EXCEPT ![t] = "awaiting"]
         /\ delivery' = "scheduled"

\* asyncio.Lock.acquire() returns at once only if nobody waits either.
LockFree == ~locked /\ waiters = <<>>

\* The task's local variables go out of scope when its call ends.
ForgetLocals(t) ==
    /\ entry' = [entry EXCEPT ![t] = NoPair]
    /\ carried' = [carried EXCEPT ![t] = NoPair]
    /\ presented' = [presented EXCEPT ![t] = NoPair]
    /\ wire' = [wire EXCEPT ![t] = "none"]

\* Mutant of SendExchange: the lock is not held while the request is out.
SendsUnlocked(t) ==
    /\ pc' = [pc EXCEPT ![t] = "exchanging"]
    /\ presented' = [presented EXCEPT ![t] = refresh_token]
    /\ wire' = [wire EXCEPT ![t] = "sent"]
    /\ UNCHANGED locked

\* The lock is held and exchange_token() has sent the request.
SendExchange(t) ==
    /\ locked' = TRUE
    /\ pc' = [pc EXCEPT ![t] = "exchanging"]
    /\ presented' = [presented EXCEPT ![t] = refresh_token]
    /\ wire' = [wire EXCEPT ![t] = "sent"]

\* refresh() finds, once it has the lock, that the pair changed meanwhile.
RotatedMeanwhile(t) ==
    /\ refresh_token # entry[t]
    /\ refresh_token # NoPair
    /\ access_token # NoPair

\* The lock was released to this task, the longest waiting one.
HasTurn(t) ==
    /\ ~locked
    /\ waiters # <<>>
    /\ Head(waiters) = t

\* Only the callback of a running delivery executes in the drain task.
MayCall(t) ==
    /\ pc[t] \in Ready
    /\ t = Drainer => delivery = "delivering"

-----------------------------------------------------------------------------
(* refresh()                                                               *)

\* The client is closed, or no refresh token is held: the call raises.
RefreshRefused(t) ==
    /\ MayCall(t)
    /\ closed \/ refresh_token = NoPair
    /\ pc' = [pc EXCEPT ![t] = "raised"]
    /\ UNCHANGED <<store, lockVars, feed, entry, carried, presented, wire, server, closed>>

\* The lock is free: the call goes straight to the exchange.
RefreshNow(t) ==
    /\ MayCall(t)
    /\ ~closed /\ refresh_token # NoPair
    /\ LockFree
    /\ SendExchange(t)
    /\ entry' = [entry EXCEPT ![t] = refresh_token]
    /\ UNCHANGED <<store, waiters, feed, carried, server, closed>>

\* The lock is not free: the call queues up for it.
RefreshQueues(t) ==
    /\ MayCall(t)
    /\ ~closed /\ refresh_token # NoPair
    /\ ~LockFree
    /\ waiters' = Append(waiters, t)
    /\ pc' = [pc EXCEPT ![t] = "refreshWait"]
    /\ entry' = [entry EXCEPT ![t] = refresh_token]
    /\ UNCHANGED <<store, locked, feed, carried, presented, wire, server, closed>>

\* A waiter gets the lock after a rotation: it returns the new pair.
RefreshReuses(t) ==
    /\ pc[t] = "refreshWait"
    /\ HasTurn(t)
    /\ RotatedMeanwhile(t)
    /\ waiters' = Tail(waiters)
    /\ pc' = [pc EXCEPT ![t] = "idle"]
    /\ ForgetLocals(t)
    /\ UNCHANGED <<store, locked, feed, server, closed>>

\* A waiter gets the lock, nothing has rotated, and the client is closed:
\* the session provider raises and the lock is released.
RefreshFindsClosed(t) ==
    /\ pc[t] = "refreshWait"
    /\ HasTurn(t)
    /\ ~RotatedMeanwhile(t)
    /\ closed
    /\ waiters' = Tail(waiters)
    /\ pc' = [pc EXCEPT ![t] = "raised"]
    /\ ForgetLocals(t)
    /\ UNCHANGED <<store, locked, feed, server, closed>>

\* A waiter gets the lock and nothing has rotated: it tries its own refresh.
RefreshExchanges(t) ==
    /\ pc[t] = "refreshWait"
    /\ HasTurn(t)
    /\ ~RotatedMeanwhile(t)
    /\ ~closed
    /\ waiters' = Tail(waiters)
    /\ SendExchange(t)
    /\ UNCHANGED <<store, feed, entry, carried, server, closed>>

\* The answer is read: record the pair, release the lock, see to delivery.
ExchangeSucceeds(t) ==
    /\ pc[t] = "exchanging"
    /\ wire[t] = "granted"
    /\ RecordRotation(carried[t])
    /\ locked' = FALSE
    /\ DeliverPending(t)
    /\ ForgetLocals(t)
    /\ UNCHANGED <<waiters, offered, halted, server, closed>>

\* Mutant of ExchangeDenied: the error path leaves the lock taken.
DeniedKeepsLock(t) ==
    /\ pc[t] = "exchanging" /\ wire[t] = "denied"
    /\ pc' = [pc EXCEPT ![t] = "raised"]
    /\ ForgetLocals(t)
    /\ UNCHANGED <<store, lockVars, feed, server, closed>>

\* The server refused the token: the error is raised, the lock released.
ExchangeDenied(t) ==
    /\ pc[t] = "exchanging"
    /\ wire[t] = "denied"
    /\ locked' = FALSE
    /\ pc' = [pc EXCEPT ![t] = "raised"]
    /\ ForgetLocals(t)
    /\ UNCHANGED <<store, waiters, feed, server, closed>>

\* No usable answer: a timeout, a connection error (closing the owned session
\* causes one), a server error, or the cancellation of the calling task.
ExchangeAbandoned(t) ==
    /\ pc[t] = "exchanging"
    /\ \/ wire[t] = "sent" /\ orphans' \in {orphans, orphans \cup {presented[t]}}
       \/ wire[t] # "sent" /\ UNCHANGED orphans
    /\ lost' = (lost \/ wire[t] = "granted")
    /\ locked' = FALSE
    /\ pc' = [pc EXCEPT ![t] = "raised"]
    /\ ForgetLocals(t)
    /\ UNCHANGED <<store, waiters, feed, issued, valid, closed>>

-----------------------------------------------------------------------------
(* adopt(): a login finished and brings its own pair.                      *)

\* The server issues the login's pair, and the flow hands it over.
LoginIssues(p) ==
    /\ issued < MaxPairs
    /\ p = issued + 1
    /\ issued' = p
    /\ valid' = valid \cup {p}
    /\ UNCHANGED <<orphans, lost>>

\* Mutant of AdoptNow: a login does not take the lock.
AdoptsUnlocked(t) ==
    /\ pc[t] \in Ready
    /\ LoginIssues(issued + 1)
    /\ RecordRotation(issued + 1)
    /\ DeliverPending(t)
    /\ UNCHANGED <<lockVars, offered, halted, entry, carried, presented, wire, closed>>

AdoptNow(t) ==
    /\ pc[t] \in Ready
    /\ LockFree
    /\ LoginIssues(issued + 1)
    /\ RecordRotation(issued + 1)
    /\ DeliverPending(t)
    /\ UNCHANGED <<lockVars, offered, halted, entry, carried, presented, wire, closed>>

AdoptQueues(t) ==
    /\ pc[t] \in Ready
    /\ ~LockFree
    /\ LoginIssues(issued + 1)
    /\ waiters' = Append(waiters, t)
    /\ carried' = [carried EXCEPT ![t] = issued + 1]
    /\ pc' = [pc EXCEPT ![t] = "adoptWait"]
    /\ UNCHANGED <<store, locked, feed, entry, presented, wire, closed>>

AdoptRecords(t) ==
    /\ pc[t] = "adoptWait"
    /\ HasTurn(t)
    /\ waiters' = Tail(waiters)
    /\ RecordRotation(carried[t])
    /\ DeliverPending(t)
    /\ ForgetLocals(t)
    /\ UNCHANGED <<locked, offered, halted, server, closed>>

-----------------------------------------------------------------------------
(* Cancellation of a calling task.                                         *)

\* While it waits for the lock: the waiter leaves the queue.
CancelWaiting(t) ==
    /\ pc[t] \in Waiting
    /\ \E i \in DOMAIN waiters :
          /\ waiters[i] = t
          /\ waiters' = RemoveAt(waiters, i)
    /\ pc' = [pc EXCEPT ![t] = "raised"]
    /\ ForgetLocals(t)
    /\ UNCHANGED <<store, locked, feed, server, closed>>

\* While it waits for the delivery: the shield keeps the drain going.
CancelAwaiting(t) ==
    /\ pc[t] = "awaiting"
    /\ pc' = [pc EXCEPT ![t] = "raised"]
    /\ UNCHANGED <<store, lockVars, feed, entry, carried, presented, wire, server, closed>>

-----------------------------------------------------------------------------
(* _drain_pending(): runs in its own task.                                 *)

\* Waking the task that waits for the drain, with the given outcome.
WakeAwaiters(outcome) ==
    pc' = [t \in Tasks |-> IF pc[t] = "awaiting" THEN outcome ELSE pc[t]]

\* Mutants of Fresh: nothing is superseded; an off-by-one in the comparison.
AnyIsFresh(i) == TRUE
FreshIfLater(i) == pending[i].seq > rotation_seq

\* An entry of the queue that no later rotation has superseded.
Fresh(i) == pending[i].seq >= rotation_seq

\* The loop pops entries, drops the superseded ones, and starts the callback
\* with the first fresh one ...
DeliverNext ==
    \E i \in DOMAIN pending :
        /\ Fresh(i)
        /\ \A j \in 1..(i - 1) : ~Fresh(j)
        /\ pending' = SubSeq(pending, i + 1, Len(pending))
        /\ delivery' = "delivering"
        /\ offered' = pending[i].seq
        /\ UNCHANGED pc

\* Mutant of DrainEnds: a superseded entry ends the loop (break for continue).
BreaksAtSuperseded ==
    /\ pending # <<>> => ~Fresh(1)
    /\ pending' = IF pending = <<>> THEN <<>> ELSE Tail(pending)
    /\ delivery' = "done"
    /\ WakeAwaiters("idle")
    /\ UNCHANGED offered

\* ... or empties the queue and ends.
DrainEnds ==
    /\ \A i \in DOMAIN pending : ~Fresh(i)
    /\ pending' = <<>>
    /\ delivery' = "done"
    /\ WakeAwaiters("idle")
    /\ UNCHANGED offered

\* The drain task gets to run, or its callback has returned or raised.
DrainPending ==
    /\ \/ delivery = "scheduled"
       \/ delivery = "delivering" /\ pc[Drainer] \in Ready
    /\ DeliverNext \/ DrainEnds
    /\ UNCHANGED <<access_token, refresh_token, rotation_seq, lockVars, halted>>
    /\ UNCHANGED <<entry, carried, presented, wire, server, closed>>

\* The drain task itself is cancelled, by the loop that is being closed.
DrainCancelled ==
    /\ DrainRuns
    /\ pc[Drainer] \in Ready
    /\ delivery' = "done"
    /\ halted' = TRUE
    /\ WakeAwaiters("raised")
    /\ UNCHANGED <<store, lockVars, offered, entry, carried, presented, wire, server, closed>>

-----------------------------------------------------------------------------
(* EngieBeClient.close(): awaits neither the lock nor the drain.           *)

Close ==
    /\ ~closed
    /\ closed' = TRUE
    /\ UNCHANGED <<store, lockVars, feed, locals, server>>

-----------------------------------------------------------------------------
(* The authorization server: a refresh token works once.                   *)

Grant(t) ==
    /\ wire[t] = "sent"
    /\ presented[t] \in valid
    /\ issued < MaxPairs
    /\ issued' = issued + 1
    /\ valid' = (valid \ {presented[t]}) \cup {issued + 1}
    /\ carried' = [carried EXCEPT ![t] = issued + 1]
    /\ wire' = [wire EXCEPT ![t] = "granted"]
    /\ UNCHANGED <<store, lockVars, feed, pc, entry, presented, orphans, lost, closed>>

Deny(t) ==
    /\ wire[t] = "sent"
    /\ presented[t] \notin valid
    /\ wire' = [wire EXCEPT ![t] = "denied"]
    /\ UNCHANGED <<store, lockVars, feed, pc, entry, carried, presented, server, closed>>

\* A request the client gave up still reaches the server.
GrantOrphan(p) ==
    /\ p \in orphans
    /\ orphans' = orphans \ {p}
    /\ valid' = valid \ {p}
    /\ lost' = (lost \/ p \in valid)
    /\ UNCHANGED <<store, lockVars, feed, locals, issued, closed>>

-----------------------------------------------------------------------------
Refresh(t) == RefreshRefused(t) \/ RefreshNow(t) \/ RefreshQueues(t)
Adopt(t) == AdoptNow(t) \/ AdoptQueues(t)
Acquire(t) ==
    \/ RefreshReuses(t) \/ RefreshFindsClosed(t) \/ RefreshExchanges(t)
    \/ AdoptRecords(t)
EndExchange(t) == ExchangeSucceeds(t) \/ ExchangeDenied(t) \/ ExchangeAbandoned(t)
Cancel(t) == CancelWaiting(t) \/ CancelAwaiting(t)

TaskStep(t) ==
    \/ Refresh(t)
    \/ t \in Callers /\ Adopt(t)
    \/ Acquire(t) \/ EndExchange(t) \/ Cancel(t)
    \/ Grant(t) \/ Deny(t)

Next ==
    \/ \E t \in Tasks : TaskStep(t)
    \/ DrainPending \/ DrainCancelled \/ Close
    \/ \E p \in orphans : GrantOrphan(p)

(***************************************************************************)
(* Fairness.  A task whose lock future is set is scheduled by the event     *)
(* loop; every token request runs under a total timeout, so it ends; a      *)
(* scheduled drain task runs.  That the consumer's callback returns is an   *)
(* assumption on the consumer; it may call back into the client any number  *)
(* of times first, hence strong fairness.  Nobody owes a call, a login, a   *)
(* cancellation or a close.                                                 *)
(***************************************************************************)
Fairness ==
    /\ \A t \in Tasks : WF_vars(Acquire(t)) /\ WF_vars(EndExchange(t))
    /\ SF_vars(DrainPending)

Safety == Init /\ [][Next]_vars
Spec == Safety /\ Fairness
-----------------------------------------------------------------------------
(* Properties.                                                             *)

\* The lock does its work across the await of the token request: requests
\* never overlap, and the lock is taken exactly while one is in flight.
\* (async with self._lock in refresh() and adopt().)
ExchangesSerialized ==
    /\ \A t, u \in Tasks : pc[t] = "exchanging" /\ pc[u] = "exchanging" => t = u
    /\ locked <=> \E t \in Tasks : pc[t] = "exchanging"

\* What a request in flight presents is the token held when the call was made,
\* and it is still the token held now: no rotation slipped in while the call
\* waited, none replaces the pair under the request, so recording the answer
\* never overwrites a login or another refresh.
TokenInFlightIsHeld ==
    \A t \in Tasks : pc[t] = "exchanging" =>
        presented[t] = refresh_token /\ entry[t] = refresh_token

\* The refresh token held can be exchanged, or the answer to its exchange is
\* on its way, unless an answer was lost after the server had rotated.
\* No interleaving of refreshes, logins, cancellations and close() strands a
\* client that lost no answer.
HeldTokenWorks ==
    ~lost /\ refresh_token # NoPair =>
        \/ refresh_token \in valid
        \/ \E t \in Tasks : wire[t] = "granted" /\ presented[t] = refresh_token

\* When no drain runs and none was ever cancelled, the callback has been
\* started with the newest pair and nothing is queued: no rotation recorded
\* while a drain was ending is left behind.
NothingLeftBehind ==
    Notify /\ ~DrainRuns /\ ~halted => offered = rotation_seq /\ pending = <<>>

\* A call that waits for a delivery waits for a drain that runs, is the only
\* one to wait for it, and is not the callback itself: a callback that
\* refreshes the client does not wait for its own end.
DeliveryWaitIsSound ==
    \A t \in Tasks : pc[t] = "awaiting" =>
        /\ DrainRuns
        /\ t # Drainer
        /\ \A u \in Tasks : pc[u] = "awaiting" => u = t

\* Every call of refresh() or adopt() returns or raises, whatever the other
\* tasks, the server and the callback do: nobody waits for the lock, the
\* token endpoint or a delivery for ever.
CallsEnd == \A t \in Tasks : pc[t] \notin Ready ~> pc[t] \in Ready

\* The store is a RotationFeed: what the callback is started with is always
\* the newest rotation, never one twice and never an older one after a newer.
Feed == INSTANCE RotationFeed WITH rotated <- rotation_seq
DeliversInOrder == Feed!FeedSafety

\* And a pair whose delivery nobody tears down is delivered in the end.
DeliversNewest == Feed!FeedSpec
-----------------------------------------------------------------------------
(***************************************************************************)
(* The inductive invariant behind the safety properties, in three parts.   *)
(***************************************************************************)

\* A task that holds a pair nobody else has yet: a login waiting to be
\* recorded, or a token answer waiting to be read.
Carrying(t) == pc[t] = "adoptWait" \/ wire[t] = "granted"

\* The lock.  Besides the two properties: a request is out exactly while its
\* task is exchanging, and a waiter whose entry token is no longer the held
\* one finds a complete pair, so it takes the early return.
LockInv ==
    /\ ExchangesSerialized
    /\ TokenInFlightIsHeld
    /\ \A t \in Tasks : wire[t] # "none" <=> pc[t] = "exchanging"
    /\ \A t \in Tasks : Carrying(t) => carried[t] # NoPair
    /\ \A t \in Tasks :
          pc[t] = "refreshWait" /\ entry[t] # refresh_token => rotation_seq > 0
    /\ rotation_seq > 0 => access_token # NoPair /\ refresh_token # NoPair

\* The chain of tokens.  Besides the property: every carried pair still works,
\* nobody else holds, presents or carries it, and the server knows every token
\* the client ever showed it.
ChainInv ==
    /\ HeldTokenWorks
    /\ \A t \in Tasks : Carrying(t) =>
          carried[t] \in valid /\ carried[t] # refresh_token /\ carried[t] \notin orphans
    /\ \A t, u \in Tasks :
          Carrying(t) /\ Carrying(u) /\ carried[t] = carried[u] => t = u
    /\ refresh_token <= issued
    /\ \A p \in valid \cup orphans : p <= issued

\* The delivery queue holds increasing rotations not yet offered, and ends
\* with the newest one whenever that is still to offer.
QueueInv ==
    /\ offered <= rotation_seq
    /\ \A i \in DOMAIN pending :
          offered < pending[i].seq /\ pending[i].seq <= rotation_seq
    /\ \A i, j \in DOMAIN pending : i < j => pending[i].seq < pending[j].seq
    /\ Notify /\ offered < rotation_seq =>
          pending # <<>> /\ pending[Len(pending)].seq = rotation_seq

\* The deliveries.  Besides the property and the queue: the queue outlives its
\* drain only if the drain was cancelled, and the callback's task is inside a
\* call only while its drain delivers.
DeliveryInv ==
    /\ DeliveryWaitIsSound
    /\ QueueInv
    /\ Notify /\ ~DrainRuns /\ ~halted => pending = <<>>
    /\ pc[Drainer] \notin Ready => delivery = "delivering"

\* The store's inductive invariant: the lock's, the token chain's and the
\* delivery queue's part together.
StoreInv == LockInv /\ ChainInv /\ DeliveryInv
=============================================================================
