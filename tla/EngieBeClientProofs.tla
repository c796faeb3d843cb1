------------------------- MODULE EngieBeClientProofs -------------------------
(***************************************************************************)
(* The client composed with the token store: what was proved of the store   *)
(* alone holds of the store inside the client.                              *)
(***************************************************************************)
EXTENDS EngieBeClient, TokenLifecycleProofs

\* Each step of the client is a step of the store or leaves it alone.
LEMMA ClientStepIsStoreStep ==
    ASSUME [ClientNext]_clientVars
    PROVE  [Next]_vars
  <1>1. ASSUME NEW t \in Tasks, CallStep(t) PROVE [Next]_vars
    BY <1>1 DEF CallStep, CallFreshens, CallSends, CallResumes, CallRetries, CallRaises,
                CallAnswered, CallBreaksOff, CallRefreshes, CallUnauthorized, Next, TaskStep
  <1>2. ASSUME NEW t \in Tasks, ApiRejects(t) PROVE [Next]_vars
    BY <1>2 DEF ApiRejects
  <1>3. ASSUME NEW t \in Tasks, ConsumerRefreshes(t) \/ LoginAdopts(t) PROVE [Next]_vars
    BY <1>3 DEF ConsumerRefreshes, LoginAdopts, Next, TaskStep
  <1>4. ASSUME NEW t \in Tasks, StoreStep(t) PROVE [Next]_vars
    BY <1>4 DEF StoreStep, Next, TaskStep
  <1>5. CASE ClientDrain \/ ClientCloses
    BY <1>5 DEF ClientDrain, ClientCloses, Next
  <1>6. ASSUME NEW p \in orphans, OrphanGranted(p) PROVE [Next]_vars
    BY <1>6 DEF OrphanGranted, Next
  <1>7. CASE TokenDue
    BY <1>7 DEF TokenDue
  <1>8. ASSUME NEW p, TokenDies(p) PROVE [Next]_vars
    BY <1>8 DEF TokenDies
  <1>9. CASE UNCHANGED clientVars
    BY <1>9 DEF clientVars
  <1>10. QED
    BY <1>1, <1>2, <1>3, <1>4, <1>5, <1>6, <1>7, <1>8, <1>9 DEF ClientNext

\* The client uses the store only through the store's own steps.
THEOREM ClientImplementsStore == ClientSafety => UsesStore
  <1>1. ClientInit => Init
    BY DEF ClientInit
  <1>2. [ClientNext]_clientVars => [Next]_vars
    BY ClientStepIsStoreStep
  <1>3. QED  BY <1>1, <1>2, PTL DEF ClientSafety, UsesStore, Safety

\* A client that never lost an answer of the token endpoint can always
\* refresh, whatever API calls, callbacks and logins run on it.
THEOREM ClientNeverStranded == ClientSafety => []HeldTokenWorks
  BY ClientImplementsStore, NeverStranded, PTL DEF UsesStore

\* Under API calls, retries, logins and close(): token requests never overlap,
\* no answer overwrites a pair it was not derived from, the callback is started
\* with the newest rotation only, once, the newest is not left behind, and no
\* call waits for itself.
THEOREM ClientKeepsStoreSound ==
    ClientSafety =>
        /\ [](ExchangesSerialized /\ TokenInFlightIsHeld)
        /\ [](NothingLeftBehind /\ DeliveryWaitIsSound)
        /\ DeliversInOrder
  BY ClientImplementsStore, Serialized, InFlightIsHeld, NothingIsLeftBehind, NoSelfWait,
     ImplementsFeed, PTL DEF UsesStore

-----------------------------------------------------------------------------
(* Type correctness.                                                       *)

LEMMA ClientTypeInit == ClientInit => ClientTypeOK
  <1> SUFFICES ASSUME ClientInit PROVE ClientTypeOK  OBVIOUS
  <1>1. TypeOK
    BY TypeInit DEF ClientInit
  <1>2. QED  BY <1>1 DEF ClientInit, ClientTypeOK, Kinds, PairOrNone, NoPair

\* The end of a call, and a request sent or refused, keep the types of its locals.
LEMMA SendType ==
    ASSUME ClientTypeOK, NEW t \in Tasks, NEW k \in Kinds, NEW n \in {0, 1},
           Finish(t) \/ Send(t, k, n)
    PROVE  /\ req' \in [Tasks -> {"idle", "freshening", "sent", "unauthorized", "refreshing"}]
           /\ kind' \in [Tasks -> Kinds]
           /\ attempt' \in [Tasks -> {0, 1}]
           /\ bearer' \in [Tasks -> PairOrNone]
           /\ rejected' \in [Tasks -> PairOrNone]
  <1>1. access_token \in PairOrNone /\ NoPair \in PairOrNone /\ "required" \in Kinds
    BY DEF ClientTypeOK, TypeOK, PairOrNone, Kinds
  <1>2. CASE Finish(t)
    BY <1>1, <1>2 DEF Finish, ClientTypeOK
  <1>3. CASE Send(t, k, n)
    BY <1>1, <1>2, <1>3 DEF Send, ClientTypeOK
  <1>4. QED  BY <1>2, <1>3

LEMMA ClientTypeStep ==
    ASSUME ClientTypeOK, [ClientNext]_clientVars
    PROVE  ClientTypeOK'
  <1>1. TypeOK'
    BY ClientStepIsStoreStep, TypeStep DEF ClientTypeOK
  <1> HIDE DEF TypeOK
  <1>2. ASSUME NEW t \in Tasks, CallFreshens(t) PROVE ClientTypeOK'
    BY <1>1, <1>2 DEF CallFreshens, clockVars, ClientTypeOK
  <1>3. ASSUME NEW t \in Tasks, NEW k \in Kinds, CallSends(t, k) PROVE ClientTypeOK'
    BY <1>1, <1>3, SendType DEF CallSends, clockVars, ClientTypeOK
  <1>4. ASSUME NEW t \in Tasks, CallResumes(t) PROVE ClientTypeOK'
    BY <1>1, <1>4, SendType DEF CallResumes, clockVars, ClientTypeOK, Kinds
  <1>5. ASSUME NEW t \in Tasks, CallRetries(t) PROVE ClientTypeOK'
    BY <1>1, <1>5, SendType DEF CallRetries, clockVars, ClientTypeOK
  <1>6. ASSUME NEW t \in Tasks,
               CallRaises(t) \/ CallAnswered(t) \/ CallBreaksOff(t) \/ CallUnauthorized(t)
        PROVE  ClientTypeOK'
    <2>1. Finish(t) /\ UNCHANGED clockVars
      BY <1>6 DEF CallRaises, CallAnswered, CallBreaksOff, CallUnauthorized
    <2>2. "required" \in Kinds /\ 0 \in {0, 1}
      BY DEF Kinds
    <2>3. QED  BY <1>1, <2>1, <2>2, SendType DEF clockVars, ClientTypeOK
  <1>7. ASSUME NEW t \in Tasks, ApiRejects(t) PROVE ClientTypeOK'
    BY <1>1, <1>7 DEF ApiRejects, clockVars, ClientTypeOK
  <1>8. ASSUME NEW t \in Tasks, CallRefreshes(t) PROVE ClientTypeOK'
    BY <1>1, <1>8 DEF CallRefreshes, clockVars, ClientTypeOK
  <1>9. CASE UNCHANGED <<callVars, clockVars>>
    BY <1>1, <1>9 DEF callVars, clockVars, ClientTypeOK
  <1>10. CASE TokenDue
    <2>1. access_token \in Pairs
      BY <1>10 DEF TokenDue, ClientTypeOK, TypeOK, PairOrNone
    <2>2. QED  BY <1>1, <1>10, <2>1 DEF TokenDue, callVars, ClientTypeOK
  <1>11. ASSUME NEW p \in {access_token} \cup {bearer[t] : t \in Tasks}, TokenDies(p)
         PROVE  ClientTypeOK'
    <2>1. p \in Pairs
      BY <1>11 DEF TokenDies, ClientTypeOK, TypeOK, PairOrNone
    <2>2. QED  BY <1>1, <1>11, <2>1 DEF TokenDies, callVars, ClientTypeOK
  <1>12. QED
    BY <1>2, <1>3, <1>4, <1>5, <1>6, <1>7, <1>8, <1>9, <1>10, <1>11
    DEF ClientNext, CallStep, ConsumerRefreshes, LoginAdopts, StoreStep, ClientDrain,
        ClientCloses, OrphanGranted, clientVars, callVars, clockVars

\* Where every call stands, and what it carries, keeps its type, with the store's.
THEOREM ClientTypeCorrect == ClientSafety => []ClientTypeOK
  BY ClientTypeInit, ClientTypeStep, PTL DEF ClientSafety

-----------------------------------------------------------------------------
(* The token of a retry.                                                   *)

\* What is held, carried, or sent was issued before the next pair is.
LEMMA NewPairs ==
    ASSUME TypeOK, LockInv, ChainInv, TokensComeNew, [Next]_vars, UNCHANGED bearer,
           bearer \in [Tasks -> PairOrNone]
    PROVE  TokensComeNew'
  <1> USE DEF TokensComeNew, TypeOK, PairOrNone, Pairs, NoPair, Carrying, LockInv, ChainInv,
              Ready, Waiting
  <1>1. ASSUME NEW t \in Tasks,
               RefreshRefused(t) \/ RefreshNow(t) \/ RefreshQueues(t) \/ RefreshExchanges(t)
        PROVE  TokensComeNew'
    BY <1>1 DEF RefreshRefused, RefreshNow, RefreshQueues, RefreshExchanges, SendExchange,
                store, server
  <1>2. ASSUME NEW t \in Tasks,
               \/ RefreshReuses(t) \/ RefreshFindsClosed(t) \/ ExchangeDenied(t)
               \/ CancelWaiting(t)
        PROVE  TokensComeNew'
    BY <1>2 DEF RefreshReuses, RefreshFindsClosed, ExchangeDenied, CancelWaiting, ForgetLocals,
                store, server
  <1>3. ASSUME NEW t \in Tasks, ExchangeAbandoned(t) PROVE TokensComeNew'
    BY <1>3 DEF ExchangeAbandoned, ForgetLocals, store
  <1>4. ASSUME NEW t \in Tasks, ExchangeSucceeds(t) \/ AdoptRecords(t) PROVE TokensComeNew'
    <2>1. Carrying(t) /\ access_token' = carried[t] /\ UNCHANGED issued
      BY <1>4 DEF ExchangeSucceeds, AdoptRecords, RecordRotation, server
    <2>2. ~Carrying(t)' /\ \A u \in Tasks \ {t} : (Carrying(u) <=> Carrying(u)') /\ carried'[u] = carried[u]
      BY <1>4 DEF ExchangeSucceeds, AdoptRecords, DeliverPending, ForgetLocals
    <2>3. carried[t] <= issued
      BY <2>1
    <2>4. \A u \in Tasks \ {t} : Carrying(u) => carried[u] # carried[t]
      BY <2>1
    <2>5. access_token' <= issued' /\ \A u \in Tasks : bearer'[u] <= issued'
      BY <2>1, <2>3
    <2>6. ASSUME NEW u \in Tasks, Carrying(u)'
          PROVE  carried'[u] # access_token' /\ \A v \in Tasks : carried'[u] # bearer'[v]
      <3>1. u # t /\ Carrying(u) /\ carried'[u] = carried[u]
        BY <2>2, <2>6
      <3>2. QED  BY <2>1, <2>4, <3>1
    <2>7. QED  BY <2>5, <2>6
  <1>5. ASSUME NEW t \in Tasks, AdoptNow(t) PROVE TokensComeNew'
    <2>1. issued' = issued + 1 /\ access_token' = issued + 1 /\ carried' = carried
      BY <1>5 DEF AdoptNow, LoginIssues, RecordRotation
    <2>2. \A u \in Tasks : Carrying(u)' => Carrying(u)
      BY <1>5 DEF AdoptNow, DeliverPending
    <2>3. \A u \in Tasks : Carrying(u) => carried[u] <= issued
      OBVIOUS
    <2>4. access_token' <= issued' /\ \A u \in Tasks : bearer'[u] <= issued'
      BY <2>1
    <2>5. ASSUME NEW u \in Tasks, Carrying(u)'
          PROVE  carried'[u] # access_token' /\ \A v \in Tasks : carried'[u] # bearer'[v]
      <3>1. Carrying(u) /\ carried'[u] = carried[u] /\ carried[u] <= issued
        BY <2>1, <2>2, <2>3, <2>5
      <3>2. QED  BY <2>1, <3>1
    <2>6. QED  BY <2>4, <2>5
  <1>6. ASSUME NEW t \in Tasks, AdoptQueues(t) PROVE TokensComeNew'
    BY <1>6 DEF AdoptQueues, LoginIssues, store
  <1>7. ASSUME NEW t \in Tasks, CancelAwaiting(t) \/ Deny(t) PROVE TokensComeNew'
    BY <1>7 DEF CancelAwaiting, Deny, store, server
  <1>8. ASSUME NEW t \in Tasks, Grant(t) PROVE TokensComeNew'
    BY <1>8 DEF Grant, store
  <1>9. CASE DrainPending
    <2>1. \A u \in Tasks : Carrying(u)' => Carrying(u)
      BY <1>9 DEF DrainPending, DeliverNext, DrainEnds, WakeAwaiters
    <2>2. QED  BY <1>9, <2>1 DEF DrainPending, server
  <1>10. CASE DrainCancelled
    BY <1>10 DEF DrainCancelled, WakeAwaiters, store, server
  <1>11. CASE Close \/ UNCHANGED vars
    BY <1>11 DEF Close, vars, store, locals, server
  <1>12. ASSUME NEW p \in orphans, GrantOrphan(p) PROVE TokensComeNew'
    BY <1>12 DEF GrantOrphan, store, locals
  <1>13. QED
    BY <1>1, <1>2, <1>3, <1>4, <1>5, <1>6, <1>7, <1>8, <1>9, <1>10, <1>11, <1>12
    DEF Next, TaskStep, Refresh, Adopt, Acquire, EndExchange, Cancel, Callers

\* A call that waits for its refresh to end is brought another token by every
\* step the store can take meanwhile.
LEMMA RefreshGoesOn ==
    ASSUME TypeOK, LockInv, ChainInv, TokensComeNew, RefreshBringsAnother,
           UNCHANGED <<req, bearer>>, bearer \in [Tasks -> PairOrNone],
           \/ \E t \in Tasks : Acquire(t) \/ EndExchange(t) \/ Cancel(t) \/ Grant(t) \/ Deny(t)
           \/ \E t \in Tasks : req[t] = "idle" /\ (Refresh(t) \/ Adopt(t))
           \/ DrainPending \/ DrainCancelled \/ Close
           \/ \E p \in orphans : GrantOrphan(p)
           \/ UNCHANGED vars
    PROVE  RefreshBringsAnother'
  <1> USE DEF RefreshBringsAnother, TypeOK, PairOrNone, Pairs, NoPair, Ready, Waiting
  <1>1. ASSUME NEW t \in Tasks,
               RefreshReuses(t) \/ RefreshFindsClosed(t) \/ RefreshExchanges(t)
        PROVE  RefreshBringsAnother'
    BY <1>1 DEF RefreshReuses, RefreshFindsClosed, RefreshExchanges, RotatedMeanwhile,
                SendExchange, ForgetLocals, store
  <1>2. ASSUME NEW t \in Tasks, ExchangeSucceeds(t) \/ AdoptRecords(t)
        PROVE  RefreshBringsAnother'
    <2>1. Carrying(t) /\ access_token' = carried[t]
      BY <1>2 DEF ExchangeSucceeds, AdoptRecords, RecordRotation, Carrying
    <2>2. access_token' # NoPair /\ \A u \in Tasks : access_token' # bearer'[u]
      BY <2>1 DEF LockInv, TokensComeNew
    <2>3. QED  BY <2>2
  <1>3. ASSUME NEW t \in Tasks,
               ExchangeDenied(t) \/ ExchangeAbandoned(t) \/ CancelWaiting(t) \/ CancelAwaiting(t)
        PROVE  RefreshBringsAnother'
    BY <1>3 DEF ExchangeDenied, ExchangeAbandoned, CancelWaiting, CancelAwaiting, ForgetLocals,
                store
  <1>4. ASSUME NEW t \in Tasks, Grant(t) \/ Deny(t) PROVE RefreshBringsAnother'
    BY <1>4 DEF Grant, Deny, store
  <1>5. ASSUME NEW t \in Tasks, req[t] = "idle", Refresh(t) PROVE RefreshBringsAnother'
    BY <1>5 DEF Refresh, RefreshRefused, RefreshNow, RefreshQueues, SendExchange, store
  <1>6. ASSUME NEW t \in Tasks, req[t] = "idle", AdoptNow(t) PROVE RefreshBringsAnother'
    <2>1. access_token' = issued + 1
      BY <1>6 DEF AdoptNow, RecordRotation
    <2>2. access_token' # NoPair /\ \A u \in Tasks : access_token' # bearer'[u]
      BY <2>1 DEF TokensComeNew
    <2>3. QED  BY <2>2
  <1>7. ASSUME NEW t \in Tasks, req[t] = "idle", AdoptQueues(t) PROVE RefreshBringsAnother'
    BY <1>7 DEF AdoptQueues, store
  <1>8. CASE DrainPending
    <2>1. UNCHANGED <<access_token, refresh_token, entry>>
      BY <1>8 DEF DrainPending
    <2>2. \A t \in Tasks :
             /\ pc'[t] \in {"idle", "awaiting"} => pc[t] \in {"idle", "awaiting"}
             /\ pc'[t] = "refreshWait" => pc[t] = "refreshWait"
      BY <1>8 DEF DrainPending, DeliverNext, DrainEnds, WakeAwaiters
    <2>3. QED  BY <2>1, <2>2
  <1>9. CASE DrainCancelled
    BY <1>9 DEF DrainCancelled, WakeAwaiters, store
  <1>10. CASE Close \/ UNCHANGED vars
    BY <1>10 DEF Close, vars, store, locals
  <1>11. ASSUME NEW p \in orphans, GrantOrphan(p) PROVE RefreshBringsAnother'
    BY <1>11 DEF GrantOrphan, store, locals
  <1>12. QED
    BY <1>1, <1>2, <1>3, <1>4, <1>5, <1>6, <1>7, <1>8, <1>9, <1>10, <1>11
    DEF Refresh, Adopt, Acquire, EndExchange, Cancel

LEMMA CallInit == ClientInit => CallInv
  <1> SUFFICES ASSUME ClientInit PROVE CallInv  OBVIOUS
  <1>1. CredentialsFitEndpoint /\ RetryCarriesNewToken /\ RefreshBringsAnother
    BY DEF ClientInit, CredentialsFitEndpoint, RetryCarriesNewToken, RefreshBringsAnother
  <1>2. TokensComeNew
    BY DEF ClientInit, Init, TokensComeNew, Carrying, NoPair
  <1>3. QED  BY <1>1, <1>2 DEF CallInv

\* A call may end at any time, and go on with the token held if that is none of
\* those it must not send.
LEMMA SendKeeps ==
    ASSUME ClientTypeOK, LockInv, CallInv, UNCHANGED vars,
           NEW t \in Tasks, NEW k \in Kinds, NEW n \in {0, 1},
           n = 1 => access_token # NoPair /\ access_token # bearer[t],
           Finish(t) \/ Send(t, k, n)
    PROVE  CallInv'
  <1> USE DEF CallInv, CredentialsFitEndpoint, RetryCarriesNewToken, TokensComeNew,
              RefreshBringsAnother, Carrying
  <1>1. /\ UNCHANGED <<access_token, refresh_token, issued, pc, entry, wire, carried>>
        /\ access_token \in PairOrNone /\ issued \in Pairs
    BY DEF vars, store, locals, server, ClientTypeOK, TypeOK
  <1>2. /\ req \in [Tasks -> {"idle", "freshening", "sent", "unauthorized", "refreshing"}]
        /\ kind \in [Tasks -> Kinds] /\ attempt \in [Tasks -> {0, 1}]
        /\ bearer \in [Tasks -> PairOrNone] /\ rejected \in [Tasks -> PairOrNone]
    BY DEF ClientTypeOK
  <1>3. CASE Finish(t)
    <2>1. /\ req' = [req EXCEPT ![t] = "idle"] /\ kind' = [kind EXCEPT ![t] = "required"]
          /\ attempt' = [attempt EXCEPT ![t] = 0] /\ bearer' = [bearer EXCEPT ![t] = NoPair]
          /\ rejected' = [rejected EXCEPT ![t] = NoPair]
      BY <1>3 DEF Finish
    <2>2. CredentialsFitEndpoint' /\ RetryCarriesNewToken' /\ RefreshBringsAnother'
      BY <1>1, <1>2, <2>1
    <2>3. NoPair <= issued /\ \A u \in Tasks : Carrying(u) => carried[u] # NoPair
      BY <1>1 DEF NoPair, Pairs, LockInv
    <2>4. TokensComeNew'
      BY <1>1, <1>2, <2>1, <2>3
    <2>5. QED  BY <2>2, <2>4
  <1>4. CASE Send(t, k, n) /\ ~Finish(t)
    <2>1. /\ HeadersCanBeBuilt(k)
          /\ req' = [req EXCEPT ![t] = "sent"] /\ kind' = [kind EXCEPT ![t] = k]
          /\ attempt' = [attempt EXCEPT ![t] = n]
          /\ bearer' = [bearer EXCEPT ![t] = access_token]
          /\ rejected' = [rejected EXCEPT ![t] = bearer[t]]
      BY <1>4 DEF Send
    <2>2. CredentialsFitEndpoint'
      BY <1>1, <1>2, <2>1 DEF HeadersCanBeBuilt, Kinds
    <2>3. RetryCarriesNewToken'
      BY <1>1, <1>2, <2>1
    <2>4. TokensComeNew' /\ RefreshBringsAnother'
      BY <1>1, <1>2, <2>1
    <2>5. QED  BY <2>2, <2>3, <2>4
  <1>5. QED  BY <1>3, <1>4

LEMMA CallStepKeeps ==
    ASSUME ClientTypeOK, LockInv, ChainInv, CallInv, [ClientNext]_clientVars
    PROVE  CallInv'
  <1> USE DEF CallInv
  <1>1. TypeOK /\ bearer \in [Tasks -> PairOrNone]
    BY DEF ClientTypeOK
  <1>2. [Next]_vars
    BY ClientStepIsStoreStep
  <1>3. ASSUME UNCHANGED callVars,
               \/ \E t \in Tasks : Acquire(t) \/ EndExchange(t) \/ Cancel(t) \/ Grant(t) \/ Deny(t)
               \/ \E t \in Tasks : req[t] = "idle" /\ (Refresh(t) \/ Adopt(t))
               \/ DrainPending \/ DrainCancelled \/ Close
               \/ \E p \in orphans : GrantOrphan(p)
               \/ UNCHANGED vars
        PROVE  CallInv'
    <2>1. TokensComeNew' /\ RefreshBringsAnother'
      BY <1>1, <1>2, <1>3, NewPairs, RefreshGoesOn DEF callVars
    <2>2. CredentialsFitEndpoint' /\ RetryCarriesNewToken'
      BY <1>3 DEF callVars, CredentialsFitEndpoint, RetryCarriesNewToken
    <2>3. QED  BY <2>1, <2>2
  <1>4. ASSUME NEW t \in Tasks, CallFreshens(t) \/ CallRefreshes(t) PROVE CallInv'
    <2>1. /\ Refresh(t) /\ UNCHANGED <<kind, attempt, bearer, rejected>>
          /\ \/ req' = [req EXCEPT ![t] = "freshening"]
             \/ req' = [req EXCEPT ![t] = "refreshing"] /\ bearer[t] # NoPair
      BY <1>4 DEF CallFreshens, CallRefreshes
    <2>2. TokensComeNew'
      BY <1>1, <1>2, <2>1, NewPairs
    <2>3. CredentialsFitEndpoint' /\ RetryCarriesNewToken'
      BY <2>1 DEF CredentialsFitEndpoint, RetryCarriesNewToken, ClientTypeOK
    <2>4. /\ UNCHANGED <<access_token, refresh_token>>
          /\ \/ pc' = [pc EXCEPT ![t] = "raised"] /\ UNCHANGED entry
             \/ pc' = [pc EXCEPT ![t] = "exchanging"] /\ entry' = [entry EXCEPT ![t] = refresh_token]
             \/ pc' = [pc EXCEPT ![t] = "refreshWait"] /\ entry' = [entry EXCEPT ![t] = refresh_token]
      BY <2>1 DEF Refresh, RefreshRefused, RefreshNow, RefreshQueues, SendExchange, store
    <2>5. RefreshBringsAnother'
      BY <2>1, <2>4 DEF RefreshBringsAnother, ClientTypeOK, TypeOK
    <2>6. QED  BY <2>2, <2>3, <2>5
  <1>5. ASSUME NEW t \in Tasks, NEW k \in Kinds, CallSends(t, k) PROVE CallInv'
    BY <1>5, SendKeeps DEF CallSends
  <1>6. ASSUME NEW t \in Tasks, CallResumes(t) PROVE CallInv'
    BY <1>6, SendKeeps DEF CallResumes, Kinds
  <1>7. ASSUME NEW t \in Tasks, CallRetries(t) PROVE CallInv'
    <2>1. access_token # NoPair /\ access_token # bearer[t] /\ kind[t] \in Kinds
      BY <1>7 DEF CallRetries, RefreshBringsAnother, ClientTypeOK
    <2>2. QED  BY <1>7, <2>1, SendKeeps DEF CallRetries
  <1>8. ASSUME NEW t \in Tasks,
               CallRaises(t) \/ CallAnswered(t) \/ CallBreaksOff(t) \/ CallUnauthorized(t)
        PROVE  CallInv'
    <2>1. Finish(t) /\ UNCHANGED vars /\ "required" \in Kinds
      BY <1>8 DEF CallRaises, CallAnswered, CallBreaksOff, CallUnauthorized, Kinds
    <2>2. QED  BY <2>1, SendKeeps
  <1>9. ASSUME NEW t \in Tasks, ApiRejects(t) PROVE CallInv'
    <2>1. TokensComeNew'
      BY <1>1, <1>2, <1>9, NewPairs DEF ApiRejects
    <2>2. /\ CredentialsFitEndpoint' /\ RetryCarriesNewToken' /\ RefreshBringsAnother'
      BY <1>9 DEF ApiRejects, vars, store, locals, CredentialsFitEndpoint,
                  RetryCarriesNewToken, RefreshBringsAnother, ClientTypeOK
    <2>3. QED  BY <2>1, <2>2
  <1>10. CASE TokenDue
    BY <1>3, <1>10 DEF TokenDue
  <1>11. ASSUME NEW p, TokenDies(p) PROVE CallInv'
    BY <1>3, <1>11 DEF TokenDies
  <1>12. ASSUME NEW t \in Tasks, ConsumerRefreshes(t) \/ LoginAdopts(t) \/ StoreStep(t)
         PROVE  CallInv'
    BY <1>3, <1>12 DEF ConsumerRefreshes, LoginAdopts, StoreStep
  <1>13. CASE ClientDrain \/ ClientCloses \/ \E p \in orphans : OrphanGranted(p)
    BY <1>3, <1>13 DEF ClientDrain, ClientCloses, OrphanGranted
  <1>14. CASE UNCHANGED clientVars
    BY <1>3, <1>14 DEF clientVars
  <1>15. QED
    BY <1>4, <1>5, <1>6, <1>7, <1>8, <1>9, <1>10, <1>11, <1>12, <1>13, <1>14
    DEF ClientNext, CallStep

LEMMA CallInvariant == ClientSafety => []CallInv
  <1>1. ClientSafety => []StoreInv
    BY ClientImplementsStore, StoreInvariant, PTL DEF UsesStore
  <1>2. StoreInv => LockInv /\ ChainInv
    BY DEF StoreInv
  <1>3. QED  BY <1>1, <1>2, CallInit, CallStepKeeps, ClientTypeCorrect, PTL DEF ClientSafety

\* The one retry after a 401 carries a token the server has not just refused,
\* whoever refreshed, logged in or was cancelled while the call waited.
THEOREM RetriesWithAnother == ClientSafety => []RetryCarriesNewToken
  <1>1. CallInv => RetryCarriesNewToken
    BY DEF CallInv
  <1>2. QED  BY <1>1, CallInvariant, PTL

\* No call that needs a token is sent without one, however long ago it was decided
\* to send it, and none without a token refreshes.
THEOREM CredentialsFit == ClientSafety => []CredentialsFitEndpoint
  <1>1. CallInv => CredentialsFitEndpoint
    BY DEF CallInv
  <1>2. QED  BY <1>1, CallInvariant, PTL

-----------------------------------------------------------------------------
(* The closed client.                                                      *)

\* The store sends no token request for a client that is closed.
LEMMA StoreSilent ==
    ASSUME TypeOK, [Next]_vars, closed, NEW u \in Tasks, pc'[u] = "exchanging"
    PROVE  pc[u] = "exchanging"
  <1> USE DEF TypeOK, Ready, Waiting
  <1>1. ASSUME NEW t \in Tasks, Refresh(t) PROVE pc[u] = "exchanging"
    BY <1>1 DEF Refresh, RefreshRefused, RefreshNow, RefreshQueues
  <1>2. ASSUME NEW t \in Tasks, Adopt(t) PROVE pc[u] = "exchanging"
    BY <1>2 DEF Adopt, AdoptNow, AdoptQueues, DeliverPending
  <1>3. ASSUME NEW t \in Tasks, Acquire(t) \/ EndExchange(t) \/ Cancel(t) PROVE pc[u] = "exchanging"
    BY <1>3 DEF Acquire, RefreshReuses, RefreshFindsClosed, RefreshExchanges, AdoptRecords,
                EndExchange, ExchangeSucceeds, ExchangeDenied, ExchangeAbandoned, Cancel,
                CancelWaiting, CancelAwaiting, DeliverPending
  <1>4. ASSUME NEW t \in Tasks, Grant(t) \/ Deny(t) PROVE pc[u] = "exchanging"
    BY <1>4 DEF Grant, Deny
  <1>5. CASE DrainPending \/ DrainCancelled
    BY <1>5 DEF DrainPending, DeliverNext, DrainEnds, DrainCancelled, WakeAwaiters
  <1>6. CASE Close \/ (\E p \in orphans : GrantOrphan(p)) \/ UNCHANGED vars
    BY <1>6 DEF Close, GrantOrphan, vars, locals
  <1>7. QED  BY <1>1, <1>2, <1>3, <1>4, <1>5, <1>6 DEF Next, TaskStep

\* No step of a call makes a request of it once the client is closed.
LEMMA CallSilent ==
    ASSUME ClientTypeOK, [ClientNext]_clientVars, closed, NEW u \in Tasks, req'[u] = "sent"
    PROVE  req[u] = "sent"
  <1> USE DEF ClientTypeOK
  <1>1. ASSUME NEW t \in Tasks, req' = [req EXCEPT ![t] = "idle"] PROVE req[u] = "sent"
    BY <1>1
  <1>2. ASSUME NEW t \in Tasks, NEW k \in Kinds, NEW n \in {0, 1}, Send(t, k, n)
        PROVE  req[u] = "sent"
    BY <1>1, <1>2 DEF Send, Finish
  <1>3. ASSUME NEW t \in Tasks, CallFreshens(t) \/ CallRefreshes(t) \/ ApiRejects(t)
        PROVE  req[u] = "sent"
    BY <1>3 DEF CallFreshens, CallRefreshes, ApiRejects
  <1>4. ASSUME NEW t \in Tasks, NEW k \in Kinds, CallSends(t, k) PROVE req[u] = "sent"
    BY <1>2, <1>4 DEF CallSends
  <1>5. ASSUME NEW t \in Tasks, CallResumes(t) \/ CallRetries(t) PROVE req[u] = "sent"
    <2>1. kind[t] \in Kinds /\ "required" \in Kinds
      BY DEF Kinds
    <2>2. QED  BY <1>2, <1>5, <2>1 DEF CallResumes, CallRetries
  <1>6. ASSUME NEW t \in Tasks,
               CallRaises(t) \/ CallAnswered(t) \/ CallBreaksOff(t) \/ CallUnauthorized(t)
        PROVE  req[u] = "sent"
    BY <1>1, <1>6 DEF CallRaises, CallAnswered, CallBreaksOff, CallUnauthorized, Finish
  <1>7. CASE UNCHANGED req
    BY <1>7
  <1>8. QED
    BY <1>3, <1>4, <1>5, <1>6, <1>7
    DEF ClientNext, CallStep, ConsumerRefreshes, LoginAdopts, StoreStep, ClientDrain, ClientCloses,
        OrphanGranted, TokenDue, TokenDies, clientVars, callVars

\* A closed client sends nothing more: no API request and no token request, for
\* any number of calls under way when it is closed, and any that follow.
THEOREM ClosedIsSilent == ClientSafety => SilentAfterClose
  <1>1. ASSUME ClientTypeOK, [ClientNext]_clientVars
        PROVE  [closed => \A t \in Tasks :
                   /\ req'[t] = "sent" => req[t] = "sent"
                   /\ pc'[t] = "exchanging" => pc[t] = "exchanging"]_clientVars
    BY <1>1, ClientStepIsStoreStep, StoreSilent, CallSilent DEF ClientTypeOK
  <1>2. QED  BY <1>1, ClientTypeCorrect, PTL DEF ClientSafety, SilentAfterClose

=============================================================================
