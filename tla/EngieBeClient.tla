---------------------------- MODULE EngieBeClient ----------------------------
(***************************************************************************)
(* API calls, client.py: the proactive refresh, the request, the 401 that   *)
(* leads to a refresh and one retry, and close().  Every getter of the       *)
(* client is _call(), a thin wrapper of _request_json_authenticated(), so a  *)
(* call is known here by one thing only: whether its endpoint takes an       *)
(* optional token.                                                           *)
(*                                                                         *)
(* The token store is TokenLifecycle, step for step: a client step either    *)
(* is one of its steps or leaves it alone.  After a refresh has returned,    *)
(* the model lets other tasks run before the call goes on; the program does  *)
(* so only when the refresh waited for a delivery.                           *)
(***************************************************************************)
EXTENDS TokenLifecycle

CONSTANT MaxAged    \* bound: how many tokens come due, and how many die

ASSUME AgedAssumption == MaxAged \in Nat

VARIABLES
    req,        \* where the task's API call stands
    kind,       \* "required" or "optional": does the endpoint need a token
    attempt,    \* 0, then 1 for the retry
    bearer,     \* pair whose access token the request carries, NoPair if none
    rejected,   \* history: the token of the first attempt, when it got a 401
    due,        \* access tokens within 30 s of an expiry the client can read
    dead        \* access tokens the API no longer accepts

callVars == <<req, kind, attempt, bearer, rejected>>
clockVars == <<due, dead>>
clientVars == <<vars, callVars, clockVars>>

Kinds == {"required", "optional"}

ClientTypeOK ==
    /\ TypeOK
    /\ req \in [Tasks -> {"idle", "freshening", "sent", "unauthorized", "refreshing"}]
    /\ kind \in [Tasks -> Kinds]
    /\ attempt \in [Tasks -> {0, 1}]
    /\ bearer \in [Tasks -> PairOrNone]
    /\ rejected \in [Tasks -> PairOrNone]
    /\ due \subseteq Pairs
    /\ dead \subseteq Pairs

ClientInit ==
    /\ Init
    /\ req = [t \in Tasks |-> "idle"]
    /\ kind = [t \in Tasks |-> "required"]
    /\ attempt = [t \in Tasks |-> 0]
    /\ bearer = [t \in Tasks |-> NoPair]
    /\ rejected = [t \in Tasks |-> NoPair]
    /\ due = {}
    /\ dead = {}

-----------------------------------------------------------------------------
(* The pieces of _request_json_authenticated().                            *)

\* ensure_fresh() decides to refresh.
NeedsRefresh ==
    /\ refresh_token # NoPair
    /\ access_token = NoPair \/ access_token \in due

\* The call is over, with a result or an error.
Finish(t) ==
    /\ req' = [req EXCEPT ![t] = "idle"]
    /\ kind' = [kind EXCEPT ![t] = "required"]
    /\ attempt' = [attempt EXCEPT ![t] = 0]
    /\ bearer' = [bearer EXCEPT ![t] = NoPair]
    /\ rejected' = [rejected EXCEPT ![t] = NoPair]

\* Mutant of HeadersCanBeBuilt: a missing token goes unnoticed.
HeadersUnchecked(k) == TRUE

\* _build_headers() has a token to send, or the endpoint needs none.
HeadersCanBeBuilt(k) == k = "optional" \/ access_token # NoPair

\* Mutants of Send: the headers are built once, before the loop; the client is
\* not asked whether it is closed.
SendsFirstHeaders(t, k, n) ==
    IF HeadersCanBeBuilt(k) /\ ~closed
    THEN /\ req' = [req EXCEPT ![t] = "sent"]
         /\ kind' = [kind EXCEPT ![t] = k]
         /\ attempt' = [attempt EXCEPT ![t] = n]
         /\ bearer' = IF n = 0 THEN [bearer EXCEPT ![t] = access_token] ELSE bearer
         /\ rejected' = [rejected EXCEPT ![t] = bearer[t]]
    ELSE Finish(t)
SendsWhenClosed(t, k, n) ==
    IF HeadersCanBeBuilt(k)
    THEN /\ req' = [req EXCEPT ![t] = "sent"]
         /\ kind' = [kind EXCEPT ![t] = k]
         /\ attempt' = [attempt EXCEPT ![t] = n]
         /\ bearer' = [bearer EXCEPT ![t] = access_token]
         /\ rejected' = [rejected EXCEPT ![t] = bearer[t]]
    ELSE Finish(t)

\* One turn of the attempt loop up to its await: headers with the token held
\* now, a session unless the client is closed, the request.
Send(t, k, n) ==
    IF HeadersCanBeBuilt(k) /\ ~closed
    THEN /\ req' = [req EXCEPT ![t] = "sent"]
         /\ kind' = [kind EXCEPT ![t] = k]
         /\ attempt' = [attempt EXCEPT ![t] = n]
         /\ bearer' = [bearer EXCEPT ![t] = access_token]
         /\ rejected' = [rejected EXCEPT ![t] = bearer[t]]
    ELSE Finish(t)

-----------------------------------------------------------------------------
\* A call that needs a token finds it missing or about to expire.
CallFreshens(t) ==
    /\ req[t] = "idle" /\ ~closed
    /\ NeedsRefresh
    /\ Refresh(t)
    /\ req' = [req EXCEPT ![t] = "freshening"]
    /\ UNCHANGED <<kind, attempt, bearer, rejected, clockVars>>

\* A call that needs no refresh sends its request at once.
CallSends(t, k) ==
    /\ req[t] = "idle" /\ ~closed
    /\ MayCall(t)
    /\ k = "required" => ~NeedsRefresh
    /\ Send(t, k, 0)
    /\ UNCHANGED <<vars, clockVars>>

\* The proactive refresh has returned.
CallResumes(t) ==
    /\ req[t] = "freshening"
    /\ pc[t] = "idle"
    /\ Send(t, "required", 0)
    /\ UNCHANGED <<vars, clockVars>>

\* Mutant of CallRetries: the refresh counts as an attempt.
CountsTheRefresh(t) ==
    /\ req[t] = "refreshing" /\ pc[t] = "idle"
    /\ Send(t, kind[t], 2)
    /\ UNCHANGED <<vars, clockVars>>

\* The refresh after a 401 has returned.
CallRetries(t) ==
    /\ req[t] = "refreshing"
    /\ pc[t] = "idle"
    /\ Send(t, kind[t], 1)
    /\ UNCHANGED <<vars, clockVars>>

\* Mutant of CallRaises: a refresh that fails after a 401 is tried again.
TriesRefreshAgain(t) ==
    /\ req[t] = "refreshing" /\ pc[t] = "raised"
    /\ req' = [req EXCEPT ![t] = "unauthorized"]
    /\ UNCHANGED <<vars, kind, attempt, bearer, rejected, clockVars>>

\* Either refresh has raised: the error is the call's.
CallRaises(t) ==
    /\ req[t] \in {"freshening", "refreshing"}
    /\ pc[t] = "raised"
    /\ Finish(t)
    /\ UNCHANGED <<vars, clockVars>>

\* A success, or an error other than a 401.
CallAnswered(t) ==
    /\ req[t] = "sent"
    /\ bearer[t] \notin dead
    /\ Finish(t)
    /\ UNCHANGED <<vars, clockVars>>

\* A timeout, a connection error, or the cancellation of the calling task,
\* before the answer is read.
CallBreaksOff(t) ==
    /\ req[t] \in {"sent", "unauthorized"}
    /\ Finish(t)
    /\ UNCHANGED <<vars, clockVars>>

\* The API answers 401; the answer travels.  A request without a token may
\* get one too.
ApiRejects(t) ==
    /\ req[t] = "sent"
    /\ bearer[t] \in dead \cup {NoPair}
    /\ req' = [req EXCEPT ![t] = "unauthorized"]
    /\ UNCHANGED <<vars, kind, attempt, bearer, rejected, clockVars>>

\* The 401 is read by the first attempt of a call that sent a token.
CallRefreshes(t) ==
    /\ req[t] = "unauthorized"
    /\ attempt[t] = 0 /\ bearer[t] # NoPair
    /\ Refresh(t)
    /\ req' = [req EXCEPT ![t] = "refreshing"]
    /\ UNCHANGED <<kind, attempt, bearer, rejected, clockVars>>

\* Mutant of CallUnauthorized: the client forgets its tokens.
UnauthorizedForgetsTokens(t) ==
    /\ req[t] = "unauthorized"
    /\ attempt[t] = 1 \/ bearer[t] = NoPair
    /\ Finish(t)
    /\ access_token' = NoPair /\ refresh_token' = NoPair
    /\ UNCHANGED <<rotation_seq, pending, lockVars, feed, locals, server, closed, clockVars>>

\* The 401 is final: it was the retry, or no token was sent.
CallUnauthorized(t) ==
    /\ req[t] = "unauthorized"
    /\ attempt[t] = 1 \/ bearer[t] = NoPair
    /\ Finish(t)
    /\ UNCHANGED <<vars, clockVars>>

-----------------------------------------------------------------------------
(* The other users of the store, between API calls of their task.          *)

ConsumerRefreshes(t) ==
    /\ req[t] = "idle"
    /\ Refresh(t)
    /\ UNCHANGED <<callVars, clockVars>>

LoginAdopts(t) ==
    /\ t \in Callers /\ req[t] = "idle"
    /\ Adopt(t)
    /\ UNCHANGED <<callVars, clockVars>>

\* What goes on inside a call of the store, and at the token endpoint.
StoreStep(t) ==
    /\ Acquire(t) \/ EndExchange(t) \/ Cancel(t) \/ Grant(t) \/ Deny(t)
    /\ UNCHANGED <<callVars, clockVars>>

\* The drain goes on when the callback, and the calls it makes, have ended.
ClientDrain ==
    /\ req[Drainer] = "idle"
    /\ DrainPending \/ DrainCancelled
    /\ UNCHANGED <<callVars, clockVars>>

ClientCloses == Close /\ UNCHANGED <<callVars, clockVars>>

OrphanGranted(p) == GrantOrphan(p) /\ UNCHANGED <<callVars, clockVars>>

\* Time passes: the client's clock reaches the refresh margin of the token
\* held, or the API stops accepting a token (expiry, or revocation before it).
TokenDue ==
    /\ access_token # NoPair
    /\ access_token \notin due /\ Cardinality(due) < MaxAged
    /\ due' = due \cup {access_token}
    /\ UNCHANGED <<vars, callVars, dead>>

TokenDies(p) ==
    /\ p # NoPair /\ p \notin dead /\ Cardinality(dead) < MaxAged
    /\ dead' = dead \cup {p}
    /\ UNCHANGED <<vars, callVars, due>>

-----------------------------------------------------------------------------
CallStep(t) ==
    \/ CallFreshens(t) \/ \E k \in Kinds : CallSends(t, k)
    \/ CallResumes(t) \/ CallRetries(t) \/ CallRaises(t)
    \/ CallAnswered(t) \/ CallBreaksOff(t)
    \/ CallRefreshes(t) \/ CallUnauthorized(t)

ClientNext ==
    \/ \E t \in Tasks :
          CallStep(t) \/ ApiRejects(t) \/ ConsumerRefreshes(t) \/ LoginAdopts(t) \/ StoreStep(t)
    \/ ClientDrain \/ ClientCloses
    \/ \E p \in orphans : OrphanGranted(p)
    \/ TokenDue
    \/ \E p \in {access_token} \cup {bearer[t] : t \in Tasks} : TokenDies(p)

\* The steps of a call that the event loop or a timeout is bound to take.
CallProceeds(t) ==
    \/ CallResumes(t) \/ CallRetries(t) \/ CallRaises(t)
    \/ CallAnswered(t) \/ CallBreaksOff(t)
    \/ CallRefreshes(t) \/ CallUnauthorized(t)

\* As in TokenLifecycle; API requests run under the same total timeout.
ClientFairness ==
    \A t \in Tasks :
        /\ WF_clientVars(CallProceeds(t))
        /\ WF_clientVars(Acquire(t) /\ StoreStep(t))
        /\ WF_clientVars(EndExchange(t) /\ StoreStep(t))
        /\ SF_clientVars(DrainPending /\ ClientDrain)

ClientSafety == ClientInit /\ [][ClientNext]_clientVars
ClientSpec == ClientSafety /\ ClientFairness

-----------------------------------------------------------------------------
(* Properties.                                                             *)

\* A retry never repeats the token that was refused: whatever happened while
\* the call waited for its refresh, the second request carries another one.
RetryCarriesNewToken ==
    \A t \in Tasks :
        req[t] \in {"sent", "unauthorized"} /\ attempt[t] = 1 =>
            bearer[t] # NoPair /\ bearer[t] # rejected[t]

\* A call to an endpoint that needs a token is never sent without one, and a
\* call that was sent without one never leads to a refresh.
CredentialsFitEndpoint ==
    \A t \in Tasks :
        /\ req[t] \in {"sent", "unauthorized"} /\ kind[t] = "required" => bearer[t] # NoPair
        /\ req[t] = "refreshing" => bearer[t] # NoPair

\* After close() nothing new goes on the wire: neither an API request nor a
\* token request, from calls that were waiting when the client was closed or
\* from later ones.
SilentAfterClose ==
    [][closed => \A t \in Tasks :
          /\ req'[t] = "sent" => req[t] = "sent"
          /\ pc'[t] = "exchanging" => pc[t] = "exchanging"]_clientVars

\* Every API call ends, the ones the callback makes included.
ApiCallsEnd == \A t \in Tasks : req[t] # "idle" ~> req[t] = "idle"

\* The client uses the token store only through its operations: every step of
\* the client is a step of TokenLifecycle or leaves the store alone.
UsesStore == Safety

\* "Two gathered requests both hitting 401 trigger exactly one token refresh":
\* no token request starts for a 401 while another call, refused with the same
\* token, has already been given the refreshed one and is on its retry.
OneRefreshPerRefusedToken ==
    [][\A t, u \in Tasks :
          req'[t] = "refreshing" /\ pc[t] # "exchanging" /\ pc'[t] = "exchanging" =>
              rejected[u] # bearer[t]]_clientVars
-----------------------------------------------------------------------------
(***************************************************************************)
(* The inductive invariant behind RetryCarriesNewToken, besides the store's *)
(* and the two properties.                                                 *)
(***************************************************************************)

\* A pair that is still to be recorded, or to be issued, was never held, so no
\* request carries its access token.
TokensComeNew ==
    /\ access_token <= issued
    /\ \A t \in Tasks : bearer[t] <= issued
    /\ \A u \in Tasks : Carrying(u) =>
          carried[u] # access_token /\ \A t \in Tasks : carried[u] # bearer[t]

\* A call that refreshes after a 401 holds another access token than the one
\* refused as soon as its refresh has succeeded, by its own exchange or by
\* finding that another task has rotated the pair since it queued.
RefreshBringsAnother ==
    \A t \in Tasks : req[t] = "refreshing" =>
        /\ pc[t] \in {"idle", "awaiting"} => access_token # NoPair /\ access_token # bearer[t]
        /\ pc[t] = "refreshWait" /\ refresh_token # entry[t] => access_token # bearer[t]

CallInv == CredentialsFitEndpoint /\ RetryCarriesNewToken /\ TokensComeNew /\ RefreshBringsAnother
=============================================================================
