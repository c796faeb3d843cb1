------------------------------ MODULE AuthFlow ------------------------------
(***************************************************************************)
(* One login, _auth.py: the requests that async_start_authentication()      *)
(* makes (steps 1-7), and the flow object it returns, on which any number of *)
(* tasks may submit MFA codes or abort, in any order and at the same time.  *)
(* What a login must not do is leak the session it created, close one it was *)
(* lent, or end on a mistyped code.                                         *)
(*                                                                         *)
(* A page is what the code reads off a response: its status, whether it     *)
(* carries a field error, whether it echoes the submitted state, and whether *)
(* it leads on to a next state.  The pages, and the answers of the token     *)
(* endpoint, are the environment's choice.                                  *)
(***************************************************************************)
EXTENDS SequencesExt

CONSTANT Submitters    \* the tasks that submit MFA codes

VARIABLES
    owned,     \* the login created its session: OwnedSession.owned
    session,   \* "open" or "closed"
    method,    \* the MFA channel: "sms" or "email"
    start,     \* progress of async_start_authentication()
    submit,    \* per task: where its async_submit_mfa() stands
    page,      \* per task: the page that answered its MFA code
    over       \* history: something other than a wrong code ended the login

flowVars == <<owned, session, method, start, submit, page, over>>

-----------------------------------------------------------------------------
(* Steps 1-7.                                                              *)

\* The requests before the password, then the resume and the MFA page ...
LoginSteps ==
    <<"authorize", "identifierPage", "identifier", "passwordPage", "password", "resume">>
\* ... of the channel: _prime_mfa_challenge and _switch_to_email_mfa.
ChallengeSteps(m) ==
    IF m = "sms" THEN <<"smsPage">>
    ELSE <<"smsPage", "pickAuthenticator", "optionsPage", "chooseEmail", "emailPage">>
StartSteps(m) == LoginSteps \o ChallengeSteps(m)

\* The steps whose answer must name the state of the next one.
NeedsState == {"authorize", "password", "resume"}

Statuses == {302, 400, 401, 403, 500}
Pages == [status : Statuses, fieldError : BOOLEAN, echo : BOOLEAN, leadsOn : BOOLEAN]

\* Whether the login goes on after the answer to a step, or raises.
StepPasses(step, pg) ==
    IF step = "password"
    THEN pg.status < 500 /\ ~pg.fieldError /\ pg.leadsOn
    ELSE pg.status < 400 /\ (step \in NeedsState => pg.leadsOn)

\* Mutant of MfaOutcome: the status is looked at before the wrong-code markers.
StatusFirst(pg) ==
    IF pg.status >= 400 THEN "unrecognized"
    ELSE IF pg.echo \/ pg.fieldError THEN "wrong" ELSE IF pg.leadsOn THEN "accepted" ELSE "unrecognized"

\* What the code makes of the answer to a submitted MFA code: an echoed state
\* or a field error is a wrong code, whatever the status; a page that leads
\* nowhere is an authentication or communication error.
MfaOutcome(pg) ==
    CASE pg.echo \/ pg.fieldError -> "wrong"
      [] ~(pg.echo \/ pg.fieldError) /\ pg.leadsOn -> "accepted"
      [] ~(pg.echo \/ pg.fieldError) /\ ~pg.leadsOn -> "unrecognized"

\* How Auth0 answers a wrong code, as recorded in the tests: it renders the
\* challenge again, with a field error or under the state just submitted.
WrongCode(pg) == pg.fieldError \/ pg.echo

NoPage == [status |-> 302, fieldError |-> FALSE, echo |-> FALSE, leadsOn |-> FALSE]

-----------------------------------------------------------------------------
InSubmit == {"mfa", "mfaAnswered", "resume", "resumeAnswered", "exchange", "exchangeAnswered"}

FlowTypeOK ==
    /\ owned \in BOOLEAN
    /\ session \in {"open", "closed"}
    /\ method \in {"sms", "email"}
    /\ start \in 1..Len(StartSteps(method)) \cup {0, -1}
    /\ submit \in [Submitters -> {"idle", "adopting"} \cup InSubmit]
    /\ page \in [Submitters -> Pages]
    /\ over \in BOOLEAN

\* start: the number of the step in progress; 0 when the flow object exists,
\* -1 when starting failed.
FlowInit ==
    /\ owned \in BOOLEAN
    /\ session = "open"
    /\ method \in {"sms", "email"}
    /\ start = 1
    /\ submit = [t \in Submitters |-> "idle"]
    /\ page = [t \in Submitters |-> NoPage]
    /\ over = FALSE

\* close_if_owned()
CloseIfOwned == session' = IF owned THEN "closed" ELSE session

-----------------------------------------------------------------------------
(* async_start_authentication()                                            *)

\* Mutant of StartAdvances: the last step does not return.
RunsPastTheEnd ==
    /\ start > 0
    /\ start' = start + 1
    /\ UNCHANGED <<owned, session, method, submit, page, over>>

\* The step's answer is good: go on, or return the flow after the last step.
StartAdvances ==
    /\ start > 0
    /\ \E pg \in Pages : StepPasses(StartSteps(method)[start], pg)
    /\ start' = IF start = Len(StartSteps(method)) THEN 0 ELSE start + 1
    /\ UNCHANGED <<owned, session, method, submit, page, over>>

\* The answer is an error, or the request fails, times out or is cancelled.
StartFails ==
    /\ start > 0
    /\ start' = -1
    /\ CloseIfOwned
    /\ over' = TRUE
    /\ UNCHANGED <<owned, method, submit, page>>

-----------------------------------------------------------------------------
(* async_submit_mfa()                                                      *)

Ends(t) ==
    /\ submit' = [submit EXCEPT ![t] = "idle"]
    /\ page' = [page EXCEPT ![t] = NoPage]

\* Anything but a wrong code: close the session if the login created it.
SubmitRaises(t) ==
    /\ CloseIfOwned
    /\ Ends(t)
    /\ UNCHANGED <<owned, method, start>>

\* The next request goes out, or the session is closed and the call raises.
Sends(t, step) ==
    \/ /\ session = "open"
       /\ submit' = [submit EXCEPT ![t] = step]
       /\ UNCHANGED <<owned, session, method, start, page, over>>
    \/ /\ session = "closed"
       /\ over' = TRUE
       /\ SubmitRaises(t)

SubmitMfa(t) ==
    /\ start = 0
    /\ submit[t] = "idle"
    /\ Sends(t, "mfa")

Answered == [mfa |-> "mfaAnswered", resume |-> "resumeAnswered", exchange |-> "exchangeAnswered"]

\* A request's answer arrives: not any more once the session is closed, but an
\* answer that had arrived can still be read.
AnswerArrives(t, step) ==
    /\ session = "open"
    /\ submit[t] = step
    /\ submit' = [submit EXCEPT ![t] = Answered[step]]
    /\ \E pg \in Pages : page' = IF step = "mfa" THEN [page EXCEPT ![t] = pg] ELSE page
    /\ UNCHANGED <<owned, session, method, start, over>>

\* Mutant of MfaRejected: the same code is submitted again.
ResubmitsCode(t) ==
    /\ submit[t] = "mfaAnswered"
    /\ MfaOutcome(page[t]) = "wrong"
    /\ submit' = [submit EXCEPT ![t] = "mfa"]
    /\ UNCHANGED <<owned, session, method, start, page, over>>

\* The code was wrong: the flow stays as it is.
MfaRejected(t) ==
    /\ submit[t] = "mfaAnswered"
    /\ MfaOutcome(page[t]) = "wrong"
    /\ Ends(t)
    /\ UNCHANGED <<owned, session, method, start, over>>

\* The code was right: resume the authorization.
MfaAccepted(t) ==
    /\ submit[t] = "mfaAnswered"
    /\ MfaOutcome(page[t]) = "accepted"
    /\ Sends(t, "resume")

\* The page is neither: the call raises an authentication or communication error.
MfaUnrecognized(t) ==
    /\ submit[t] = "mfaAnswered"
    /\ MfaOutcome(page[t]) = "unrecognized"
    /\ over' = (over \/ ~WrongCode(page[t]))
    /\ SubmitRaises(t)

\* The resume redirects to the callback, with the login's own state and a code.
CodeReceived(t) ==
    /\ submit[t] = "resumeAnswered"
    /\ Sends(t, "exchange")

\* Mutant of TokensReceived: the session is to be closed after the hand-over.
AdoptsBeforeClosing(t) ==
    /\ submit[t] = "exchangeAnswered"
    /\ over' = TRUE
    /\ submit' = [submit EXCEPT ![t] = "adopting"]
    /\ UNCHANGED <<owned, session, method, start, page>>

\* The tokens are in: close the session first, then hand the pair over and
\* wait for the store.
TokensReceived(t) ==
    /\ submit[t] = "exchangeAnswered"
    /\ CloseIfOwned
    /\ over' = TRUE
    /\ submit' = [submit EXCEPT ![t] = "adopting"]
    /\ UNCHANGED <<owned, method, start, page>>

\* adopt() has returned.
SubmitReturns(t) ==
    /\ submit[t] = "adopting"
    /\ Ends(t)
    /\ UNCHANGED <<owned, session, method, start, over>>

\* The waiting for the store is cancelled: this is outside the try block.
AdoptCancelled(t) ==
    /\ submit[t] = "adopting"
    /\ Ends(t)
    /\ UNCHANGED <<owned, session, method, start, over>>

\* A foreign state or a missing code in the callback, an error of the token
\* endpoint, a failed request, a timeout or a cancellation.
SubmitFails(t) ==
    /\ submit[t] \in InSubmit
    /\ over' = TRUE
    /\ SubmitRaises(t)

\* async_abort(), and leaving the "async with flow" block: from any task, also
\* while others submit.
Abort ==
    /\ start = 0
    /\ CloseIfOwned
    /\ over' = TRUE
    /\ UNCHANGED <<owned, method, start, submit, page>>

-----------------------------------------------------------------------------
SubmitProceeds(t) ==
    \/ MfaRejected(t) \/ MfaAccepted(t) \/ MfaUnrecognized(t) \/ CodeReceived(t) \/ TokensReceived(t)
    \/ SubmitReturns(t) \/ AdoptCancelled(t) \/ SubmitFails(t)

FlowNext ==
    \/ StartAdvances \/ StartFails \/ Abort
    \/ \E t \in Submitters :
          \/ SubmitMfa(t) \/ SubmitProceeds(t)
          \/ \E step \in {"mfa", "resume", "exchange"} : AnswerArrives(t, step)

(***************************************************************************)
(* Each request runs under a total timeout, so every step of a call ends;   *)
(* that adopt() ends is CallsEnd of TokenLifecycle.  The caller owes         *)
(* neither a submission nor an abort.                                       *)
(***************************************************************************)
FlowFairness ==
    /\ WF_flowVars(StartAdvances \/ StartFails)
    /\ \A t \in Submitters : WF_flowVars(SubmitProceeds(t))

FlowSpec == FlowInit /\ [][FlowNext]_flowVars /\ FlowFairness

-----------------------------------------------------------------------------
(* Properties.                                                             *)

\* Once the login is over, successfully or not, a session it created is
\* closed, even if the store keeps the submission waiting or its task is
\* cancelled there.
SessionReleased == over /\ owned => session = "closed"

\* The session stays open while wrong codes are all that went wrong, so that
\* the code can be submitted again; a session the caller lent stays open for
\* ever.
SessionKept == ~over \/ ~owned => session = "open"

\* A login attempt comes to an end: it fails or returns the flow, and every
\* submission returns or raises.
LoginEnds ==
    /\ <>(start <= 0)
    /\ \A t \in Submitters : submit[t] # "idle" ~> submit[t] = "idle"
=============================================================================
