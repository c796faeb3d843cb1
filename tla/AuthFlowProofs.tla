--------------------------- MODULE AuthFlowProofs ---------------------------
(***************************************************************************)
(* The session of a login, for any number of tasks submitting to one flow.  *)
(***************************************************************************)
EXTENDS AuthFlow, TLAPS

\* The session is closed exactly when the login is over and had created it.
SessionInv ==
    /\ owned \in BOOLEAN
    /\ over \in BOOLEAN
    /\ session = IF over /\ owned THEN "closed" ELSE "open"

LEMMA SessionInit == FlowInit => SessionInv
  BY DEF FlowInit, SessionInv

\* A page the code does not recognise is not a wrong code's page.
LEMMA UnrecognizedIsNotWrong ==
    ASSUME NEW pg, MfaOutcome(pg) = "unrecognized"
    PROVE  ~WrongCode(pg)
  BY DEF MfaOutcome, WrongCode

\* Ending the login and closing an owned session belong together.
LEMMA CloseEnds ==
    ASSUME SessionInv, CloseIfOwned, over' = TRUE, UNCHANGED owned
    PROVE  SessionInv'
  <1>1. CASE owned
    BY <1>1 DEF SessionInv, CloseIfOwned
  <1>2. CASE ~owned
    BY <1>2 DEF SessionInv, CloseIfOwned
  <1>3. QED  BY <1>1, <1>2

LEMMA SessionStep ==
    ASSUME SessionInv, [FlowNext]_flowVars
    PROVE  SessionInv'
  <1> USE DEF SessionInv
  <1>1. CASE StartAdvances
    BY <1>1 DEF StartAdvances
  <1>2. CASE StartFails \/ Abort
    BY <1>2, CloseEnds DEF StartFails, Abort
  <1>3. ASSUME NEW t \in Submitters, NEW step, Sends(t, step) PROVE SessionInv'
    <2>1. CASE session = "open"
      BY <1>3, <2>1 DEF Sends
    <2>2. CASE session = "closed"
      BY <1>3, <2>2, CloseEnds DEF Sends, SubmitRaises
    <2>3. QED  BY <1>3, <2>1, <2>2 DEF Sends
  <1>4. ASSUME NEW t \in Submitters, SubmitMfa(t) \/ MfaAccepted(t) \/ CodeReceived(t)
        PROVE  SessionInv'
    BY <1>3, <1>4 DEF SubmitMfa, MfaAccepted, CodeReceived
  <1>5. ASSUME NEW t \in Submitters, MfaRejected(t) \/ SubmitReturns(t) \/ AdoptCancelled(t)
        PROVE  SessionInv'
    BY <1>5 DEF MfaRejected, SubmitReturns, AdoptCancelled
  <1>6. ASSUME NEW t \in Submitters, MfaUnrecognized(t) PROVE SessionInv'
    <2>1. over' = TRUE
      BY <1>6, UnrecognizedIsNotWrong DEF MfaUnrecognized
    <2>2. QED  BY <1>6, <2>1, CloseEnds DEF MfaUnrecognized, SubmitRaises
  <1>7. ASSUME NEW t \in Submitters, TokensReceived(t) PROVE SessionInv'
    BY <1>7, CloseEnds DEF TokensReceived
  <1>8. ASSUME NEW t \in Submitters, SubmitFails(t) PROVE SessionInv'
    BY <1>8, CloseEnds DEF SubmitFails, SubmitRaises
  <1>9. ASSUME NEW t \in Submitters, NEW step, AnswerArrives(t, step) PROVE SessionInv'
    BY <1>9 DEF AnswerArrives
  <1>10. CASE UNCHANGED flowVars
    BY <1>10 DEF flowVars
  <1>11. QED
    BY <1>1, <1>2, <1>4, <1>5, <1>6, <1>7, <1>8, <1>9, <1>10 DEF FlowNext, SubmitProceeds

\* A login that is over has closed the session it created, wherever its tasks
\* were when it ended and whatever else they were doing.
THEOREM NoSessionLeak == FlowSpec => []SessionReleased
  <1>1. SessionInv => SessionReleased
    BY DEF SessionInv, SessionReleased
  <1>2. QED  BY <1>1, SessionInit, SessionStep, PTL DEF FlowSpec

\* Wrong codes never close the session, and a lent session is never closed.
THEOREM WrongCodesKeepTheFlow == FlowSpec => []SessionKept
  <1>1. SessionInv => SessionKept
    BY DEF SessionInv, SessionKept
  <1>2. QED  BY <1>1, SessionInit, SessionStep, PTL DEF FlowSpec

-----------------------------------------------------------------------------
(* Type correctness.                                                       *)

LEMMA FlowTypeInit == FlowInit => FlowTypeOK
  <1> SUFFICES ASSUME FlowInit PROVE FlowTypeOK  OBVIOUS
  <1>1. NoPage \in Pages
    BY DEF NoPage, Pages, Statuses
  <1>2. start \in 1..Len(StartSteps(method))
    BY DEF FlowInit, StartSteps, LoginSteps, ChallengeSteps
  <1>3. QED  BY <1>1, <1>2 DEF FlowInit, FlowTypeOK, InSubmit

LEMMA FlowTypeStep ==
    ASSUME FlowTypeOK, [FlowNext]_flowVars
    PROVE  FlowTypeOK'
  <1> USE DEF FlowTypeOK, InSubmit
  <1>1. NoPage \in Pages
    BY DEF NoPage, Pages, Statuses
  <1>2. Len(StartSteps(method)) \in Nat
    BY DEF StartSteps, LoginSteps, ChallengeSteps
  <1>3. CASE StartAdvances
    BY <1>2, <1>3 DEF StartAdvances
  <1>4. CASE StartFails \/ Abort
    BY <1>4 DEF StartFails, Abort, CloseIfOwned
  <1>5. ASSUME NEW t \in Submitters, NEW step \in {"mfa", "resume"}, Sends(t, step)
        PROVE  FlowTypeOK'
    BY <1>1, <1>5 DEF Sends, SubmitRaises, CloseIfOwned, Ends
  <1>6. ASSUME NEW t \in Submitters, SubmitMfa(t) \/ MfaAccepted(t) PROVE FlowTypeOK'
    BY <1>5, <1>6 DEF SubmitMfa, MfaAccepted
  <1>7. ASSUME NEW t \in Submitters, CodeReceived(t) PROVE FlowTypeOK'
    BY <1>1, <1>7 DEF CodeReceived, Sends, SubmitRaises, CloseIfOwned, Ends
  <1>8. ASSUME NEW t \in Submitters, MfaRejected(t) \/ SubmitReturns(t) \/ AdoptCancelled(t)
        PROVE  FlowTypeOK'
    BY <1>1, <1>8 DEF MfaRejected, SubmitReturns, AdoptCancelled, Ends
  <1>9. ASSUME NEW t \in Submitters, MfaUnrecognized(t) \/ SubmitFails(t) PROVE FlowTypeOK'
    <2>1. over' \in BOOLEAN
      BY <1>9 DEF MfaUnrecognized, SubmitFails, WrongCode, Pages
    <2>2. QED  BY <1>1, <1>9, <2>1 DEF MfaUnrecognized, SubmitFails, SubmitRaises, CloseIfOwned, Ends
  <1>10. ASSUME NEW t \in Submitters, TokensReceived(t) PROVE FlowTypeOK'
    BY <1>10 DEF TokensReceived, CloseIfOwned
  <1>11. ASSUME NEW t \in Submitters, NEW step \in {"mfa", "resume", "exchange"},
                AnswerArrives(t, step)
         PROVE  FlowTypeOK'
    BY <1>11 DEF AnswerArrives, Answered
  <1>12. CASE UNCHANGED flowVars
    BY <1>12 DEF flowVars
  <1>13. QED
    BY <1>3, <1>4, <1>6, <1>7, <1>8, <1>9, <1>10, <1>11, <1>12 DEF FlowNext, SubmitProceeds

\* A login never runs past its last step, and every submission stands somewhere
\* in async_submit_mfa().
THEOREM FlowTypeCorrect == FlowSpec => []FlowTypeOK
  BY FlowTypeInit, FlowTypeStep, PTL DEF FlowSpec
=============================================================================
