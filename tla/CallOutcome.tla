---------------------------- MODULE CallOutcome ----------------------------
(***************************************************************************)
(* What the caller of an API method is told.  A call asks the API, and        *)
(* before or after that perhaps the token endpoint; the transport              *)
(* (_transport.py), the token endpoint (_oauth.py), the endpoint's 404 remap  *)
(* (_endpoints.py) and the attempt loop (client.py) turn the answers into one  *)
(* result or one exception.  The consumer acts on the class: an                *)
(* authentication error means a new login, a communication error a later try.  *)
(*                                                                         *)
(* One call is followed here, from its arguments (EndpointArgs) on, with every *)
(* answer it may get.  How calls share the token store is the subject of       *)
(* EngieBeClient; here the others may only rotate the pair or close the client. *)
(***************************************************************************)
EXTENDS EndpointArgs

CONSTANTS
    Statuses,    \* the HTTP statuses that answer
    Calls        \* the calls: an endpoint and the arguments it is called with

ASSUME OutcomeAssumption ==
    /\ Statuses \subseteq 100..599
    /\ \A call \in Calls :
         call.endpoint \in DOMAIN Catalog /\ call.input \in Getters[call.endpoint]

VARIABLES
    endpoint,        \* what is called
    input,           \* the arguments
    wire,            \* those that are in the request, once it is built
    access_token,    \* "none", "live", or "due": at its refresh margin
    refresh_token,   \* TRUE if one is held
    closed,          \* close() has been called
    stage,           \* how far the call is
    attempt,         \* turns of the attempt loop begun before this one
    with_auth,       \* the request that is out carries a token
    outcome,         \* what the caller is told
    last,            \* the last answer read, and who gave it
    acted            \* how often the API may have carried out the request

callVars == <<endpoint, input, wire, access_token, refresh_token, closed, stage, attempt, with_auth,
              outcome, last, acted>>
tokenVars == <<access_token, refresh_token>>
requestVars == <<endpoint, input, wire>>

-----------------------------------------------------------------------------
(* Answers and outcomes.                                                   *)

\* A body: a JSON object (a token pair, an OAuth refusal, half a pair or any
\* other), other JSON, text that is not JSON, bytes that are not text.
JsonObjects == {"pair", "invalid_grant", "object"}
Bodies == JsonObjects \cup {"json", "text", "bytes"}

\* No answer: the request timed out, or the connection failed.
Timeout == [status |-> 0, body |-> "timeout"]
Broken == [status |-> 0, body |-> "broken"]
Answers == [status : Statuses, body : Bodies] \cup {Timeout, Broken}

Pending == [class |-> "pending", status |-> 0]
\* A good answer: of the API, one that is handed to the endpoint's parser.
Result == [class |-> "result", status |-> 0]
Error(class, status) == [class |-> class, status |-> status]

LibraryErrors ==
    {"communication", "timeout", "not_published", "invalid_response", "authentication", "closed"}

\* Failures to get an answer, as the transport reports them.
NoAnswer(answer) ==
    IF answer = Timeout THEN Error("timeout", 0) ELSE Error("communication", 0)

\* The body must be a JSON object.
JsonObject(body) ==
    IF body \in JsonObjects THEN Result ELSE Error("invalid_response", 0)

\* A request to the API.
RequestJson(answer) ==
    IF answer \in {Timeout, Broken} THEN NoAnswer(answer)
    ELSE IF answer.status = 401 THEN Error("authentication", 401)
    ELSE IF answer.status >= 400 THEN Error("communication", answer.status)
    ELSE IF Catalog[endpoint].expect_body THEN JsonObject(answer.body)
    ELSE IF answer.status \in 200..299 THEN Result
    ELSE Error("invalid_response", 0)

\* Mutant of TokenEndpointError: whatever the status, invalid_grant is believed.
BelievesBody(status, body) ==
    IF status = 401 \/ body = "invalid_grant"
    THEN Error("authentication", status)
    ELSE Error("communication", status)

\* An HTTP error of the token endpoint: a refusal, or an outage.
TokenEndpointError(status, body) ==
    IF status = 401 \/ (status \in {400, 403} /\ body = "invalid_grant")
    THEN Error("authentication", status)
    ELSE Error("communication", status)

\* A request to the token endpoint.  The body of an HTTP error is decoded
\* before the status is looked at, and decoding may fail.
ExchangeToken(answer) ==
    IF answer \in {Timeout, Broken} THEN NoAnswer(answer)
    ELSE IF answer.status >= 400
    THEN IF answer.body = "bytes" THEN Error("UnicodeDecodeError", 0)
         ELSE TokenEndpointError(answer.status, answer.body)
    ELSE IF answer.body \in JsonObjects \ {"pair"} THEN Error("authentication", 0)
    ELSE JsonObject(answer.body)

\* Endpoint.raise_error: a 404 means that the prices are not out yet.
RaiseError(err) ==
    IF Catalog[endpoint].not_published /\ err.status = 404 THEN Error("not_published", 404) ELSE err

-----------------------------------------------------------------------------
(* The call.                                                               *)

OutcomeInit ==
    /\ \E call \in Calls : endpoint = call.endpoint /\ input = call.input
    /\ wire = [f \in {} |-> None]
    /\ access_token \in {"none", "live", "due"}
    /\ refresh_token \in BOOLEAN
    /\ closed \in BOOLEAN
    /\ stage = "new" /\ attempt = 0 /\ with_auth = FALSE
    /\ outcome = Pending
    /\ last = [from |-> "nobody", answer |-> Broken]
    /\ acted = 0

\* The call is over.
Tell(o) ==
    /\ stage' = "done"
    /\ outcome' = o
    /\ UNCHANGED <<attempt, with_auth>>

\* A refresh, up to the lock.
AskForTokens(s) ==
    \/ closed /\ Tell(Error("closed", 0))
    \/ ~closed /\ ~refresh_token /\ Tell(Error("authentication", 0))
    \/ ~closed /\ refresh_token /\ stage' = s /\ UNCHANGED <<attempt, with_auth, outcome>>

\* A token is held, or none is needed.
HeadersCanBeBuilt == Catalog[endpoint].optional_auth \/ access_token # "none"

\* Headers, session, request.
SendRequest ==
    \/ ~HeadersCanBeBuilt /\ Tell(Error("authentication", 0))
    \/ HeadersCanBeBuilt /\ closed /\ Tell(Error("closed", 0))
    \/ /\ HeadersCanBeBuilt /\ ~closed
       /\ stage' = "sent"
       /\ with_auth' = (access_token # "none")
       /\ UNCHANGED <<attempt, outcome>>

\* ensure_fresh() has something to do, and is asked.
NeedsRefresh == ~Catalog[endpoint].optional_auth /\ refresh_token /\ access_token # "live"

\* A getter builds the record of its arguments, and the record may refuse them.
ArgumentsRefused ==
    /\ stage = "new"
    /\ ~Accepts(Catalog[endpoint].args, input)
    /\ Tell(Error("ValueError", 0))
    /\ UNCHANGED <<requestVars, tokenVars, closed, last, acted>>

\* The request is built, once for both attempts, and the call goes on.
CallStarts ==
    /\ stage = "new"
    /\ Accepts(Catalog[endpoint].args, input)
    /\ wire' = Build(endpoint, input)
    /\ \/ closed /\ Tell(Error("closed", 0))
       \/ ~closed /\ NeedsRefresh /\ AskForTokens("freshening")
       \/ ~closed /\ ~NeedsRefresh /\ SendRequest
    /\ UNCHANGED <<endpoint, input, tokenVars, closed, last, acted>>

\* The next request, once a refresh has returned.
CallContinues ==
    /\ stage = "refreshed"
    /\ SendRequest
    /\ UNCHANGED <<requestVars, tokenVars, closed, last, acted>>

\* Mutants of RefreshError: it goes through the endpoint's remap; the 401 that
\* led to the refresh is raised in its place.
RemappedError(o) == RaiseError(o)
The401Again(o) == IF stage = "refreshing" THEN Error("authentication", 401) ELSE o

\* What a failed refresh is to the call: its own error, after a 401 as before
\* the first request, and never the subject of the endpoint's remap.
RefreshError(o) == o

\* The token endpoint answers.  The pair is stored if there is one, and what
\* was held stays if not; an error is the call's.
TokensAnswered(answer) ==
    LET o == ExchangeToken(answer) IN
    /\ stage \in {"freshening", "refreshing"}
    /\ last' = [from |-> "tokens", answer |-> answer]
    /\ IF o = Result
       THEN /\ stage' = "refreshed" /\ access_token' = "live"
            /\ attempt' = IF stage = "refreshing" THEN 1 ELSE 0
            /\ UNCHANGED <<with_auth, outcome>>
       ELSE Tell(RefreshError(o)) /\ UNCHANGED access_token
    /\ UNCHANGED <<requestVars, refresh_token, closed, acted>>

\* Another call has rotated the pair while this one waited for the lock.
TokensReused ==
    /\ stage \in {"freshening", "refreshing"}
    /\ stage' = "refreshed" /\ access_token' = "live"
    /\ attempt' = IF stage = "refreshing" THEN 1 ELSE 0
    /\ UNCHANGED <<requestVars, refresh_token, closed, with_auth, outcome, last, acted>>

\* The client has been closed while this call waited for the lock.
TokensFindClosed ==
    /\ stage \in {"freshening", "refreshing"}
    /\ closed
    /\ Tell(Error("closed", 0))
    /\ UNCHANGED <<requestVars, tokenVars, closed, last, acted>>

\* Whatever is answered, and when nothing is, the API may have acted; a 401 says
\* that it has not.
MayHaveActed(answer) == acted' = IF answer.status = 401 THEN acted ELSE acted + 1

\* Mutant of ApiAnswered: a request that timed out is sent again as well.
AgainAfterTimeout(answer) ==
    LET o == RequestJson(answer) IN
    /\ stage = "sent"
    /\ last' = [from |-> "api", answer |-> answer]
    /\ MayHaveActed(answer)
    /\ IF o.class \in {"authentication", "timeout"} /\ attempt = 0 /\ with_auth
       THEN AskForTokens("refreshing")
       ELSE Tell(IF o.class \in {"communication", "timeout"} THEN RaiseError(o) ELSE o)
    /\ UNCHANGED <<requestVars, tokenVars, closed>>

\* The API answers.  A first 401 to a request with a token leads to a refresh.
ApiAnswered(answer) ==
    LET o == RequestJson(answer) IN
    /\ stage = "sent"
    /\ last' = [from |-> "api", answer |-> answer]
    /\ MayHaveActed(answer)
    /\ IF o.class = "authentication" /\ attempt = 0 /\ with_auth
       THEN AskForTokens("refreshing")
       ELSE Tell(IF o.class \in {"communication", "timeout"} THEN RaiseError(o) ELSE o)
    /\ UNCHANGED <<requestVars, tokenVars, closed>>

\* A login completes, or another call refreshes, while this one is at the API;
\* close() waits for neither.
PairAdopted ==
    /\ stage \in {"sent", "refreshed"}
    /\ access_token' = "live" /\ refresh_token' = TRUE
    /\ UNCHANGED <<requestVars, closed, stage, attempt, with_auth, outcome, last, acted>>

ClientCloses ==
    /\ stage # "done" /\ ~closed
    /\ closed' = TRUE
    /\ UNCHANGED <<requestVars, tokenVars, stage, attempt, with_auth, outcome, last, acted>>

OutcomeNext ==
    \/ ArgumentsRefused \/ CallStarts \/ CallContinues
    \/ \E answer \in Answers : TokensAnswered(answer) \/ ApiAnswered(answer)
    \/ TokensReused \/ TokensFindClosed \/ PairAdopted \/ ClientCloses

OutcomeSpec == OutcomeInit /\ [][OutcomeNext]_callVars

-----------------------------------------------------------------------------
(* Properties.                                                             *)

\* The last answer refuses the credentials: a 401 of either server, an
\* invalid_grant, or a token response without both tokens.
Refusal ==
    LET a == last.answer IN
    \/ last.from # "nobody" /\ a.status = 401
    \/ /\ last.from = "tokens"
       /\ \/ a.status \in {400, 403} /\ a.body = "invalid_grant"
          \/ a.status \in 1..399 /\ a.body \in JsonObjects \ {"pair"}

\* "A token-endpoint server failure is an outage, never a reauth signal": the
\* caller is sent to a new login only when credentials were refused, or none
\* were held; and whenever they were refused for good, unless the client is
\* closed by then or the refusal cannot be decoded.
ReauthIffRefused ==
    stage = "done" =>
        /\ outcome.class = "authentication" => Refusal \/ last.from = "nobody"
        /\ Refusal => outcome.class \in {"authentication", "closed", "UnicodeDecodeError"}

\* "Prices not yet published" is said of exactly the 404s of the price service:
\* a 404 that the token endpoint gives to the same call is an outage.
NotPublishedIsThe404 ==
    stage = "done" =>
        (outcome.class = "not_published"
            <=> Catalog[endpoint].not_published /\ last.from = "api" /\ last.answer.status = 404)

\* An outage names the answer the call ended on, not an earlier one: its status,
\* and a timeout if and only if that answer did not come in time.
OutageNamesLastAnswer ==
    stage = "done" =>
        /\ outcome.class = "communication" => outcome.status = last.answer.status
        /\ outcome.class = "timeout" <=> last.answer = Timeout /\ outcome.class # "closed"

\* "Invalid arguments raise ValueError before any request is sent": exactly the
\* arguments that make no request, or one that does not say all they say, are
\* refused, by a closed client too, and neither server has been asked.
RefusedIffUnsendable ==
    stage = "done" =>
        /\ outcome.class = "ValueError" <=> ~Sendable(endpoint, input)
        /\ outcome.class = "ValueError" => last.from = "nobody"

\* What goes out is what the caller meant, in the spelling the API knows, on the
\* retry too.
SentAsMeant ==
    stage \in {"sent", "refreshing", "refreshed", "freshening"} =>
        WellFormed(wire) /\ Lossless(wire, input)

\* "After a service action, check the service status before you retry": the
\* client itself repeats a request only when the first has not been carried out.
ActsAtMostOnce == acted <= 1

\* "Client errors derive from EngieBeError": nothing else reaches the caller,
\* but the documented ValueError.  (Up to the parser of a good answer.)
LibraryErrorsOnly ==
    stage = "done" => outcome.class \in LibraryErrors \cup {"result", "ValueError"}
=============================================================================
