# aioengiebelgium: models, checks and proofs

TLA+ models of `aioengiebelgium` (under `src/src/aioengiebelgium/`), the asyncio
client of the ENGIE Belgium API; the TLC configurations that check them; and
TLAPS proofs of what matters most. File names below are relative to that
directory unless they start with `src/`.

## 1. The system

The library is one asyncio process. A consumer (a Home Assistant integration,
say) creates an `EngieBeClient`, logs in once with a password and an MFA code,
and then calls getters from any number of tasks. The client keeps a rotating
token pair alive and hands every new pair to the consumer, who persists it.

| Component | State | Operations | Talks to |
|---|---|---|---|
| Token store, `_tokens.py` | held pair, lock, rotation number, delivery queue, drain task | `refresh`, `adopt`, `ensure_fresh`, delivery of rotated pairs | token endpoint (request under the lock), consumer (`on_token_refresh`) |
| API calls and lifetime, `client.py` | `_closed`, the session it may own; per call: attempt, headers | the getters and actions (all of them one attempt loop), `async_refresh_token`, `close` | token store, API, endpoint catalog |
| Login flow, `_auth.py` | session and whether the login owns it, MFA channel | `start_auth_flow` (8 or 12 requests), `async_submit_mfa`, `async_abort` | Auth0 pages, token endpoint, token store (`adopt`) |
| Token endpoint, `_oauth.py` | none | status and body to a pair or an exception | transport |
| Transport, `_transport.py` | `OwnedSession` | request under a total timeout, statuses and failures to exceptions | aiohttp |
| Endpoint catalog, `_endpoints.py` | none | argument checks and normalisation, URLs and parameters, the 404 remap of the price service | client |
| Parsers, `parsers.py` | the skip tally, a context variable open during one response | defensive list parsing, one parser per response | models |
| Models and queries, `models.py` | immutable records | day-ahead boundaries, current tariff slot, products, dues, price periods, happy hours, solar hours, meters | consumer |
| Exceptions, constants | none | | all |
| API collection drift script, `src/scripts/check_bruno_drift.py` | none | compares request files with the catalog by their text | nobody: a developer's tool |

Interactions that decide the design of the models:

* every getter is `_call()`, which is `_request_json_authenticated()`: ask
  `ensure_fresh()`, send, and on a first 401 to a request that carried a token,
  `refresh()` and send once more;
* `refresh()` holds the store's lock across the `await` of the token request;
  `adopt()`, the end of a login, takes the same lock;
* both record a rotation inside the lock and see to its delivery outside it: a
  single drain task runs the consumer's callback, the call that started it waits
  behind `asyncio.shield`, other calls return at once;
* the callback may call back into the client;
* `close()` sets a flag and closes an owned session; it waits for nobody.

### What is hard

All concurrency is between tasks of one event loop: what stands between two
`await`s is atomic, and everything else interleaves. The hard cases are
calls that wait for the lock while the pair rotates or the client closes;
cancellation at each `await`; answers lost after the server has used up the
refresh token; deliveries slower than rotations; a callback that refreshes; two
submissions of one login; a 401 read late; failures of the token endpoint inside
an API call; and, in the pure code, arguments at their boundaries, feeds with holes
and repetitions, wall times at a clock change, nested lists that lose entries, a
field with a value of a kind nobody expects, and intervals that meet. Nothing is persisted by
the library and no message is duplicated, so there is no crash recovery to check.
`PROJECT.json` lists the hazards, each at its line with the properties that
cover it.

### What makes each component correct

* Token store: token requests never overlap; a request presents the held token;
  no interleaving strands a client that lost no answer; pairs are delivered
  newest only, in order, once, and in the end; nobody waits for ever.
* API calls: a retry carries a new token; nothing goes out without the credential
  its endpoint needs, and nothing at all after `close()`; every call ends.
* What a caller is told: a new login is asked for only when credentials were
  refused; an outage is never taken for that, nor for unpublished prices.
* Arguments: exactly those are refused that make no request, or one that says less
  than the caller meant; the others go out as they are meant; and no request is made
  twice that may have been carried out.
* Login: its own session is closed when the login is over, whatever ended it; a
  wrong code does not end it; a lent session is never closed.
* Day-ahead prices: slots do not overlap and lose no price; a consumer that
  sleeps from boundary to boundary misses nothing and does not spin.
* Tariff schedules: the answer is what the week says, over midnight, the end of
  the week and a clock change.
* Parsers: one malformed entry costs only itself, and is counted once; no converted field
  has a value of another type than its model declares, and none loses a value that had the
  type. (Fields copied unchecked keep whatever the wire holds, see §6.)
* Queries: different questions about one response agree, intervals that meet leave no
  instant out and give none to both, and a consumer that sleeps to a boundary misses
  nothing.

## 2. Modules

| Module | Models | Notes |
|---|---|---|
| `RotationFeed` | what the consumer of `on_token_refresh` is promised | abstract specification |
| `TokenLifecycle` | `_tokens.py`, the asyncio lock, the authorization server, `close()` as the store sees it | implements `RotationFeed` |
| `TokenLifecycleProofs` | theorems | |
| `EngieBeClient` | `client.py`, composed with `TokenLifecycle` by `EXTENDS` | every step is a store step or leaves the store alone |
| `EngieBeClientProofs` | theorems | |
| `EndpointArgs` | `_endpoints.py`: the catalog, every argument record, what is refused, what of the rest is sent | no state; composed into `CallOutcome` by `EXTENDS` |
| `CallOutcome` | one API call from its arguments on, with every answer, through `_transport.py`, `_oauth.py`, `Endpoint.raise_error` and the attempt loop | other calls may only rotate the pair or close the client |
| `CallOutcomeProofs` | theorems | of the arguments too |
| `AuthFlow` | `_auth.py`, `OwnedSession` | |
| `AuthFlowProofs` | theorems | |
| `EpexPrices` | `parse_epex_prices`, `EpexPayload.next_slot_boundary` | with a sleeping consumer |
| `EpexPricesProofs` | theorems | |
| `TouSchedule` | `TouDirectionSchedule.current_slot` and the zone's clock | with a sleeping consumer |
| `TouScheduleProofs` | theorems | |
| `BoundedRecursion` | nothing of the code: lemmas about loops as recursive functions of the number of items read | used by the proofs above and below |
| `WireFields` | the converters of `parsers.py`: what each makes of each kind of JSON value | no state |
| `ParserFields` | `parsers.py`: which converter makes which field of which model, and without which fields an entry is dropped | no state |
| `ModelFields` | `models.py`: the declared type of each field, and whether it may be `None` | no state |
| `SkippedEntries` | `_parse_items_counted`, the nested tally, the parsers of eight responses, and each model's parser over those tables | sums and the places kept are recursive functions, without folds, so that they can be proved about |
| `ResponseQueries` | the queries of `models.py`, and the parsers of what they are asked about | `EXTENDS SkippedEntries` |
| `ResponseProofs` | theorems | of both; reads the field tables entry by entry |
| `MC...` | the small instance of each, for TLC | |

### Token store

A pair is the number under which the server issued it. `access_token`,
`refresh_token`, `rotation_seq`, `pending` and the lock are the fields of the
class; `delivery` is the state of the drain task; `pc`, `entry`
(`refresh_at_entry`), `carried`, `presented` and `wire` are the local state of each
calling task; `issued`, `valid` and `orphans` are the server's. A step runs to the
next `await` that really suspends: `RefreshNow` or `RefreshQueues` up to the token
request or the lock, `RefreshReuses`, `RefreshFindsClosed` and `RefreshExchanges`
from the lock, `ExchangeSucceeds`, `ExchangeDenied` and `ExchangeAbandoned` from the
answer. `Grant`, `Deny` and `GrantOrphan` are the server's; a request that the client
has given up may still reach it. `asyncio.Lock` is first come, first served; a task
may be cancelled while it waits, and the next one then has its turn. The callback
runs in the drain task, as the member `Drainer` of `Tasks`: what it calls are steps of
that task.

### API calls

`req` is where a call stands, `bearer` the pair its request carries, `rejected`
the token of a refused first attempt. `due` and `dead` are two clocks: the
client's margin before the expiry it can read, and what the API accepts; they
need not agree, since a token can be revoked and an unreadable one never comes
due. A call that refreshes runs the store's own `Refresh` step and continues when
the store's call has returned. After that the model lets other tasks run before
the call sends; the program does so only when the refresh waited for a delivery.
The model has more behaviours there, so what holds in it holds in the program.

### What a caller is told

An answer is a status with one of six kinds of body (a pair, an `invalid_grant`
refusal, another object, other JSON, text, undecodable bytes), a timeout or a broken
connection. The operators `NoAnswer`, `RequestJson`, `TokenEndpointError`,
`ExchangeToken` and `RaiseError` are the functions that turn one into an exception,
in the order the code applies them. `access_token` is only "none", "live" or "due",
because which pair it is does not matter here.

### Arguments

An argument is what the checks tell apart: an account number is digits, digits with
spaces, or other text; an EAN is bare, suffixed or neither; a date is its place among
the others; a number may be no int. `Accepts` and `Build` follow the records' own
`__post_init__` and the endpoints' parameters, endpoint by endpoint; `Sendable` says,
without the checks, what a request must be: well-formed for the API (`WellFormed`), and
nothing of what the caller said lost (`Lossless`). The record is built before the client is
asked whether it is closed, so bad arguments are refused by a closed client too
(`ArgumentsRefused`). `acted` counts how often the API may have carried the call out; an
answer of 401 says it has not.

### Login

A page is the four facts the code reads off it: status, field error, echoed state,
next state. `start` counts the requests of steps 1-7 (`LoginSteps` and
`ChallengeSteps`); `submit` is per task, because nothing keeps two tasks from
submitting to one flow. Closing the session under a request makes it fail
(`SubmitFails`). `over` is history: something other than a wrong code has ended the
login. HTML and form scraping are abstracted to those facts.

### Prices and schedules

Time is counted in ticks. In `EpexPrices` the price of an entry is its place in
the feed, so that a swap would be seen. `TouSchedule` counts instants, and
represents a datetime of the zone by wall time and fold, with the rules of PEP 495;
a slot is named by its weekday and place. The loops of `parse_epex_prices` are
recursive functions of the number of items read, so that they can be proved about.

### Parsers, fields and queries

In `SkippedEntries` there are two views of an entry. Where lists nest it is whether
its own fields pass, and the lists it carries; a missing list and a value that is
no list are distinct, since `parse_meter_reads` treats them differently. Where the
code reads one list under either of two keys, the model has the list it found.
Where one model is looked at, an entry is the record of its fields, each a kind of
JSON value (`Kinds`): `ParserFields` is how `parsers.py` makes the field,
`ModelFields` what `models.py` declares of it, and the two tables are compared by
`KeepsEverySound`. Some twenty fields declared `str | None` are copied as they are; they
are `Unchecked`: such a field must hold the string the entry has, and where the entry has
something else the property asks only that it is copied, since the declaration is broken
then.

`ResponseQueries` parses small responses of seven kinds and puts every question to the
models: products, service points and `is_dynamic`; the earliest due date; the price
period of a day; happy hours; solar hours; the primary meter and `has_tou`; slot codes
and the derived optimal code. Two properties have preconditions, and say so: the
questions about contracts agree where no EAN has two active contracts, and the solar
boundaries are sound where solar hours do not overlap.

## 3. What the runs check

`pass` runs must hold; a `violation` run shows one of the disagreements of section 6.
Sizes are of the last run.

| Run | Question | Instance | States |
|---|---|---|---|
| `TokenSafety` | is the store sound under every interleaving | two callers, the callback calling back, four pairs, symmetric callers | 789 000 |
| `TokenLiveness` | does every call end, is the newest pair delivered | the same with three pairs, fairness, no symmetry | 156 000 |
| `ClientSafety` | what is sent, with which token, and after `close()` | two callers, three pairs, one token that ages of each kind | 910 000 |
| `ClientLiveness` | does every API call end, also from the callback | one caller and the callback, two pairs, two ageing tokens | 177 000 |
| `LateUnauthorized` | finding | as `ClientSafety` | stops at the counterexample |
| `CallOutcome` | what is refused, what is sent, how often it is carried out, which exception a caller gets | every endpoint with its arguments at their boundaries; every answer with eight statuses and six bodies | 124 000 |
| `UndecodableError` | finding | as `CallOutcome` | stops at the counterexample |
| `AuthFlow` | sessions and ends of a login | two submitting tasks | 33 000 |
| `EpexPrices` | slots and boundaries | every feed of up to five entries over six instants, two lengths | 339 000 |
| `TouSchedule` | current slot and next transition | a two-day week, up to two slots a day, three clocks | 139 000 |
| `TransitionAtClockChange` | finding | the clock put back | stops at the counterexample |
| `Responses` | what is kept, counted and converted; what the models answer | two entries a list, one at the innermost level; every model with one field of any kind; four days | 726 000 |

**Why the bounds are enough.**
*Tasks.* What one caller can do to another takes two, and the callback's task is a
third. The theorems of section 5 lift the safety properties to any number.
*Pairs.* Four pairs are the one held, a rotation, a login and a rotation that
overtakes a queued delivery: the shortest history in which a queue holds an entry
that has been superseded while the callback runs. Once `MaxPairs` is reached the
server grants nothing more; requests then time out, which is a behaviour of the
real server too. `MaxAged` bounds how many tokens come due and how many die, so that
the retry itself may be refused.
*Statuses.* One of each class, and those the code singles out; the theorems hold for
any subset of 100..599.
*Arguments.* Each check is met on both sides: years 1999, 2000, 2100 and 2101, months 0,
1, 12 and 13, the days about the ends of February and of a 30-day month in leap and other
years, identifiers -1, 0, 1 and no int, two dates in either order. The theorems hold for
every argument an endpoint takes.
*Feeds.* Five entries over six instants give holes of several lengths, two pairs of
repetitions, and a tie between two most common spacings.
*Weeks.* Two days show midnight and the end of the week; times at 0, 3 and 6 of eight
ticks with a change of two ticks at tick 12 place a slot before, over and after the
repeated or skipped stretch.
*Lists.* Two entries tell a lost one from its neighbour at each level that has a tally
(`MaxEntries`, `MaxNested`, `MaxLeaves`). Queries are asked of lists of two, and of three
(`MaxCompared`) where the middle one of three matters: price periods and meters. The
theorems hold for lists of every length.
*Fields.* Each field is made by itself, from its own value, so one odd field at a time
meets every case; a field that an entry cannot do without is also odd beside a neighbour.
*Days.* Four days hold two intervals that meet, overlap or leave a gap, with a day before
or after them; a solar slot lasts two, so that an instant lies inside it.

Deadlock is checked for the token store and the client, where somebody can always
act. It is off where the modelled activity ends: a login over, a call answered, a
response parsed, a consumer that has reached the horizon.

Every property has a mutant in `PROJECT.json`: a definition of the model changed
the way a plausible bug would change the code, with which the run fails.

### Properties, by module

* `TokenLifecycle`: `ExchangesSerialized` (single flight), `TokenInFlightIsHeld` (no
  rotation slips under a request), `HeldTokenWorks` (nobody is stranded unless an
  answer was lost), `NothingLeftBehind` (the drain does not miss a late rotation),
  `DeliveryWaitIsSound` (the callback never waits for itself), `StoreInv` (the
  inductive invariant), `DeliversInOrder` and `DeliversNewest` (refinement of
  `RotationFeed`, without and with its fairness), `CallsEnd`.
* `EngieBeClient`: `RetryCarriesNewToken`, `CredentialsFitEndpoint`,
  `SilentAfterClose`, `UsesStore` (the client refines the store), `ApiCallsEnd`.
* `CallOutcome`: `ReauthIffRefused`, `NotPublishedIsThe404`, `OutageNamesLastAnswer`,
  `RefusedIffUnsendable`, `SentAsMeant`, `ActsAtMostOnce`.
* `AuthFlow`: `SessionReleased`, `SessionKept`, `LoginEnds`.
* `EpexPrices`: `SlotsAreSound`, `BoundaryIsNextChange`, `SleepsToTheEnd`.
* `TouSchedule`: `AnswersFromWeek` (against a second definition of the week as a
  circle), `NextTransitionIsAhead`, `SlotHoldsUntilTransition`.
* `SkippedEntries`: `SkippedCountsOnce` and `KeepsEverySound` (against a definition
  that walks the response instead of parsing it, and against the declared types).
* `ResponseQueries`: `DynamicIffProducts`, `IntervalsAreHalfOpen`, `NextDueIsOpen`,
  `SolarHoldsToBoundary`, `PrimaryMeterKnowsMost`, `OptimalCodeIsInWeek`.

## 4. Fairness

* `WF(Acquire(t))`: the event loop schedules a task whose lock future is set.
* `WF(EndExchange(t))`, and the same for API requests: every request runs under a
  total `ClientTimeout`, so it ends, by an answer or by a failure.
* `SF(DrainPending)`: the loop runs a scheduled drain task. That the consumer's
  callback returns is an assumption on the consumer. It may call back any number of
  times before it does, each call making `DrainPending` disabled for a while: hence
  strong fairness.
* `WF(StartAdvances \/ StartFails)` and `WF(SubmitProceeds(t))`: the timeouts of the
  login's requests. That the wait for `adopt()` ends is `CallsEnd`.
* `RotationFeed` owes an offer only as long as nobody cancels the drain task.

Nobody owes a call, a login, a cancellation, a submission, an abort or a `close()`.

## 5. What is proved

All for any set of tasks, any bound on pairs, any subset of statuses, any calls with any
arguments, feeds and weeks of any length, responses with lists of any length, from the
named assumptions on the constants. Every safety and action property that a passing run
checks is proved.

**Token store** (`TokenLifecycleProofs`). `TypeCorrect`, then `StoreInvariant`: the
properties are not inductive by themselves, so `StoreInv` strengthens them in three
parts.
`LockInv` adds that a request is out exactly while its task is exchanging, and that a
waiter whose entry token is no longer held will find a complete pair: that is why it
takes the early return and never presents a used-up token.
`ChainInv` adds that a pair on its way to the store works and is known to nobody else:
that is why recording it cannot strand the client.
`DeliveryInv` adds that the queue is sorted, holds nothing already offered, and ends
with the newest rotation if that is still to offer.
From it follow `Serialized`, `InFlightIsHeld`, `NeverStranded`, `NothingIsLeftBehind`,
`NoSelfWait`, and `ImplementsFeed`, that each step is a step of `RotationFeed` or a
stutter.

**Client** (`EngieBeClientProofs`). `ClientImplementsStore`: every step of the client
is a step of the store or leaves it alone; so `ClientNeverStranded` and
`ClientKeepsStoreSound` carry what was proved of the store over to it. `ClientTypeCorrect` is its type invariant. `CallInv` is
the invariant of the calls, on top of `StoreInv`: to `CredentialsFitEndpoint` and
`RetryCarriesNewToken` it adds that a pair still to be recorded or issued has never been
held, so that no request carries its token (`TokensComeNew`), and that a call which
refreshes after a refusal finds another token held as soon as its refresh has succeeded
(`RefreshBringsAnother`): the early return of `refresh()` gives the pair of
somebody else's refresh, and an exchange one that the server has just issued. From it
`RetriesWithAnother` and `CredentialsFit`. `ClosedIsSilent` goes step by step: each that
puts a request on the wire has read `_closed` since the last `await`.

**Arguments and the outcome of a call** (`CallOutcomeProofs`).
`RefusesExactlyTheUnsendable`, record by record and endpoint by endpoint. `TokenOutcome`
and `ApiOutcome` say what each answer comes to; `OutcomeInv` adds that a call which goes
on after the API's answer was refused by it, that one which comes out of a refresh holds
a token, that nobody has answered a new call, and how often it may have been carried out.
From it `OutageIsNoReauth`, `NotPublishedIsExact`, `OutageIsNamed` and `ActedOnce`.
`SendInv` says that a call under way has accepted arguments and the request made of them,
and a refused one has asked nobody; from it and the theorem on arguments `RefusalIsExact` and `RequestIsMeant`.
`ExchangesRaiseNothingElse` is the other side of the finding of `UndecodableError`:
whatever is answered, an error body of the token endpoint that is not text is the only way
for the requests of a call to raise anything but a library error or `ValueError`. It ends
where a good answer is handed to `endpoint.parse` (`client.py:506`): of what a parser may
raise, the `OverflowError` of §7 for one, it says nothing.

**Login** (`AuthFlowProofs`). `FlowTypeCorrect`. `SessionInv`: the session is closed exactly
when the login is over and had created it. From it `NoSessionLeak` and
`WrongCodesKeepTheFlow`.

**Loops** (`BoundedRecursion`). The induction theorems of the library take an operator,
which the provers cannot instantiate. Here an invariant is a *set* of numbers instead:
`InductionUpTo` says that a set which has 0, and with a number below the bound the next
one, has all up to the bound, from the least counterexample; `RecursionExists` that a
recursion over 0..n has a function that solves it, hence that the recursive definition
means what it says.

**Day-ahead prices** (`EpexPricesProofs`). The loops of the parser have the invariants
`Usable` (what is read is an entry of the feed, none lost), `Sorted` (with the prices of
one start in the order of the feed) and `Kept` (the first of each start).
`EndOfIsBetween` puts the end of a slot after its start and not after the next, one spacing
on where the next start is further away, and `ObservedIsCommon` says that the spacing is one
that no other between neighbours outnumbers: no slot is stretched over a hole. From these `SlotsSound`, `SleepsSoundly` and `StopsAtTheEnd`, for a feed
of any length.

**Tariff schedules** (`TouScheduleProofs`). The days of the week are quotients and
remainders: `HoldingRepeats` says that the answer does not depend on which week it is,
`OneHolds` that a consistent schedule has one slot at a time, `HoldsOn` that a slot
that holds goes on to its end, over midnight too, and `WallRunsOn` that the wall clock runs
on between instants unless it is changed. From these `TransitionIsAhead` and `SlotHolds`,
for any week, any consistent schedule and clock of the model.

`AnswerIsOfWeek` compares two definitions of the week. The code looks for a slot by the
day of the wall time and the day before; the property reads the week as a circle and asks
how long ago, modulo the circle, a slot began. `LastsToItsEnd` reduces the stretch of a
slot to its two cases, over midnight or not; `ContainedIsCovered` and `CoveredIsContained`
are the two directions, by cases on whether the week's end lies between; with `OneHolds`
the two sets are the same.

**Responses: what is kept and counted** (`ResponseProofs`). `SkipInv`: an answer is the
parsing of the response it stands beside. The rest is about operators. `InOrderUnfolds`
and `TotalUnfolds` say, by `RecursionExists`, that the recursive functions for the places
kept and for a sum are what they look like; `TotalAdds` that sums add entry by entry,
`TotalOfPicked` that the sum over the places kept is the sum with 0 elsewhere.
`ParsedAlike` is the heart: if a parser of entries keeps exactly the sound ones and
records nothing of the others (`Judged`), then the list made is that of the sound entries
in their order, and skipped and recorded drops together are the losses entry by entry.
It is used once for each depth (`LeavesParsed`, `NestedParsed`, `DeepParsed`), for
meter reads, which go down with registers of which none is good (`ReadsParsed`), for
contract periods, whose losses are summed by hand (`PeriodsParsed`), and for the models.
For those, `TablesAgree` goes through the two tables: every field of the 86 models is made
by a converter that fits its declared type and presence. `MustMade`, `HasMade` and
`OptionalMade` say of each pair of converter and type what is made of every kind of value;
`EntryMade` puts them together. From these `EachLossCounted` and `SiblingsSurvive`.
`CopiesBreakTypes` is the limit of the latter: a field copied unchecked does hold something
else than it is declared to wherever the wire does.

**Responses: what the models answer** (`ResponseProofs`). `ReadInv`: a model that has been
made is the one of the response. `DueIsOpen`, `PrimaryIsBest` and `OptimalIsFound` are about
least elements of places in a list (`LeastRank`). `DynamicByEan`: where no EAN has two
active contracts, the last entry of a dict is the only one. `SolarToTheBoundary`: of slots
that do not overlap at most one covers an instant, so the first found is the one.
`IntervalsMeet` counts: the periods that contain a day are those begun less those ended, and
where periods follow one another each beginning but the first is an end.

**Model-checked only.** Liveness (`CallsEnd`, `DeliversNewest`, `ApiCallsEnd`,
`LoginEnds`), which is out of the prover's reach.

## 6. Where the code and its documentation disagree

* **A late 401 rotates again** (`LateUnauthorized`). `refresh()` reads
  `refresh_at_entry` when the 401 is handled, not when the request was sent. Two calls
  refused with the same token cause two token requests if the second 401 is read after
  the first refresh has ended. A test says "Two gathered requests both hitting 401
  trigger exactly one token refresh" (`src/tests/test_client_auth.py:437`), and its two
  401s arrive together. The extra rotation is harmless to the pair: `HeldTokenWorks`
  holds.
* **The next transition before a clock change** (`TransitionAtClockChange`). Asked just
  before the clock is put back, `current_slot()` returns the end of a slot that began
  within the hour about to be repeated; when the clock goes back, the slot stops holding
  first. `NextTransitionIsAhead` holds all the same, and `SlotHoldsUntilTransition` says
  that the ticks after the change are the only exception.
* **An undecodable error page** (`UndecodableError`). `exchange_token()` decodes the
  body of an HTTP error before it looks at the status; a body that is not text in its
  charset makes `response.text()` raise `UnicodeDecodeError`, outside the exceptions
  the README promises. That aiohttp's `text()` decodes strictly is aiohttp's behaviour,
  modelled from how the code uses it. `ExchangesRaiseNothingElse` proves that no other
  answer of either server makes the requests of a call raise anything else; the parser
  that a good answer is handed to is not part of that.
* **Fields that are copied unchecked** (no run; the theorem `CopiesBreakTypes`).
  `models.py` declares about twenty fields `str | None` (`models.py:164-165`, for
  example) that `parsers.py` takes as they come (`parsers.py:383-384`, and the addresses,
  relations, transactions and balances). If the wire holds a number or an object there,
  the model is made and the field holds it. `KeepsEverySound` therefore claims the
  declared type of converted fields only.

## 7. What is not modelled

* URLs, headers other than the token, form and query parameters, user agents: data
  without control.
* HTML scraping, PKCE and JWT decoding beyond what is read off them; what aiohttp does
  inside a request.
* How large a number is. `float()` of an integer beyond a double, and `int()` of an
  infinity, raise `OverflowError`, which no converter catches (`parsers.py:123`).
* The lists of plain values in some models.
* `slots_for_local_date` (one comparison under a time zone), `ConsumptionAddress.format`
  (layout), constants and exports.
* `src/scripts/check_bruno_drift.py`, which compares files by their text and is no part of
  the library.
* Persistence by the consumer: a process that stops between the server's rotation and
  the consumer's write loses the pair, and the library has no means against it.
* More than one event loop or thread: the library does not support it.

## 8. Plan

Done, in this order, the most important behaviour first: `TokenLifecycle` with
`RotationFeed`, its proofs, `EngieBeClient`, `AuthFlow`, `EpexPrices`, `TouSchedule`,
`SkippedEntries`, `CallOutcome`; then `EndpointArgs` and its place in `CallOutcome`, the
fields of the models (`WireFields`, `ParserFields`, `ModelFields`), `ResponseQueries`; and
the proofs about the client's calls, arguments, prices, schedules and responses.

Left: the hand-over of a login's pair: `AuthFlow` composed with `TokenLifecycle`, so that an
adoption dropped by a cancellation is seen from both sides. Each side has it now: the
store as a cancelled `adopt()`, the login as a submission that fails at its end.

## 9. Running it

    tlc -workers 2 -config TokenSafety.cfg MCTokenLifecycle
    tlapm TokenLifecycleProofs.tla

Each run of `PROJECT.json` names its module and its configuration; no run takes more
than two minutes on two workers.
