---------------------------- MODULE EndpointArgs ----------------------------
(***************************************************************************)
(* The endpoint catalog (_endpoints.py): what each endpoint is called with,   *)
(* which arguments are refused with a ValueError, and what of the others       *)
(* reaches the wire.  A getter of the client builds the record of arguments,   *)
(* which checks and normalises them, and hands it over with the endpoint.      *)
(*                                                                         *)
(* An argument is abstracted to what the checks tell apart: an account number  *)
(* to how it is spelled, a date to its place among the others.  No state:      *)
(* CallOutcome composes this with a call.                                    *)
(***************************************************************************)
EXTENDS Integers

CONSTANTS
    None,        \* an argument that is not given
    NotAnInt     \* a number argument that is no int, as True

-----------------------------------------------------------------------------
(* Checks on single arguments.                                             *)

\* Account numbers: digits, digits with spaces between them, anything else.
Numbers == {"digits", "spaced", "text"}
CleansToDigits(number) == number \in {"digits", "spaced"}

\* EANs: digits, digits and _ID<n>, anything else.
Eans == {"bare", "suffixed", "text"}
ValidEan(ean) == ean \in {"bare", "suffixed"}
ValidDeliveryPointId(ean) == ean = "suffixed"

PositiveId(id) == id # NotAnInt /\ id >= 1

DateRange(start_date, end_date) == start_date <= end_date

YearMonth(year, month) == month \in 1..12 /\ year \in 2000..2100

\* calendar.monthrange
IsLeap(year) == year % 4 = 0 /\ (year % 100 # 0 \/ year % 400 = 0)
DaysInMonth(year, month) ==
    CASE month = 2 -> IF IsLeap(year) THEN 29 ELSE 28
      [] month \in {4, 6, 9, 11} -> 30
      [] OTHER -> 31

-----------------------------------------------------------------------------
(* The records of arguments, and what they accept.                         *)

BanArgs(a) == CleansToDigits(a.ban)
CanArgs(a) == CleansToDigits(a.can)
VehicleArgs(a) == PositiveId(a.vehicle_id)
ChargingSessionArgs(a) == PositiveId(a.session_id)

ChargingSessionsArgs(a) ==
    /\ CleansToDigits(a.can)
    /\ DateRange(a.start_date, a.end_date)
    /\ a.page_number >= 0
    /\ a.page_size >= 1

CanDateRangeArgs(a) == CleansToDigits(a.can) /\ DateRange(a.start_date, a.end_date)
EanArgs(a) == ValidEan(a.ean)
MonthArgs(a) == CleansToDigits(a.ban) /\ YearMonth(a.year, a.month)

\* Mutant of PeaksArgs: every month has 31 days.
PeaksUpTo31(a) ==
    CleansToDigits(a.ban) /\ YearMonth(a.year, a.month) /\ a.day \in (1..31) \cup {None}

PeaksArgs(a) ==
    /\ CleansToDigits(a.ban)
    /\ YearMonth(a.year, a.month)
    /\ a.day = None \/ a.day \in 1..DaysInMonth(a.year, a.month)

ContractsArgs(a) == CleansToDigits(a.ban)
UsageArgs(a) == CleansToDigits(a.ban) /\ DateRange(a.start_date, a.end_date)
SolarArgs(a) == CleansToDigits(a.ban) /\ ValidDeliveryPointId(a.delivery_point_id)
FlagArgs(a) == CleansToDigits(a.ban)

MeterReadsArgs(a) ==
    /\ CleansToDigits(a.ban)
    /\ (a.start_date = None) <=> (a.end_date = None)
    /\ ~(a.latest /\ a.start_date # None)
    /\ a.start_date # None => DateRange(a.start_date, a.end_date)

\* The order of the two instants is not checked.
EpexArgs(a) == a.from_dt = "aware" /\ a.to_dt = "aware"

Accepts(record, a) ==
    CASE record = "NoArgs" -> TRUE
      [] record = "BanArgs" -> BanArgs(a)
      [] record = "CanArgs" -> CanArgs(a)
      [] record = "VehicleArgs" -> VehicleArgs(a)
      [] record = "ChargingSessionArgs" -> ChargingSessionArgs(a)
      [] record = "ChargingSessionsArgs" -> ChargingSessionsArgs(a)
      [] record = "CanDateRangeArgs" -> CanDateRangeArgs(a)
      [] record = "EanArgs" -> EanArgs(a)
      [] record = "MonthArgs" -> MonthArgs(a)
      [] record = "PeaksArgs" -> PeaksArgs(a)
      [] record = "ContractsArgs" -> ContractsArgs(a)
      [] record = "UsageArgs" -> UsageArgs(a)
      [] record = "SolarArgs" -> SolarArgs(a)
      [] record = "FlagArgs" -> FlagArgs(a)
      [] record = "MeterReadsArgs" -> MeterReadsArgs(a)
      [] record = "EpexArgs" -> EpexArgs(a)

\* What the record keeps: account numbers without their spaces, an EAN with a
\* delivery point suffix.
Clean(a) ==
    [f \in DOMAIN a |->
        IF f \in {"ban", "can"} /\ a[f] = "spaced" THEN "digits"
        ELSE IF f = "ean" /\ a[f] = "bare" THEN "suffixed"
        ELSE a[f]]

-----------------------------------------------------------------------------
(* The catalog: the record an endpoint is called with, whether it needs a     *)
(* token, whether a 404 has a meaning of its own, whether a body is expected.  *)

Endpoint(record) ==
    [args |-> record, optional_auth |-> FALSE, not_published |-> FALSE, expect_body |-> TRUE]

AgreementCatalog ==
    [prices                     |-> Endpoint("BanArgs"),
     energy_contracts           |-> Endpoint("ContractsArgs"),
     service_point              |-> Endpoint("EanArgs"),
     customer_account_relations |-> Endpoint("NoArgs"),
     monthly_peaks              |-> Endpoint("PeaksArgs"),
     happy_hour_event           |-> Endpoint("BanArgs"),
     happy_hour_month_report    |-> Endpoint("MonthArgs"),
     usage_details              |-> Endpoint("UsageArgs"),
     solar_surplus_forecasts    |-> Endpoint("SolarArgs"),
     feature_flag               |-> Endpoint("FlagArgs"),
     tou_schedules              |-> Endpoint("BanArgs"),
     account_balance            |-> Endpoint("BanArgs"),
     service_points             |-> Endpoint("BanArgs"),
     meter_reads                |-> Endpoint("MeterReadsArgs")]

ServiceCatalog ==
    [monthly_billed_budget       |-> Endpoint("BanArgs"),
     billing_period_usage        |-> Endpoint("BanArgs"),
     budget_billing_plan         |-> Endpoint("BanArgs"),
     happy_hour_eligibility      |-> Endpoint("BanArgs"),
     happy_hour_service_status   |-> Endpoint("BanArgs"),
     activate_happy_hour_service |-> Endpoint("BanArgs"),
     cancel_happy_hour_service   |-> [Endpoint("BanArgs") EXCEPT !.expect_body = FALSE],
     energy_score                |-> Endpoint("MonthArgs")]

VehicleCatalog ==
    [smart_charge_services     |-> Endpoint("CanArgs"),
     electric_vehicles         |-> Endpoint("CanArgs"),
     vehicle_charge_settings   |-> Endpoint("VehicleArgs"),
     latest_charging_session   |-> Endpoint("VehicleArgs"),
     latest_charging_session_charge_settings |-> Endpoint("VehicleArgs"),
     charging_sessions         |-> Endpoint("ChargingSessionsArgs"),
     charging_session          |-> Endpoint("ChargingSessionArgs"),
     charging_sessions_summary |-> Endpoint("CanDateRangeArgs"),
     epex_prices |-> [Endpoint("EpexArgs") EXCEPT !.optional_auth = TRUE, !.not_published = TRUE]]

\* f @@ g of the module TLC, which the provers do not expand.
Joined(f, g) == [e \in DOMAIN f \cup DOMAIN g |-> IF e \in DOMAIN f THEN f[e] ELSE g[e]]

Catalog == Joined(AgreementCatalog, Joined(ServiceCatalog, VehicleCatalog))

-----------------------------------------------------------------------------
(* The getters of the client: what a caller may pass.                        *)

OptionalDate == Int \cup {None}
Id == Int \cup {NotAnInt}

AgreementGetters ==
    [prices                     |-> [ban : Numbers],
     energy_contracts           |-> [ban : Numbers, include_inactive : BOOLEAN],
     service_point              |-> [ean : Eans],
     customer_account_relations |-> {[f \in {} |-> None]},
     monthly_peaks |-> [ban : Numbers, year : Int, month : Int, day : Int \cup {None}],
     happy_hour_event           |-> [ban : Numbers],
     happy_hour_month_report    |-> [ban : Numbers, year : Int, month : Int],
     usage_details              |-> [ban : Numbers, start_date : Int, end_date : Int],
     solar_surplus_forecasts    |-> [ban : Numbers, delivery_point_id : Eans],
     feature_flag               |-> [ban : Numbers],
     tou_schedules              |-> [ban : Numbers],
     account_balance            |-> [ban : Numbers],
     service_points             |-> [ban : Numbers]]

MeterGetters ==
    [meter_reads |->
        [ban : Numbers, latest : BOOLEAN, start_date : OptionalDate, end_date : OptionalDate],
     monthly_billed_budget       |-> [ban : Numbers],
     billing_period_usage        |-> [ban : Numbers],
     budget_billing_plan         |-> [ban : Numbers],
     happy_hour_eligibility      |-> [ban : Numbers],
     happy_hour_service_status   |-> [ban : Numbers],
     activate_happy_hour_service |-> [ban : Numbers],
     cancel_happy_hour_service   |-> [ban : Numbers],
     energy_score                |-> [ban : Numbers, year : Int, month : Int]]

VehicleGetters ==
    [smart_charge_services     |-> [can : Numbers],
     electric_vehicles         |-> [can : Numbers],
     vehicle_charge_settings   |-> [vehicle_id : Id],
     latest_charging_session   |-> [vehicle_id : Id],
     latest_charging_session_charge_settings |-> [vehicle_id : Id],
     charging_sessions |->
        [can : Numbers, start_date : Int, end_date : Int, page_number : Int, page_size : Int],
     charging_session          |-> [session_id : Id],
     charging_sessions_summary |-> [can : Numbers, start_date : Int, end_date : Int],
     epex_prices |-> [from_dt : {"aware", "naive"}, to_dt : {"aware", "naive"}]]

Getters == Joined(AgreementGetters, Joined(MeterGetters, VehicleGetters))

-----------------------------------------------------------------------------
(* The request.                                                            *)

PeaksParams(a) == {"year", "month"} \cup (IF a.day = None THEN {} ELSE {"day"})

MeterReadsParams(a) ==
    IF a.latest THEN {"latest"}
    ELSE IF a.start_date # None /\ a.end_date # None THEN {"start_date", "end_date"}
    ELSE {}

\* The arguments that go into the URL, the parameters or the body.
Sent(endpoint, a) ==
    IF endpoint = "monthly_peaks" THEN {"ban"} \cup PeaksParams(a)
    ELSE IF endpoint = "meter_reads" THEN {"ban"} \cup MeterReadsParams(a)
    ELSE DOMAIN a

\* Mutant of Build: identifiers go out as the caller wrote them.
BuildVerbatim(endpoint, a) == [f \in Sent(endpoint, a) |-> a[f]]

\* Endpoint.build, of the record made of the caller's arguments.
Build(endpoint, a) == [f \in Sent(endpoint, Clean(a)) |-> Clean(a)[f]]

-----------------------------------------------------------------------------
(* What the API can make sense of.                                         *)

\* Every identifier is spelled in the one way the API knows, a range is whole
\* and not empty, a day exists in its month, and no parameter contradicts
\* another.
WellFormed(wire) ==
    LET given == DOMAIN wire IN
    /\ "ban" \in given => wire["ban"] = "digits"
    /\ "can" \in given => wire["can"] = "digits"
    /\ "ean" \in given => wire["ean"] = "suffixed"
    /\ "delivery_point_id" \in given => wire["delivery_point_id"] = "suffixed"
    /\ "vehicle_id" \in given => wire["vehicle_id"] # NotAnInt /\ wire["vehicle_id"] > 0
    /\ "session_id" \in given => wire["session_id"] # NotAnInt /\ wire["session_id"] > 0
    /\ "page_number" \in given => wire["page_number"] >= 0 /\ wire["page_size"] > 0
    /\ "from_dt" \in given => wire["from_dt"] = "aware" /\ wire["to_dt"] = "aware"
    /\ "year" \in given => wire["year"] \in 2000..2100 /\ wire["month"] \in 1..12
    /\ "day" \in given => wire["day"] \in 1..DaysInMonth(wire["year"], wire["month"])
    /\ ("start_date" \in given) <=> ("end_date" \in given)
    /\ "start_date" \in given => wire["start_date"] <= wire["end_date"]
    /\ "latest" \in given => wire["latest"] /\ "start_date" \notin given

\* Everything the caller gave is in the request.
Lossless(wire, a) ==
    \A f \in DOMAIN a : f \notin DOMAIN wire => a[f] = None \/ (f = "latest" /\ ~a[f])

\* The arguments make a request that means what they say.
Sendable(endpoint, a) == WellFormed(Build(endpoint, a)) /\ Lossless(Build(endpoint, a), a)
=============================================================================
