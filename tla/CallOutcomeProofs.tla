------------------------- MODULE CallOutcomeProofs -------------------------
(* What becomes of a call, for everything a caller may pass and every set of  *)
(* statuses: the arguments a record refuses are those that make no request of *)
(* meaning, and what the caller is told is what the last answer says.        *)
EXTENDS CallOutcome, TLAPS

\* Endpoints whose request carries all of their arguments.
LEMMA WholeSent ==
    ASSUME NEW e, e \notin {"monthly_peaks", "meter_reads"}, NEW a
    PROVE  /\ Build(e, a) = Clean(a)
           /\ Sendable(e, a) <=> WellFormed(Clean(a))
<1>1. DOMAIN Clean(a) = DOMAIN a /\ Sent(e, Clean(a)) = DOMAIN a
  BY DEF Clean, Sent
<1>2. Build(e, a) = Clean(a)
  BY <1>1 DEF Build, Clean
<1> QED BY <1>1, <1>2 DEF Sendable, Lossless

-----------------------------------------------------------------------------
(* Each record of arguments.                                               *)

LEMMA BanSendable ==
    ASSUME NEW a \in [ban : Numbers]
    PROVE  BanArgs(a) <=> WellFormed(Clean(a))
  BY DEF Clean, WellFormed, BanArgs, CleansToDigits, Numbers

LEMMA CanSendable ==
    ASSUME NEW a \in [can : Numbers]
    PROVE  CanArgs(a) <=> WellFormed(Clean(a))
  BY DEF Clean, WellFormed, CanArgs, CleansToDigits, Numbers

LEMMA ContractsSendable ==
    ASSUME NEW a \in [ban : Numbers, include_inactive : BOOLEAN]
    PROVE  ContractsArgs(a) <=> WellFormed(Clean(a))
<1> DEFINE c == Clean(a)
<1>1. DOMAIN c = {"ban", "include_inactive"}
  BY DEF Clean
<1>2. c["ban"] = "digits" <=> CleansToDigits(a.ban)
  BY DEF Clean, CleansToDigits, Numbers
<1> HIDE DEF c
<1>3. WellFormed(c) <=> c["ban"] = "digits"
  BY <1>1 DEF WellFormed
<1> QED BY <1>2, <1>3 DEF ContractsArgs, c

LEMMA EanSendable ==
    ASSUME NEW a \in [ean : Eans]
    PROVE  EanArgs(a) <=> WellFormed(Clean(a))
  BY DEF Clean, WellFormed, EanArgs, ValidEan, Eans

LEMMA SolarSendable ==
    ASSUME NEW a \in [ban : Numbers, delivery_point_id : Eans]
    PROVE  SolarArgs(a) <=> WellFormed(Clean(a))
  BY DEF Clean, WellFormed, SolarArgs, CleansToDigits, ValidDeliveryPointId, Numbers, Eans

LEMMA VehicleSendable ==
    ASSUME NEW a \in [vehicle_id : Id]
    PROVE  VehicleArgs(a) <=> WellFormed(Clean(a))
<1> DEFINE c == Clean(a)
<1>1. DOMAIN c = {"vehicle_id"} /\ c["vehicle_id"] = a.vehicle_id
  BY DEF Clean
<1> HIDE DEF c
<1>2. WellFormed(c) <=> a.vehicle_id # NotAnInt /\ a.vehicle_id > 0
  BY <1>1 DEF WellFormed
<1>3. a.vehicle_id # NotAnInt => (a.vehicle_id > 0 <=> a.vehicle_id >= 1)
  BY DEF Id
<1> QED BY <1>2, <1>3 DEF VehicleArgs, PositiveId, c

LEMMA ChargingSessionSendable ==
    ASSUME NEW a \in [session_id : Id]
    PROVE  ChargingSessionArgs(a) <=> WellFormed(Clean(a))
<1> DEFINE c == Clean(a)
<1>1. DOMAIN c = {"session_id"} /\ c["session_id"] = a.session_id
  BY DEF Clean
<1> HIDE DEF c
<1>2. WellFormed(c) <=> a.session_id # NotAnInt /\ a.session_id > 0
  BY <1>1 DEF WellFormed
<1>3. a.session_id # NotAnInt => (a.session_id > 0 <=> a.session_id >= 1)
  BY DEF Id
<1> QED BY <1>2, <1>3 DEF ChargingSessionArgs, PositiveId, c

LEMMA UsageSendable ==
    ASSUME NEW a \in [ban : Numbers, start_date : Int, end_date : Int]
    PROVE  UsageArgs(a) <=> WellFormed(Clean(a))
<1> DEFINE c == Clean(a)
<1>1. /\ DOMAIN c = {"ban", "start_date", "end_date"}
      /\ c["start_date"] = a.start_date /\ c["end_date"] = a.end_date
  BY DEF Clean
<1>2. c["ban"] = "digits" <=> CleansToDigits(a.ban)
  BY DEF Clean, CleansToDigits, Numbers
<1> HIDE DEF c
<1>3. WellFormed(c) <=> c["ban"] = "digits" /\ c["start_date"] <= c["end_date"]
  BY <1>1 DEF WellFormed
<1> QED BY <1>1, <1>2, <1>3 DEF UsageArgs, DateRange, c

LEMMA CanDateRangeSendable ==
    ASSUME NEW a \in [can : Numbers, start_date : Int, end_date : Int]
    PROVE  CanDateRangeArgs(a) <=> WellFormed(Clean(a))
<1> DEFINE c == Clean(a)
<1>1. /\ DOMAIN c = {"can", "start_date", "end_date"}
      /\ c["start_date"] = a.start_date /\ c["end_date"] = a.end_date
  BY DEF Clean
<1>2. c["can"] = "digits" <=> CleansToDigits(a.can)
  BY DEF Clean, CleansToDigits, Numbers
<1> HIDE DEF c
<1>3. WellFormed(c) <=> c["can"] = "digits" /\ c["start_date"] <= c["end_date"]
  BY <1>1 DEF WellFormed
<1> QED BY <1>1, <1>2, <1>3 DEF CanDateRangeArgs, DateRange, c

LEMMA ChargingSessionsSendable ==
    ASSUME NEW a \in [can : Numbers, start_date : Int, end_date : Int, page_number : Int, page_size : Int]
    PROVE  ChargingSessionsArgs(a) <=> WellFormed(Clean(a))
<1> DEFINE c == Clean(a)
<1>1. DOMAIN c = {"can", "start_date", "end_date", "page_number", "page_size"}
  BY DEF Clean
<1>2. /\ c["start_date"] = a.start_date /\ c["end_date"] = a.end_date
      /\ c["page_number"] = a.page_number /\ c["page_size"] = a.page_size
  BY DEF Clean
<1>3. c["can"] = "digits" <=> CleansToDigits(a.can)
  BY DEF Clean, CleansToDigits, Numbers
<1>4. a.start_date \in Int /\ a.end_date \in Int /\ a.page_number \in Int /\ a.page_size \in Int
  OBVIOUS
<1> HIDE DEF c
<1>5. WellFormed(c) <=> /\ c["can"] = "digits"
                        /\ c["start_date"] <= c["end_date"]
                        /\ c["page_number"] >= 0 /\ c["page_size"] > 0
  BY <1>1 DEF WellFormed
<1>6. WellFormed(c) <=> /\ CleansToDigits(a.can)
                        /\ a.start_date <= a.end_date
                        /\ a.page_number >= 0 /\ a.page_size > 0
  BY <1>2, <1>3, <1>5
<1>7. a.page_size > 0 <=> a.page_size >= 1
  BY <1>4
<1>8. ChargingSessionsArgs(a) <=> WellFormed(c)
  BY <1>6, <1>7 DEF ChargingSessionsArgs, DateRange
<1> QED BY <1>8 DEF c

LEMMA EpexSendable ==
    ASSUME NEW a \in [from_dt : {"aware", "naive"}, to_dt : {"aware", "naive"}]
    PROVE  EpexArgs(a) <=> WellFormed(Clean(a))
  BY DEF Clean, WellFormed, EpexArgs

LEMMA MonthSendable ==
    ASSUME NEW a \in [ban : Numbers, year : Int, month : Int]
    PROVE  MonthArgs(a) <=> WellFormed(Clean(a))
<1> DEFINE c == Clean(a)
<1>1. /\ DOMAIN c = {"ban", "year", "month"}
      /\ c["year"] = a.year /\ c["month"] = a.month
  BY DEF Clean
<1>2. c["ban"] = "digits" <=> CleansToDigits(a.ban)
  BY DEF Clean, CleansToDigits, Numbers
<1> HIDE DEF c
<1>3. WellFormed(c) <=> c["ban"] = "digits" /\ c["year"] \in 2000..2100 /\ c["month"] \in 1..12
  BY <1>1 DEF WellFormed
<1> QED BY <1>1, <1>2, <1>3 DEF MonthArgs, YearMonth, c

\* A day is left out when it is not given, and only then.
LEMMA PeaksSendable ==
    ASSUME NEW a \in [ban : Numbers, year : Int, month : Int, day : Int \cup {None}]
    PROVE  PeaksArgs(a) <=> Sendable("monthly_peaks", a)
<1> DEFINE c == Clean(a)
           w == Build("monthly_peaks", a)
<1>1. /\ DOMAIN c = {"ban", "year", "month", "day"}
      /\ c["year"] = a.year /\ c["month"] = a.month /\ c["day"] = a.day
  BY DEF Clean
<1>2. c["ban"] = "digits" <=> CleansToDigits(a.ban)
  BY DEF Clean, CleansToDigits, Numbers
<1> HIDE DEF c
<1>3. /\ w = [f \in Sent("monthly_peaks", c) |-> c[f]]
      /\ Sent("monthly_peaks", c) = {"ban", "year", "month"} \cup (IF a.day = None THEN {} ELSE {"day"})
  BY <1>1 DEF Build, Sent, PeaksParams, c
<1>4. DOMAIN w = {"ban", "year", "month"} \cup (IF a.day = None THEN {} ELSE {"day"})
  BY <1>3
<1>5. w["ban"] = c["ban"] /\ w["year"] = a.year /\ w["month"] = a.month
  BY <1>1, <1>3
<1>6. a.day # None => w["day"] = a.day
  BY <1>1, <1>3
<1>7. DOMAIN a = {"ban", "year", "month", "day"}
  OBVIOUS
<1> HIDE DEF w
<1>8. Lossless(w, a)
  BY <1>4, <1>7 DEF Lossless
<1>9. WellFormed(w) <=> /\ w["ban"] = "digits"
                        /\ w["year"] \in 2000..2100 /\ w["month"] \in 1..12
                        /\ a.day # None => w["day"] \in 1..DaysInMonth(w["year"], w["month"])
  BY <1>4 DEF WellFormed
<1> QED BY <1>2, <1>5, <1>6, <1>8, <1>9 DEF PeaksArgs, YearMonth, Sendable, w

\* Half a range, and a range next to "latest", would be lost.
LEMMA MeterReadsSendable ==
    ASSUME NEW a \in [ban : Numbers, latest : BOOLEAN, start_date : OptionalDate, end_date : OptionalDate]
    PROVE  MeterReadsArgs(a) <=> Sendable("meter_reads", a)
<1> DEFINE c == Clean(a)
           w == Build("meter_reads", a)
<1>1. /\ DOMAIN c = {"ban", "latest", "start_date", "end_date"}
      /\ c["latest"] = a.latest /\ c["start_date"] = a.start_date /\ c["end_date"] = a.end_date
  BY DEF Clean
<1>2. c["ban"] = "digits" <=> CleansToDigits(a.ban)
  BY DEF Clean, CleansToDigits, Numbers
<1> HIDE DEF c
<1> DEFINE params == IF a.latest THEN {"latest"}
                     ELSE IF a.start_date # None /\ a.end_date # None THEN {"start_date", "end_date"}
                     ELSE {}
<1>3. /\ w = [f \in Sent("meter_reads", c) |-> c[f]]
      /\ Sent("meter_reads", c) = {"ban"} \cup params
  BY <1>1 DEF Build, Sent, MeterReadsParams, c
<1>4. DOMAIN w = {"ban"} \cup params /\ w["ban"] = c["ban"]
  BY <1>3
<1>5. a.latest => w["latest"] = a.latest
  BY <1>1, <1>3
<1>6. ~a.latest /\ a.start_date # None /\ a.end_date # None =>
          w["start_date"] = a.start_date /\ w["end_date"] = a.end_date
  BY <1>1, <1>3
<1>7. DOMAIN a = {"ban", "latest", "start_date", "end_date"} /\ a.latest \in BOOLEAN
  OBVIOUS
<1> HIDE DEF w
<1>8. Lossless(w, a) <=> /\ a.latest => a.start_date = None /\ a.end_date = None
                         /\ (a.start_date = None) <=> (a.end_date = None)
  BY <1>4, <1>7 DEF Lossless
<1>9. WellFormed(w) <=> /\ w["ban"] = "digits"
                        /\ ~a.latest /\ a.start_date # None /\ a.end_date # None
                             => w["start_date"] <= w["end_date"]
  BY <1>4, <1>5, <1>7 DEF WellFormed
<1> QED BY <1>2, <1>4, <1>6, <1>7, <1>8, <1>9 DEF MeterReadsArgs, DateRange, Sendable, w
-----------------------------------------------------------------------------
(* Each row of the catalog.                                                *)

\* An endpoint is in one of the three parts of the catalog, and its getter in the
\* same part of the getters, but for the meter reads.
LEMMA Rows ==
    /\ DOMAIN Catalog = DOMAIN AgreementCatalog \cup DOMAIN ServiceCatalog \cup DOMAIN VehicleCatalog
    /\ \A e \in DOMAIN AgreementCatalog : Catalog[e] = AgreementCatalog[e]
    /\ \A e \in DOMAIN ServiceCatalog : Catalog[e] = ServiceCatalog[e]
    /\ \A e \in DOMAIN VehicleCatalog : Catalog[e] = VehicleCatalog[e]
    /\ \A e \in DOMAIN AgreementGetters : Getters[e] = AgreementGetters[e]
    /\ \A e \in DOMAIN MeterGetters : Getters[e] = MeterGetters[e]
    /\ \A e \in DOMAIN VehicleGetters : Getters[e] = VehicleGetters[e]
<1>1. /\ DOMAIN AgreementCatalog \cap DOMAIN ServiceCatalog = {}
      /\ DOMAIN AgreementCatalog \cap DOMAIN VehicleCatalog = {}
      /\ DOMAIN ServiceCatalog \cap DOMAIN VehicleCatalog = {}
  BY DEF AgreementCatalog, ServiceCatalog, VehicleCatalog
<1>2. /\ DOMAIN AgreementGetters \cap DOMAIN MeterGetters = {}
      /\ DOMAIN AgreementGetters \cap DOMAIN VehicleGetters = {}
      /\ DOMAIN MeterGetters \cap DOMAIN VehicleGetters = {}
  BY DEF AgreementGetters, MeterGetters, VehicleGetters
<1> QED BY <1>1, <1>2 DEF Catalog, Getters, Joined

\* What the getters of each part take.
LEMMA AgreementInputs ==
    /\ AgreementGetters["prices"] = [ban : Numbers]
    /\ AgreementGetters["energy_contracts"] = [ban : Numbers, include_inactive : BOOLEAN]
    /\ AgreementGetters["service_point"] = [ean : Eans]
    /\ AgreementGetters["customer_account_relations"] = {[f \in {} |-> None]}
    /\ AgreementGetters["monthly_peaks"] =
         [ban : Numbers, year : Int, month : Int, day : Int \cup {None}]
    /\ AgreementGetters["happy_hour_event"] = [ban : Numbers]
    /\ AgreementGetters["happy_hour_month_report"] = [ban : Numbers, year : Int, month : Int]
    /\ AgreementGetters["usage_details"] = [ban : Numbers, start_date : Int, end_date : Int]
    /\ AgreementGetters["solar_surplus_forecasts"] = [ban : Numbers, delivery_point_id : Eans]
    /\ AgreementGetters["feature_flag"] = [ban : Numbers]
    /\ AgreementGetters["tou_schedules"] = [ban : Numbers]
    /\ AgreementGetters["account_balance"] = [ban : Numbers]
    /\ AgreementGetters["service_points"] = [ban : Numbers]
  BY DEF AgreementGetters

LEMMA ServiceInputs ==
    /\ MeterGetters["meter_reads"] =
         [ban : Numbers, latest : BOOLEAN, start_date : OptionalDate, end_date : OptionalDate]
    /\ MeterGetters["monthly_billed_budget"] = [ban : Numbers]
    /\ MeterGetters["billing_period_usage"] = [ban : Numbers]
    /\ MeterGetters["budget_billing_plan"] = [ban : Numbers]
    /\ MeterGetters["happy_hour_eligibility"] = [ban : Numbers]
    /\ MeterGetters["happy_hour_service_status"] = [ban : Numbers]
    /\ MeterGetters["activate_happy_hour_service"] = [ban : Numbers]
    /\ MeterGetters["cancel_happy_hour_service"] = [ban : Numbers]
    /\ MeterGetters["energy_score"] = [ban : Numbers, year : Int, month : Int]
  BY DEF MeterGetters

LEMMA VehicleInputs ==
    /\ VehicleGetters["smart_charge_services"] = [can : Numbers]
    /\ VehicleGetters["electric_vehicles"] = [can : Numbers]
    /\ VehicleGetters["vehicle_charge_settings"] = [vehicle_id : Id]
    /\ VehicleGetters["latest_charging_session"] = [vehicle_id : Id]
    /\ VehicleGetters["latest_charging_session_charge_settings"] = [vehicle_id : Id]
    /\ VehicleGetters["charging_sessions"] =
         [can : Numbers, start_date : Int, end_date : Int, page_number : Int, page_size : Int]
    /\ VehicleGetters["charging_session"] = [session_id : Id]
    /\ VehicleGetters["charging_sessions_summary"] =
         [can : Numbers, start_date : Int, end_date : Int]
    /\ VehicleGetters["epex_prices"] = [from_dt : {"aware", "naive"}, to_dt : {"aware", "naive"}]
  BY DEF VehicleGetters

BanEndpoints ==
    {"prices", "happy_hour_event", "tou_schedules", "account_balance", "service_points",
     "monthly_billed_budget", "billing_period_usage", "budget_billing_plan",
     "happy_hour_eligibility", "happy_hour_service_status", "activate_happy_hour_service",
     "cancel_happy_hour_service"}

\* The record of every endpoint, and the arguments its getter passes to it.
LEMMA AgreementRows ==
    ASSUME NEW e \in DOMAIN AgreementCatalog, NEW a \in Getters[e]
    PROVE  \/ e \in BanEndpoints /\ Catalog[e].args = "BanArgs" /\ a \in [ban : Numbers]
           \/ /\ e = "energy_contracts" /\ Catalog[e].args = "ContractsArgs"
              /\ a \in [ban : Numbers, include_inactive : BOOLEAN]
           \/ e = "service_point" /\ Catalog[e].args = "EanArgs" /\ a \in [ean : Eans]
           \/ /\ e = "customer_account_relations" /\ Catalog[e].args = "NoArgs"
              /\ a = [f \in {} |-> None]
           \/ /\ e = "monthly_peaks" /\ Catalog[e].args = "PeaksArgs"
              /\ a \in [ban : Numbers, year : Int, month : Int, day : Int \cup {None}]
           \/ /\ e = "happy_hour_month_report" /\ Catalog[e].args = "MonthArgs"
              /\ a \in [ban : Numbers, year : Int, month : Int]
           \/ /\ e = "usage_details" /\ Catalog[e].args = "UsageArgs"
              /\ a \in [ban : Numbers, start_date : Int, end_date : Int]
           \/ /\ e = "solar_surplus_forecasts" /\ Catalog[e].args = "SolarArgs"
              /\ a \in [ban : Numbers, delivery_point_id : Eans]
           \/ e = "feature_flag" /\ Catalog[e].args = "FlagArgs" /\ a \in [ban : Numbers]
           \/ /\ e = "meter_reads" /\ Catalog[e].args = "MeterReadsArgs"
              /\ a \in [ban : Numbers, latest : BOOLEAN, start_date : OptionalDate,
                        end_date : OptionalDate]
<1>1. /\ \A r : Endpoint(r).args = r
      /\ Catalog[e] = AgreementCatalog[e]
  BY Rows DEF Endpoint
<1>2. e \in DOMAIN AgreementGetters \cup {"meter_reads"}
  BY DEF AgreementCatalog, AgreementGetters
<1>3. e # "meter_reads" => Getters[e] = AgreementGetters[e]
  BY <1>2, Rows
<1>4. e = "meter_reads" => Getters[e] = MeterGetters[e]
  BY Rows DEF MeterGetters
<1>5. CASE e \in {"prices", "happy_hour_event", "tou_schedules", "account_balance", "service_points"}
  <2>1. Catalog[e].args = "BanArgs"
    BY <1>1, <1>5 DEF AgreementCatalog
  <2>2. Getters[e] = [ban : Numbers]
    BY <1>3, <1>5, AgreementInputs
  <2> QED BY <1>5, <2>1, <2>2 DEF BanEndpoints
<1>6. CASE e = "energy_contracts"
  <2>1. Catalog[e].args = "ContractsArgs"
    BY <1>1, <1>6 DEF AgreementCatalog
  <2> QED BY <1>3, <1>6, AgreementInputs, <2>1
<1>7. CASE e = "service_point"
  <2>1. Catalog[e].args = "EanArgs"
    BY <1>1, <1>7 DEF AgreementCatalog
  <2> QED BY <1>3, <1>7, AgreementInputs, <2>1
<1>8. CASE e = "customer_account_relations"
  <2>1. Catalog[e].args = "NoArgs"
    BY <1>1, <1>8 DEF AgreementCatalog
  <2> QED BY <1>3, <1>8, AgreementInputs, <2>1
<1>9. CASE e = "monthly_peaks"
  <2>1. Catalog[e].args = "PeaksArgs"
    BY <1>1, <1>9 DEF AgreementCatalog
  <2> QED BY <1>3, <1>9, AgreementInputs, <2>1
<1>10. CASE e = "happy_hour_month_report"
  <2>1. Catalog[e].args = "MonthArgs"
    BY <1>1, <1>10 DEF AgreementCatalog
  <2> QED BY <1>3, <1>10, AgreementInputs, <2>1
<1>11. CASE e = "usage_details"
  <2>1. Catalog[e].args = "UsageArgs"
    BY <1>1, <1>11 DEF AgreementCatalog
  <2> QED BY <1>3, <1>11, AgreementInputs, <2>1
<1>12. CASE e = "solar_surplus_forecasts"
  <2>1. Catalog[e].args = "SolarArgs"
    BY <1>1, <1>12 DEF AgreementCatalog
  <2> QED BY <1>3, <1>12, AgreementInputs, <2>1
<1>13. CASE e = "feature_flag"
  <2>1. Catalog[e].args = "FlagArgs"
    BY <1>1, <1>13 DEF AgreementCatalog
  <2> QED BY <1>3, <1>13, AgreementInputs, <2>1
<1>14. CASE e = "meter_reads"
  <2>1. Catalog[e].args = "MeterReadsArgs"
    BY <1>1, <1>14 DEF AgreementCatalog
  <2> QED BY <1>4, <1>14, ServiceInputs, <2>1
<1> QED BY <1>5, <1>6, <1>7, <1>8, <1>9, <1>10, <1>11, <1>12, <1>13, <1>14 DEF AgreementCatalog

LEMMA ServiceRows ==
    ASSUME NEW e \in DOMAIN ServiceCatalog, NEW a \in Getters[e]
    PROVE  \/ e \in BanEndpoints /\ Catalog[e].args = "BanArgs" /\ a \in [ban : Numbers]
           \/ /\ e = "energy_score" /\ Catalog[e].args = "MonthArgs"
              /\ a \in [ban : Numbers, year : Int, month : Int]
<1>1. Catalog[e] = ServiceCatalog[e]
  BY Rows
<1>2. e \in DOMAIN MeterGetters
  BY DEF ServiceCatalog, MeterGetters
<1>3. Getters[e] = MeterGetters[e]
  BY <1>2, Rows
<1>4. CASE e = "energy_score"
  <2>1. Catalog[e].args = "MonthArgs"
    BY <1>1, <1>4 DEF ServiceCatalog, Endpoint
  <2> QED BY <1>3, <1>4, <2>1, ServiceInputs
<1>5. CASE e # "energy_score"
  <2>1. Catalog[e].args = "BanArgs"
    BY <1>1, <1>5 DEF ServiceCatalog, Endpoint
  <2>2. e \in (BanEndpoints \cap DOMAIN MeterGetters) \ {"meter_reads"}
    BY <1>5 DEF ServiceCatalog, MeterGetters, BanEndpoints
  <2>3. Getters[e] = [ban : Numbers]
    BY <1>3, <1>5, ServiceInputs DEF ServiceCatalog
  <2> QED BY <2>1, <2>2, <2>3
<1> QED BY <1>4, <1>5

LEMMA VehicleRows ==
    ASSUME NEW e \in DOMAIN VehicleCatalog, NEW a \in Getters[e]
    PROVE  \/ Catalog[e].args = "CanArgs" /\ a \in [can : Numbers]
           \/ Catalog[e].args = "VehicleArgs" /\ a \in [vehicle_id : Id]
           \/ /\ Catalog[e].args = "ChargingSessionsArgs"
              /\ a \in [can : Numbers, start_date : Int, end_date : Int, page_number : Int,
                        page_size : Int]
           \/ Catalog[e].args = "ChargingSessionArgs" /\ a \in [session_id : Id]
           \/ /\ Catalog[e].args = "CanDateRangeArgs"
              /\ a \in [can : Numbers, start_date : Int, end_date : Int]
           \/ /\ Catalog[e].args = "EpexArgs"
              /\ a \in [from_dt : {"aware", "naive"}, to_dt : {"aware", "naive"}]
<1>1. /\ \A r : Endpoint(r).args = r
      /\ Catalog[e] = VehicleCatalog[e]
  BY Rows DEF Endpoint
<1>2. e \in DOMAIN VehicleGetters
  BY DEF VehicleCatalog, VehicleGetters
<1>3. Getters[e] = VehicleGetters[e]
  BY <1>2, Rows
<1>4. CASE e \in {"smart_charge_services", "electric_vehicles"}
  <2>1. Catalog[e].args = "CanArgs"
    BY <1>1, <1>4 DEF VehicleCatalog
  <2> QED BY <1>3, <1>4, <2>1, VehicleInputs
<1>5. CASE e \in {"vehicle_charge_settings", "latest_charging_session",
                "latest_charging_session_charge_settings"}
  <2>1. Catalog[e].args = "VehicleArgs"
    BY <1>1, <1>5 DEF VehicleCatalog
  <2> QED BY <1>3, <1>5, <2>1, VehicleInputs
<1>6. CASE e = "charging_sessions"
  <2>1. Catalog[e].args = "ChargingSessionsArgs"
    BY <1>1, <1>6 DEF VehicleCatalog
  <2> QED BY <1>3, <1>6, <2>1, VehicleInputs
<1>7. CASE e = "charging_session"
  <2>1. Catalog[e].args = "ChargingSessionArgs"
    BY <1>1, <1>7 DEF VehicleCatalog
  <2> QED BY <1>3, <1>7, <2>1, VehicleInputs
<1>8. CASE e = "charging_sessions_summary"
  <2>1. Catalog[e].args = "CanDateRangeArgs"
    BY <1>1, <1>8 DEF VehicleCatalog
  <2> QED BY <1>3, <1>8, <2>1, VehicleInputs
<1>9. CASE e = "epex_prices"
  <2>1. Catalog[e].args = "EpexArgs"
    BY <1>1, <1>9 DEF VehicleCatalog, Endpoint
  <2> QED BY <1>3, <1>9, <2>1, VehicleInputs
<1> QED BY <1>4, <1>5, <1>6, <1>7, <1>8, <1>9 DEF VehicleCatalog

LEMMA NothingSendable ==
    ASSUME NEW a, a = [f \in {} |-> None]
    PROVE  WellFormed(Clean(a))
<1> DEFINE c == Clean(a)
<1>1. DOMAIN c = {}
  BY DEF Clean
<1> HIDE DEF c
<1>2. WellFormed(c)
  BY <1>1 DEF WellFormed
<1> QED BY <1>2 DEF c

\* "Invalid arguments raise ValueError before any request is sent": the record an
\* endpoint is called with refuses exactly the arguments that would make a request
\* the API cannot make sense of, or one that says less than the caller did.
THEOREM RefusesExactlyTheUnsendable ==
    ASSUME NEW e \in DOMAIN Catalog, NEW a \in Getters[e]
    PROVE  Accepts(Catalog[e].args, a) <=> Sendable(e, a)
<1>1. CASE e \in DOMAIN AgreementCatalog
  <2>1. CASE e = "monthly_peaks"
    BY <1>1, <2>1, AgreementRows, PeaksSendable DEF Accepts, BanEndpoints
  <2>2. CASE e = "meter_reads"
    BY <1>1, <2>2, AgreementRows, MeterReadsSendable DEF Accepts, BanEndpoints
  <2>3. CASE e \notin {"monthly_peaks", "meter_reads"}
    <3>1. Sendable(e, a) <=> WellFormed(Clean(a))
      BY <2>3, WholeSent
    <3>2. Accepts(Catalog[e].args, a) <=> WellFormed(Clean(a))
      BY <1>1, <2>3, AgreementRows, BanSendable, ContractsSendable, EanSendable, NothingSendable,
         MonthSendable, UsageSendable, SolarSendable
         DEF Accepts, FlagArgs, BanArgs
    <3> QED BY <3>1, <3>2
  <2> QED BY <2>1, <2>2, <2>3
<1>2. CASE e \in DOMAIN ServiceCatalog
  <2>1. Sendable(e, a) <=> WellFormed(Clean(a))
    BY <1>2, ServiceRows, WholeSent DEF BanEndpoints
  <2>2. Accepts(Catalog[e].args, a) <=> WellFormed(Clean(a))
    BY <1>2, ServiceRows, BanSendable, MonthSendable DEF Accepts
  <2> QED BY <2>1, <2>2
<1>3. CASE e \in DOMAIN VehicleCatalog
  <2>1. Sendable(e, a) <=> WellFormed(Clean(a))
    BY <1>3, WholeSent DEF VehicleCatalog
  <2>2. Accepts(Catalog[e].args, a) <=> WellFormed(Clean(a))
    BY <1>3, VehicleRows, CanSendable, VehicleSendable, ChargingSessionsSendable,
       ChargingSessionSendable, CanDateRangeSendable, EpexSendable DEF Accepts
  <2> QED BY <2>1, <2>2
<1> QED BY <1>1, <1>2, <1>3, Rows

-----------------------------------------------------------------------------
(* The outcome of a call.                                                  *)

\* What holds on the way: nobody has answered a new call, a call that comes out
\* of a refresh has a token, and one that goes on after the API's answer was
\* refused by it.
OutcomeInv ==
    /\ last.answer \in Answers
    /\ stage = "new" => last = [from |-> "nobody", answer |-> Broken]
    /\ stage = "refreshed" => access_token = "live"
    /\ stage # "done" /\ last.from = "api" => last.answer.status = 401
    /\ acted \in {0, 1} /\ (stage # "done" => acted = 0)
    /\ ReauthIffRefused
    /\ NotPublishedIsThe404
    /\ OutageNamesLastAnswer

\* An answer is a failure or has a status, and is not both.
LEMMA AnswerShape ==
    ASSUME NEW a \in Answers
    PROVE  \/ a = Timeout
           \/ a = Broken
           \/ a \notin {Timeout, Broken} /\ a.status \in 100..599 /\ a.body \in Bodies
  <1>1. CASE a \in [status : Statuses, body : Bodies]
    <2>1. a.status \in 100..599 /\ a.body \in Bodies
      BY <1>1, OutcomeAssumption
    <2>2. a.status # 0
      BY <2>1
    <2> QED BY <2>1, <2>2 DEF Timeout, Broken
  <1> QED BY <1>1 DEF Answers

\* What an answer of the token endpoint comes to.
LEMMA TokenOutcome ==
    ASSUME NEW a \in Answers
    PROVE  LET o == ExchangeToken(a)
               refused == \/ a.status = 401
                          \/ a.status \in {400, 403} /\ a.body = "invalid_grant"
                          \/ a.status \in 1..399 /\ a.body \in JsonObjects \ {"pair"}
           IN  /\ o.class = "authentication" => refused
               /\ refused => o.class \in {"authentication", "UnicodeDecodeError"}
               /\ o.class \notin {"not_published", "closed", "ValueError"}
               /\ o.class = "communication" => o.status = a.status
               /\ o.class = "timeout" <=> a = Timeout
  <1>1. CASE a = Timeout
    <2>1. ExchangeToken(a) = Error("timeout", 0)
      BY <1>1 DEF ExchangeToken, NoAnswer
    <2>2. a.status = 0
      BY <1>1 DEF Timeout
    <2> QED BY <1>1, <2>1, <2>2 DEF Error
  <1>2. CASE a = Broken
    BY <1>2 DEF ExchangeToken, NoAnswer, Error, Timeout, Broken, JsonObjects
  <1>3. CASE a \notin {Timeout, Broken} /\ a.status \in 100..599 /\ a.body \in Bodies
    <2>1. CASE a.status >= 400
      <3>1. ExchangeToken(a) = IF a.body = "bytes" THEN Error("UnicodeDecodeError", 0)
                               ELSE TokenEndpointError(a.status, a.body)
        BY <1>3, <2>1 DEF ExchangeToken
      <3> QED BY <1>3, <2>1, <3>1 DEF TokenEndpointError, Error, JsonObjects
    <2>2. CASE a.status < 400
      <3>1. ExchangeToken(a) = IF a.body \in JsonObjects \ {"pair"}
                               THEN Error("authentication", 0) ELSE JsonObject(a.body)
        BY <1>3, <2>2 DEF ExchangeToken
      <3>2. a.status \in 1..399 /\ a.status \notin {400, 401, 403} /\ a # Timeout
        <4>1. a.status \in Nat /\ 100 <= a.status /\ a.status < 400
          BY <1>3, <2>2
        <4>2. a # Timeout
          BY <1>3
        <4> QED BY <4>1, <4>2
      <3>3. CASE a.body \in JsonObjects \ {"pair"}
        <4>1. ExchangeToken(a).class = "authentication"
          BY <3>1, <3>3 DEF Error
        <4> QED BY <3>2, <3>3, <4>1
      <3>4. CASE a.body \notin JsonObjects \ {"pair"}
        <4>1. ExchangeToken(a).class \in {"result", "invalid_response"}
          BY <3>1, <3>4 DEF JsonObject, Result, Error
        <4> QED BY <3>2, <3>4, <4>1
      <3> QED BY <3>3, <3>4
    <2> QED BY <1>3, <2>1, <2>2
  <1> QED BY <1>1, <1>2, <1>3, AnswerShape

\* What an answer of the API comes to.
LEMMA ApiOutcome ==
    ASSUME NEW a \in Answers
    PROVE  LET o == RequestJson(a)
           IN  /\ o.class = "authentication" <=> a.status = 401
               /\ o.class \notin {"not_published", "closed", "UnicodeDecodeError", "ValueError"}
               /\ o.class = "communication" => o.status = a.status
               /\ o.class = "timeout" <=> a = Timeout
               /\ o.class = "timeout" => o.status = 0
               /\ a.status = 404 => o.class = "communication"
  <1>1. CASE a = Timeout
    <2>1. RequestJson(a) = Error("timeout", 0)
      BY <1>1 DEF RequestJson, NoAnswer
    <2>2. a.status = 0
      BY <1>1 DEF Timeout
    <2> QED BY <1>1, <2>1, <2>2 DEF Error
  <1>2. CASE a = Broken
    BY <1>2 DEF RequestJson, NoAnswer, Error, Timeout, Broken
  <1>3. CASE a \notin {Timeout, Broken} /\ a.status \in 100..599 /\ a.body \in Bodies
    <2>1. CASE a.status >= 400
      BY <1>3, <2>1 DEF RequestJson, Error
    <2>2. CASE a.status < 400 /\ ~Catalog[endpoint].expect_body
      <3>1. RequestJson(a) = IF a.status \in 200..299 THEN Result ELSE Error("invalid_response", 0)
        BY <1>3, <2>2 DEF RequestJson
      <3> QED BY <1>3, <2>2, <3>1 DEF Result, Error
    <2>3. CASE a.status < 400 /\ Catalog[endpoint].expect_body
      <3>1. RequestJson(a) = JsonObject(a.body)
        BY <1>3, <2>3 DEF RequestJson
      <3> QED BY <1>3, <2>3, <3>1 DEF JsonObject, Result, Error
    <2> QED BY <1>3, <2>1, <2>2, <2>3
  <1> QED BY <1>1, <1>2, <1>3, AnswerShape

\* What the call may tell before it has an answer.
LEMMA ToldEarly ==
    ASSUME NEW class \in {"closed", "authentication"}, Tell(Error(class, 0))
    PROVE  stage' = "done" /\ outcome'.class = class
  BY DEF Tell, Error

LEMMA AskOutcome ==
    ASSUME NEW s, AskForTokens(s)
    PROVE  stage' = s \/ (stage' = "done" /\ outcome'.class \in {"closed", "authentication"})
  BY DEF AskForTokens, Tell, Error

LEMMA SendOutcome ==
    ASSUME SendRequest
    PROVE  \/ stage' = "sent"
           \/ stage' = "done" /\ outcome'.class = "closed"
           \/ stage' = "done" /\ outcome'.class = "authentication" /\ ~HeadersCanBeBuilt
  <1>1. CASE Tell(Error("closed", 0))
    BY <1>1, ToldEarly
  <1>2. CASE ~HeadersCanBeBuilt /\ Tell(Error("authentication", 0))
    BY <1>2, ToldEarly
  <1> QED BY <1>1, <1>2 DEF SendRequest

-----------------------------------------------------------------------------
\* No library call is told anything but the outcome of an answer, or that the
\* client is closed or holds no token.
LEMMA OutcomeInductive == OutcomeSpec => []OutcomeInv
<1>1. OutcomeInit => OutcomeInv
  BY DEF OutcomeInit, OutcomeInv, ReauthIffRefused, NotPublishedIsThe404, OutageNamesLastAnswer,
         Answers
<1>2. OutcomeInv /\ [OutcomeNext]_callVars => OutcomeInv'
  <2> SUFFICES ASSUME OutcomeInv, [OutcomeNext]_callVars
               PROVE  OutcomeInv'
    OBVIOUS
  <2>0. CASE ArgumentsRefused
    <3>1. /\ stage' = "done" /\ outcome'.class = "ValueError" /\ last' = last /\ acted' = acted
          /\ last = [from |-> "nobody", answer |-> Broken]
      BY <2>0 DEF ArgumentsRefused, Tell, Error, OutcomeInv
    <3>2. last'.from = "nobody" /\ last'.answer # Timeout
      BY <3>1 DEF Timeout, Broken
    <3> QED BY <3>1, <3>2
      DEF OutcomeInv, ReauthIffRefused, NotPublishedIsThe404, OutageNamesLastAnswer, Refusal
  <2>1. CASE CallStarts
    <3>1. /\ last = [from |-> "nobody", answer |-> Broken] /\ last' = last
          /\ access_token' = access_token /\ acted' = acted /\ stage # "done"
      BY <2>1 DEF CallStarts, tokenVars, OutcomeInv
    <3>2. last'.from = "nobody" /\ last'.answer \in Answers /\ last'.answer # Timeout
      BY <3>1 DEF Answers, Timeout, Broken
    <3>3. \/ stage' \in {"freshening", "sent"}
          \/ stage' = "done" /\ outcome'.class \in {"closed", "authentication"}
      <4>1. CASE Tell(Error("closed", 0))
        BY <4>1, ToldEarly
      <4>2. CASE AskForTokens("freshening")
        BY <4>2, AskOutcome
      <4>3. CASE SendRequest
        BY <4>3, SendOutcome
      <4> QED BY <2>1, <4>1, <4>2, <4>3 DEF CallStarts
    <3> QED BY <3>1, <3>2, <3>3
      DEF OutcomeInv, ReauthIffRefused, NotPublishedIsThe404, OutageNamesLastAnswer, Refusal
  <2>2. CASE CallContinues
    <3>1. stage = "refreshed" /\ access_token = "live"
      BY <2>2 DEF CallContinues, OutcomeInv
    <3>2. last' = last /\ endpoint' = endpoint /\ acted' = acted
      BY <2>2 DEF CallContinues, requestVars
    <3>3. stage' = "sent" \/ (stage' = "done" /\ outcome'.class = "closed")
      BY <2>2, <3>1, SendOutcome DEF CallContinues, HeadersCanBeBuilt
    <3> QED BY <3>1, <3>2, <3>3
      DEF OutcomeInv, ReauthIffRefused, NotPublishedIsThe404, OutageNamesLastAnswer, Refusal
  <2>3. ASSUME NEW a \in Answers, TokensAnswered(a)
        PROVE  OutcomeInv'
    <3>1. last'.from = "tokens" /\ last'.answer = a /\ acted' = acted /\ stage # "done"
      BY <2>3 DEF TokensAnswered
    <3>2. CASE ExchangeToken(a) = Result
      BY <2>3, <3>1, <3>2 DEF TokensAnswered,
         OutcomeInv, ReauthIffRefused, NotPublishedIsThe404, OutageNamesLastAnswer, Refusal
    <3>3. CASE ExchangeToken(a) # Result
      <4>1. stage' = "done" /\ outcome' = ExchangeToken(a)
        BY <2>3, <3>3 DEF TokensAnswered, Tell, RefreshError
      <4>2. ReauthIffRefused'
        BY <3>1, <4>1, TokenOutcome DEF ReauthIffRefused, Refusal
      <4>3. NotPublishedIsThe404' /\ OutageNamesLastAnswer'
        BY <3>1, <4>1, TokenOutcome DEF NotPublishedIsThe404, OutageNamesLastAnswer
      <4> QED BY <3>1, <4>1, <4>2, <4>3 DEF OutcomeInv
    <3> QED BY <3>2, <3>3
  <2>4. CASE TokensReused
    BY <2>4 DEF TokensReused, requestVars,
       OutcomeInv, ReauthIffRefused, NotPublishedIsThe404, OutageNamesLastAnswer, Refusal
  <2>5. CASE TokensFindClosed
    <3>1. stage # "done" /\ stage' = "done" /\ outcome'.class = "closed"
      BY <2>5 DEF TokensFindClosed, Tell, Error
    <3>2. last' = last /\ endpoint' = endpoint /\ acted' = acted
      BY <2>5 DEF TokensFindClosed, requestVars
    <3> QED BY <3>1, <3>2
      DEF OutcomeInv, ReauthIffRefused, NotPublishedIsThe404, OutageNamesLastAnswer, Refusal
  <2>6. ASSUME NEW a \in Answers, ApiAnswered(a)
        PROVE  OutcomeInv'
    <3> DEFINE o == RequestJson(a)
    <3>1. last'.from = "api" /\ last'.answer = a /\ endpoint' = endpoint /\ stage # "done"
      BY <2>6 DEF ApiAnswered, requestVars
    <3>0. acted' \in {0, 1} /\ (a.status = 401 => acted' = 0)
      BY <2>6, <3>1 DEF ApiAnswered, MayHaveActed, OutcomeInv
    <3>2. CASE o.class = "authentication" /\ attempt = 0 /\ with_auth
      <4>1. a.status = 401 /\ a # Timeout
        BY <3>2, ApiOutcome
      <4>2. \/ stage' = "refreshing"
            \/ stage' = "done" /\ outcome'.class \in {"closed", "authentication"}
        BY <2>6, <3>2, AskOutcome DEF ApiAnswered
      <4> QED BY <3>0, <3>1, <4>1, <4>2
        DEF OutcomeInv, ReauthIffRefused, NotPublishedIsThe404, OutageNamesLastAnswer, Refusal
    <3>3. CASE ~(o.class = "authentication" /\ attempt = 0 /\ with_auth)
      <4>1. stage' = "done"
            /\ outcome' = IF o.class \in {"communication", "timeout"} THEN RaiseError(o) ELSE o
        BY <2>6, <3>3 DEF ApiAnswered, Tell
      <4>2. CASE Catalog[endpoint].not_published /\ a.status = 404
        BY <3>0, <3>1, <4>1, <4>2, ApiOutcome DEF RaiseError, Error,
           OutcomeInv, ReauthIffRefused, NotPublishedIsThe404, OutageNamesLastAnswer, Refusal
      <4>3. CASE ~(Catalog[endpoint].not_published /\ a.status = 404)
        <5>1. outcome' = o
          BY <4>1, <4>3, ApiOutcome DEF RaiseError
        <5>2. ReauthIffRefused'
          BY <3>1, <5>1, ApiOutcome DEF ReauthIffRefused, Refusal
        <5>3. NotPublishedIsThe404' /\ OutageNamesLastAnswer'
          BY <3>1, <4>3, <5>1, ApiOutcome DEF NotPublishedIsThe404, OutageNamesLastAnswer
        <5> QED BY <3>0, <3>1, <4>1, <5>2, <5>3 DEF OutcomeInv
      <4> QED BY <4>2, <4>3
    <3> QED BY <3>2, <3>3
  <2>7. CASE PairAdopted
    BY <2>7 DEF PairAdopted, requestVars,
       OutcomeInv, ReauthIffRefused, NotPublishedIsThe404, OutageNamesLastAnswer, Refusal
  <2>8. CASE ClientCloses
    BY <2>8 DEF ClientCloses, tokenVars, requestVars,
       OutcomeInv, ReauthIffRefused, NotPublishedIsThe404, OutageNamesLastAnswer, Refusal
  <2>9. CASE UNCHANGED callVars
    <3>1. /\ stage' = stage /\ access_token' = access_token
          /\ endpoint' = endpoint /\ outcome' = outcome /\ last' = last /\ acted' = acted
      BY <2>9 DEF callVars
    <3>2. ReauthIffRefused /\ NotPublishedIsThe404 /\ OutageNamesLastAnswer
      BY DEF OutcomeInv
    <3>3. ReauthIffRefused'
      <4>1. Refusal' <=> Refusal
        BY <3>1 DEF Refusal
      <4> QED BY <3>1, <3>2, <4>1 DEF ReauthIffRefused
    <3>4. NotPublishedIsThe404'
      BY <3>1, <3>2 DEF NotPublishedIsThe404
    <3>5. OutageNamesLastAnswer'
      BY <3>1, <3>2 DEF OutageNamesLastAnswer
    <3> QED BY <3>1, <3>3, <3>4, <3>5 DEF OutcomeInv
  <2> QED BY <2>0, <2>1, <2>2, <2>3, <2>4, <2>5, <2>6, <2>7, <2>8, <2>9 DEF OutcomeNext
<1> QED BY <1>1, <1>2, PTL DEF OutcomeSpec

\* The caller is sent to a new login only if a server refused the credentials
\* or none were held, and an outage of either server is never taken for that.
THEOREM OutageIsNoReauth == OutcomeSpec => []ReauthIffRefused
<1>1. OutcomeInv => ReauthIffRefused
  BY DEF OutcomeInv
<1> QED BY <1>1, OutcomeInductive, PTL

\* "Not yet published" is said of the price service's 404 and nothing else.
THEOREM NotPublishedIsExact == OutcomeSpec => []NotPublishedIsThe404
<1>1. OutcomeInv => NotPublishedIsThe404
  BY DEF OutcomeInv
<1> QED BY <1>1, OutcomeInductive, PTL

\* A communication error names the status, and a timeout the failure, of the
\* answer the call ended on.
THEOREM OutageIsNamed == OutcomeSpec => []OutageNamesLastAnswer
<1>1. OutcomeInv => OutageNamesLastAnswer
  BY DEF OutcomeInv
<1> QED BY <1>1, OutcomeInductive, PTL

\* The API carries out a call once at most: a second request follows a refused one.
THEOREM ActedOnce == OutcomeSpec => []ActsAtMostOnce
<1>1. OutcomeInv => ActsAtMostOnce
  BY DEF OutcomeInv, ActsAtMostOnce
<1> QED BY <1>1, OutcomeInductive, PTL

-----------------------------------------------------------------------------
(* What else the exchanges of a call may raise.  A call is done here when its  *)
(* answer has been told, or is handed to the endpoint's parser: what a parser  *)
(* raises on a good answer (the OverflowError of a number beyond a double, say) *)
(* comes after that, and is not in these claims.                             *)

\* Up to the parser, nothing makes a call raise anything but a library error or
\* ValueError, with one exception: an HTTP error of the token endpoint whose body is
\* not text.  (The body is decoded in _oauth.py before the status is looked at; the
\* transport decodes no body of the API's errors.)
OnlyUndecodableEscapes ==
    stage = "done" =>
        \/ outcome.class \in LibraryErrors \cup {"result", "ValueError"}
        \/ /\ outcome.class = "UnicodeDecodeError"
           /\ last.from = "tokens" /\ last.answer.status >= 400 /\ last.answer.body = "bytes"

\* A failed exchange is told as a library error, unless it cannot be decoded.
LEMMA TokenErrors ==
    ASSUME NEW a \in Answers
    PROVE  \/ ExchangeToken(a).class \in LibraryErrors \cup {"result"}
           \/ /\ ExchangeToken(a).class = "UnicodeDecodeError"
              /\ a.status >= 400 /\ a.body = "bytes"
<1>1. CASE a \in {Timeout, Broken}
  BY <1>1 DEF ExchangeToken, NoAnswer, Error, LibraryErrors
<1>2. CASE a \notin {Timeout, Broken} /\ a.status >= 400
  BY <1>2 DEF ExchangeToken, TokenEndpointError, Error, LibraryErrors
<1>3. CASE a \notin {Timeout, Broken} /\ ~(a.status >= 400)
  BY <1>3 DEF ExchangeToken, JsonObject, Result, Error, LibraryErrors
<1> QED BY <1>1, <1>2, <1>3

\* An answer of the API is told as a library error or a result, remapped or not.
LEMMA ApiErrors ==
    ASSUME NEW a
    PROVE  /\ RequestJson(a).class \in LibraryErrors \cup {"result"}
           /\ RaiseError(RequestJson(a)).class \in LibraryErrors \cup {"result"}
<1>1. RequestJson(a).class \in LibraryErrors \cup {"result"}
  BY DEF RequestJson, NoAnswer, JsonObject, Result, Error, LibraryErrors
<1> QED BY <1>1 DEF RaiseError, Error, LibraryErrors

\* For every set of statuses, every endpoint and all arguments, the escape of
\* UnicodeDecodeError that the run UndecodableError shows is the only one of the
\* requests a call makes, its own and those for tokens.  It says nothing of the
\* parser that a good answer is handed to.
THEOREM ExchangesRaiseNothingElse == OutcomeSpec => []OnlyUndecodableEscapes
<1> DEFINE Told == outcome.class \in LibraryErrors \cup {"result", "ValueError"}
<1>1. OutcomeInit => OnlyUndecodableEscapes
  BY DEF OutcomeInit, OnlyUndecodableEscapes
<1>2. OnlyUndecodableEscapes /\ [OutcomeNext]_callVars => OnlyUndecodableEscapes'
  <2> SUFFICES ASSUME OnlyUndecodableEscapes, [OutcomeNext]_callVars, stage' = "done"
               PROVE  Told' \/ OnlyUndecodableEscapes'
    BY DEF OnlyUndecodableEscapes
  <2>1. CASE ArgumentsRefused
    BY <2>1 DEF ArgumentsRefused, Tell, Error
  <2>2. CASE CallStarts
    <3>1. CASE Tell(Error("closed", 0))
      BY <3>1, ToldEarly DEF LibraryErrors
    <3>2. CASE AskForTokens("freshening")
      BY <3>2, AskOutcome DEF LibraryErrors
    <3>3. CASE SendRequest
      BY <3>3, SendOutcome DEF LibraryErrors
    <3> QED BY <2>2, <3>1, <3>2, <3>3 DEF CallStarts
  <2>3. CASE CallContinues
    BY <2>3, SendOutcome DEF CallContinues, LibraryErrors
  <2>4. ASSUME NEW a \in Answers, TokensAnswered(a) PROVE OnlyUndecodableEscapes'
    <3>1. last' = [from |-> "tokens", answer |-> a] /\ outcome' = ExchangeToken(a)
      BY <2>4 DEF TokensAnswered, Tell, RefreshError
    <3> QED BY <3>1, TokenErrors DEF OnlyUndecodableEscapes
  <2>5. CASE TokensReused
    BY <2>5 DEF TokensReused
  <2>6. CASE TokensFindClosed
    BY <2>6 DEF TokensFindClosed, Tell, Error, LibraryErrors
  <2>7. ASSUME NEW a \in Answers, ApiAnswered(a) PROVE Told'
    <3>1. CASE AskForTokens("refreshing")
      BY <3>1, AskOutcome DEF LibraryErrors
    <3>2. CASE outcome' = RaiseError(RequestJson(a)) \/ outcome' = RequestJson(a)
      BY <3>2, ApiErrors
    <3> QED BY <2>7, <3>1, <3>2 DEF ApiAnswered, Tell
  <2>8. CASE PairAdopted \/ ClientCloses \/ UNCHANGED callVars
    BY <2>8 DEF PairAdopted, ClientCloses, callVars, OnlyUndecodableEscapes
  <2> QED BY <2>1, <2>2, <2>3, <2>4, <2>5, <2>6, <2>7, <2>8 DEF OutcomeNext
<1> QED BY <1>1, <1>2, PTL DEF OutcomeSpec

-----------------------------------------------------------------------------
(* Arguments and requests.                                                 *)

\* The request of a call under way is made of accepted arguments; a call is told
\* of a ValueError if they are not, and is told so before it asks anybody.
SendInv ==
    /\ endpoint \in DOMAIN Catalog /\ input \in Getters[endpoint]
    /\ stage = "new" => last.from = "nobody"
    /\ stage \notin {"new", "done"} =>
          Accepts(Catalog[endpoint].args, input) /\ wire = Build(endpoint, input)
    /\ stage = "done" =>
          /\ outcome.class = "ValueError" <=> ~Accepts(Catalog[endpoint].args, input)
          /\ outcome.class = "ValueError" => last.from = "nobody"

\* A step of a call under way that tells it anything tells it no ValueError.
LEMMA UnderWay ==
    ASSUME SendInv, stage \notin {"new", "done"}, UNCHANGED requestVars, stage' # "new",
           stage' = "done" => outcome'.class # "ValueError"
    PROVE  SendInv'
  BY DEF SendInv, requestVars

LEMMA SendInductive == OutcomeSpec => []SendInv
<1>1. OutcomeInit => SendInv
  BY OutcomeAssumption DEF OutcomeInit, SendInv
<1>2. SendInv /\ [OutcomeNext]_callVars => SendInv'
  <2> SUFFICES ASSUME SendInv, [OutcomeNext]_callVars
               PROVE  SendInv'
    OBVIOUS
  <2>1. CASE ArgumentsRefused
    BY <2>1 DEF ArgumentsRefused, Tell, Error, requestVars, SendInv
  <2>2. CASE CallStarts
    <3>1. stage = "new" /\ Accepts(Catalog[endpoint].args, input) /\ wire' = Build(endpoint, input)
          /\ endpoint' = endpoint /\ input' = input
      BY <2>2 DEF CallStarts
    <3>2. \/ stage' \in {"freshening", "sent"}
          \/ stage' = "done" /\ outcome'.class \in {"closed", "authentication"}
      <4>1. CASE Tell(Error("closed", 0))
        BY <4>1, ToldEarly
      <4>2. CASE AskForTokens("freshening")
        BY <4>2, AskOutcome
      <4>3. CASE SendRequest
        BY <4>3, SendOutcome
      <4> QED BY <2>2, <4>1, <4>2, <4>3 DEF CallStarts
    <3> QED BY <3>1, <3>2 DEF SendInv
  <2>3. CASE CallContinues
    <3>1. stage' = "sent" \/ (stage' = "done" /\ outcome'.class \in {"closed", "authentication"})
      BY <2>3, SendOutcome DEF CallContinues
    <3> QED BY <2>3, <3>1, UnderWay DEF CallContinues
  <2>4. ASSUME NEW a \in Answers, TokensAnswered(a)
        PROVE  SendInv'
    <3>1. stage' = "done" => outcome' = ExchangeToken(a)
      BY <2>4 DEF TokensAnswered, Tell, RefreshError
    <3>2. stage' \in {"refreshed", "done"}
      BY <2>4 DEF TokensAnswered, Tell
    <3>3. stage \notin {"new", "done"} /\ UNCHANGED requestVars
      BY <2>4 DEF TokensAnswered
    <3> QED BY <3>1, <3>2, <3>3, TokenOutcome, UnderWay
  <2>5. CASE TokensReused
    BY <2>5, UnderWay DEF TokensReused
  <2>6. CASE TokensFindClosed
    BY <2>6, UnderWay DEF TokensFindClosed, Tell, Error
  <2>7. ASSUME NEW a \in Answers, ApiAnswered(a)
        PROVE  SendInv'
    <3> DEFINE o == RequestJson(a)
    <3>1. stage = "sent" /\ UNCHANGED requestVars
      BY <2>7 DEF ApiAnswered
    <3>2. CASE AskForTokens("refreshing")
      BY <3>1, <3>2, AskOutcome, UnderWay
    <3>3. CASE Tell(IF o.class \in {"communication", "timeout"} THEN RaiseError(o) ELSE o)
      <4>1. stage' = "done" /\ outcome'.class \in {"not_published", o.class}
        BY <3>3 DEF Tell, RaiseError, Error
      <4> QED BY <3>1, <4>1, ApiOutcome, UnderWay
    <3> QED BY <2>7, <3>2, <3>3 DEF ApiAnswered
  <2>8. CASE PairAdopted
    BY <2>8, UnderWay DEF PairAdopted
  <2>9. CASE ClientCloses
    BY <2>9 DEF ClientCloses, requestVars, SendInv
  <2>10. CASE UNCHANGED callVars
    BY <2>10 DEF callVars, SendInv
  <2> QED BY <2>1, <2>2, <2>3, <2>4, <2>5, <2>6, <2>7, <2>8, <2>9, <2>10 DEF OutcomeNext
<1> QED BY <1>1, <1>2, PTL DEF OutcomeSpec

\* Exactly the arguments that make no request of meaning are refused, before
\* either server is asked.
THEOREM RefusalIsExact == OutcomeSpec => []RefusedIffUnsendable
<1>1. SendInv => RefusedIffUnsendable
  BY RefusesExactlyTheUnsendable DEF SendInv, RefusedIffUnsendable
<1> QED BY <1>1, SendInductive, PTL

\* The request, the first and the retry, says what the caller meant.
THEOREM RequestIsMeant == OutcomeSpec => []SentAsMeant
<1>1. SendInv => SentAsMeant
  BY RefusesExactlyTheUnsendable DEF SendInv, SentAsMeant, Sendable
<1> QED BY <1>1, SendInductive, PTL
=============================================================================
