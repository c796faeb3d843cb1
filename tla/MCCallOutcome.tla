--------------------------- MODULE MCCallOutcome ---------------------------
(* A small instance of CallOutcome for TLC: one status of every class and   *)
(* those the code singles out; every endpoint, with its arguments at their   *)
(* boundaries.                                                             *)
EXTENDS CallOutcome

MCStatuses == {200, 204, 302, 400, 401, 403, 404, 500}

Dates == {1, 2}
MaybeDates == Dates \cup {None}
Ids == {-1, 0, 1, NotAnInt}

\* The arguments of a record: each check at its boundary.
Inputs ==
    [NoArgs |-> {[f \in {} |-> None]},
     BanArgs |-> [ban : Numbers],
     CanArgs |-> [can : Numbers],
     VehicleArgs |-> [vehicle_id : Ids],
     ChargingSessionArgs |-> [session_id : Ids],
     ChargingSessionsArgs |->
        [can : Numbers, start_date : Dates, end_date : Dates, page_number : {-1, 0}, page_size : {0, 1}],
     CanDateRangeArgs |-> [can : Numbers, start_date : Dates, end_date : Dates],
     EanArgs |-> [ean : Eans],
     MonthArgs |-> [ban : Numbers, year : {1999, 2000, 2100, 2101}, month : {0, 1, 12, 13}],
     PeaksArgs |->
        [ban : {"digits", "text"}, year : {2000, 2023, 2024, 2100}, month : {0, 2, 4, 12},
         day : {None, 0, 1, 28, 29, 30, 31, 32}],
     ContractsArgs |-> [ban : Numbers, include_inactive : BOOLEAN],
     UsageArgs |-> [ban : Numbers, start_date : Dates, end_date : Dates],
     SolarArgs |-> [ban : Numbers, delivery_point_id : Eans],
     FlagArgs |-> [ban : Numbers],
     MeterReadsArgs |->
        [ban : Numbers, latest : BOOLEAN, start_date : MaybeDates, end_date : MaybeDates],
     EpexArgs |-> [from_dt : {"aware", "naive"}, to_dt : {"aware", "naive"}]]

MCCalls ==
    UNION {[endpoint : {e}, input : Inputs[Catalog[e].args]] : e \in DOMAIN Catalog}
=============================================================================
