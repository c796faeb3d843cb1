--------------------------- MODULE ResponseQueries ---------------------------
(***************************************************************************)
(* What a consumer learns from a response: the parser (parsers.py) makes      *)
(* models of it, with the fields the questions are about, and the models      *)
(* (models.py) answer: which product, which period, which hour, which meter.  *)
(* How lists are parsed and losses counted is SkippedEntries'.                *)
(*                                                                         *)
(* Days and instants are numbers.  A field from which nothing can be made is  *)
(* Absent, on the wire and in the model.                                   *)
(***************************************************************************)
EXTENDS SkippedEntries, Integers

CONSTANTS
    Days,        \* the days, and instants, that responses name and consumers ask about
    Hour,        \* how long a solar slot lasts
    MaxListed,   \* bound: contracts, transactions, solar days and their slots, tariff slots
    MaxCompared  \* bound: price periods, meters

VARIABLE model   \* what the parser made of the response

queryVars == <<skipVars, model>>

MaybeDay == Days \cup {Absent}
Unread == <<>>

\* What Python's min, and max, choose among the entries at some places of a list:
\* the first of the least rank.
FirstLeast(seq, places, Rank(_)) ==
    LET best == {i \in places : \A j \in places : Rank(seq[i]) <= Rank(seq[j])}
    IN  seq[Min(best)]

-----------------------------------------------------------------------------
(* Energy contracts.                                                       *)

Products == {"DYNAMIC", "FIXED"}
Contracts ==
    [status : {"ACTIVE", "ENDED"}, point : {"", "A", "A_ID1", "B"},
     division : {"ELECTRICITY", "GAS", ""}, product : Products \cup {Absent}]

\* Mutant of BareEan: the suffix stays.
SuffixedEan(point) == point
BareEan(point) == IF point = "A_ID1" THEN "A" ELSE point

Active(contracts) == {i \in DOMAIN contracts : contracts[i].status = "ACTIVE"}

\* The EANs of the contracts at some places; a dict is filled in the order of the
\* contracts, so that of each EAN it has the last.
Eans(contracts, places) == {BareEan(contracts[i].point) : i \in places}
LastOf(contracts, places, ean) ==
    contracts[Max({i \in places : BareEan(contracts[i].point) = ean})]

EnergyProductsByEan(contracts) ==
    LET named == {i \in Active(contracts) :
                    contracts[i].point # "" /\ contracts[i].product # Absent}
    IN  [ean \in Eans(contracts, named) |-> LastOf(contracts, named, ean).product]

ServicePointsByEan(contracts) ==
    LET named == {i \in Active(contracts) :
                    contracts[i].point # "" /\ contracts[i].division # ""}
    IN  [ean \in Eans(contracts, named) |-> LastOf(contracts, named, ean).division]

IsDynamic(contracts) ==
    \E i \in Active(contracts) :
        contracts[i].division = "ELECTRICITY" /\ contracts[i].product = "DYNAMIC"

-----------------------------------------------------------------------------
(* Account balance, price periods, happy hours.                            *)

\* An amount that is no number is 0.
Transactions == [open_amount : {-1, 0, 1, Absent}, due_date : MaybeDay]
ParseTransaction(tx) == [tx EXCEPT !.open_amount = IF @ = Absent THEN 0 ELSE @]

\* Mutant of EarliestDueDate: what is paid is still due.
EarliestOfAll(txs) ==
    LET due == {txs[i].due_date : i \in DOMAIN txs} \ {Absent}
    IN  IF due = {} THEN Absent ELSE Min(due)

EarliestDueDate(txs) ==
    LET open == {i \in DOMAIN txs : txs[i].open_amount > 0 /\ txs[i].due_date # Absent}
    IN  IF open = {} THEN Absent ELSE Min({txs[i].due_date : i \in open})

PricePeriods == [valid_from : MaybeDay, valid_to : MaybeDay]

\* Mutant of PeriodContains: the last day is included.
ContainsLastDay(period, day) ==
    /\ period.valid_from # Absent /\ period.valid_to # Absent
    /\ period.valid_from <= day /\ day <= period.valid_to

PeriodContains(period, day) ==
    /\ period.valid_from # Absent /\ period.valid_to # Absent
    /\ period.valid_from <= day /\ day < period.valid_to

\* Today's and tomorrow's window, each of them absent or malformed.
Windows == [start : MaybeDay, end : MaybeDay]
ParseHappyHourWindow(w) ==
    IF w \in {Absent, NotAList} \/ w.start = Absent \/ w.end = Absent THEN <<>> ELSE <<w>>

\* The sort by start of at most two windows.
ByStart(windows) ==
    IF Len(windows) = 2 /\ windows[2].start < windows[1].start
    THEN <<windows[2], windows[1]>> ELSE windows

ParseHappyHourEvent(today, tomorrow) ==
    LET windows == ParseHappyHourWindow(today) \o ParseHappyHourWindow(tomorrow)
    IN  [windows |-> ByStart(windows),
         skipped_entries |-> Cardinality({k \in {1, 2} : <<today, tomorrow>>[k] # Absent}) - Len(windows)]

IsActive(windows, now) ==
    \E i \in DOMAIN windows : windows[i].start <= now /\ now < windows[i].end

-----------------------------------------------------------------------------
(* Solar surplus.                                                          *)

Levels == {"high", "no_data"}
SolarSlots == [start_time : MaybeDay, level : Levels \cup {Absent}]

\* The slots of all days, those without a start dropped.
ParseSolarSlots(slots) == Picked(slots, {i \in DOMAIN slots : slots[i].start_time # Absent})
ParseSolarDays(days) == [d \in DOMAIN days |-> ParseSolarSlots(Listed(days[d]))]
AllSlots(days) == FlattenSeq(days)

SlotCovering(days, instant) ==
    LET slots == AllSlots(days)
        covering == {i \in DOMAIN slots : /\ slots[i].start_time <= instant
                                          /\ instant < slots[i].start_time + Hour}
    IN  IF covering = {} THEN Absent ELSE slots[Min(covering)]

\* Mutant of NextHourBoundary: the start may be the instant asked about.
BoundaryFromNow(days, now) ==
    LET slots == AllSlots(days)
        starts == {slots[i].start_time : i \in DOMAIN slots}
        future == {t \in starts : t >= now}
    IN  IF future = {} THEN Absent ELSE Min(future)

NextHourBoundary(days, now) ==
    LET slots == AllSlots(days)
        starts == {slots[i].start_time : i \in DOMAIN slots}
        future == {t \in starts : t > now}
    IN  IF future = {} THEN Absent ELSE Min(future)

HasSolar(days) ==
    LET slots == AllSlots(days)
    IN  \E i \in DOMAIN slots : slots[i].level \notin {Absent, "no_data"}

-----------------------------------------------------------------------------
(* Time-of-use: the meter of an EAN, and its best slot code.                *)

\* A schedule is flat or has several slot codes in one direction.
Meters ==
    [exclusive_night : {TRUE, FALSE, Absent}, supplier : {"flat", "split", Absent},
     dgo_tgo : {"flat", "split", Absent}]

HasData(meter) == meter.supplier # Absent \/ meter.dgo_tgo # Absent

DayMeters(meters) == {i \in DOMAIN meters : meters[i].exclusive_night # TRUE}

\* Mutant of PrimaryMeter: the first day meter, with data or without.
FirstDayMeter(meters) ==
    LET day == DayMeters(meters)
    IN  IF day # {} THEN meters[Min(day)] ELSE IF meters # <<>> THEN meters[1] ELSE Absent

PrimaryMeter(meters) ==
    LET day == DayMeters(meters)
        with_data == {i \in day : HasData(meters[i])}
    IN  IF with_data # {} THEN meters[Min(with_data)]
        ELSE IF day # {} THEN meters[Min(day)]
        ELSE IF meters # <<>> THEN meters[1] ELSE Absent

HasTou(meters) ==
    LET meter == PrimaryMeter(meters)
    IN  meter # Absent /\ (meter.supplier = "split" \/ meter.dgo_tgo = "split")

\* A slot code, as ENGIE spells it: with or without a prefix that ends in the
\* direction (WEEKDAY_OFFTAKE_), in one of two vocabularies, in upper or lower case.
Spellings == [prefixed : BOOLEAN, name : {"PEAK", "HIGH_LOAD_HOURS", "peak", "LOW_LOAD_HOURS", "OFFPEAK"}]

Upper == [name \in {"PEAK", "OFFPEAK", "HIGH_LOAD_HOURS", "LOW_LOAD_HOURS", "peak"} |->
            IF name = "peak" THEN "PEAK" ELSE name]
Lower == [PEAK |-> "peak", OFFPEAK |-> "offpeak",
          HIGH_LOAD_HOURS |-> "high_load_hours", LOW_LOAD_HOURS |-> "low_load_hours"]
TouSlotCodeAliases == [HIGH_LOAD_HOURS |-> "PEAK", LOW_LOAD_HOURS |-> "OFFPEAK"]

\* Mutant of CanonicaliseSlotCode: only a code without a prefix is looked up.
AliasUnlessPrefixed(code) ==
    LET upper == Upper[code.name]
    IN  Lower[IF upper \in DOMAIN TouSlotCodeAliases /\ ~code.prefixed
              THEN TouSlotCodeAliases[upper] ELSE upper]

\* The prefix is dropped, the rest looked up, and spelled in lower case.
CanonicaliseSlotCode(code) ==
    LET upper == Upper[code.name]
    IN  Lower[IF upper \in DOMAIN TouSlotCodeAliases THEN TouSlotCodeAliases[upper] ELSE upper]

TouSlots == [code : Spellings, cost : {1, 2, Absent}]
ParseTouSlot(slot) == [slot EXCEPT !.code = CanonicaliseSlotCode(@)]

\* Codes are compared as strings.
Alphabetical == [high_load_hours |-> 0, low_load_hours |-> 1, offpeak |-> 2, peak |-> 3]

\* The cheapest code for offtake, the dearest for injection; ties by spelling.
DeriveOptimalSlotCode(direction, slots) ==
    LET ranked == {i \in DOMAIN slots : slots[i].cost # Absent}
        Key(s) == 4 * s.cost + Alphabetical[s.code]
        Opposite(s) == -Key(s)
    IN  IF ranked = {} THEN Absent
        ELSE IF direction = "offtake" THEN FirstLeast(slots, ranked, Key).code
        ELSE FirstLeast(slots, ranked, Opposite).code

\* The wire's own code goes first; an empty one is none.
ParseTouDirection(direction, optimal, slots) ==
    LET parsed == [i \in DOMAIN slots |-> ParseTouSlot(slots[i])]
    IN  [slots |-> parsed,
         optimal |-> IF optimal # Absent THEN CanonicaliseSlotCode(optimal)
                     ELSE DeriveOptimalSlotCode(direction, parsed)]

-----------------------------------------------------------------------------
(* The responses, as they may come; what is read of them.                   *)

Queried ==
    [energy_contracts |-> SeqOf(Contracts, MaxListed),
     balance_due      |-> SeqOf(Transactions, MaxListed),
     price_periods    |-> SeqOf(PricePeriods, MaxCompared),
     happy_hours      |-> (Windows \cup {Absent, NotAList}) \X (Windows \cup {Absent, NotAList}),
     solar_hours      |-> SeqOf(SeqOf(SolarSlots, MaxListed) \cup {NotAList}, MaxListed),
     tou_meters       |-> SeqOf(Meters, MaxCompared),
     tou_direction    |-> {"offtake", "injection"} \X (Spellings \cup {Absent}) \X SeqOf(TouSlots, MaxListed)]

\* Absent is nothing that a response holds.
ASSUME QueryAssumption ==
    /\ Days \subseteq Nat /\ Hour \in Nat \ {0}
    /\ MaxListed \in Nat /\ MaxCompared \in Nat
    /\ Absent \notin Int /\ Absent \notin Products \cup Levels \cup SolarSlots

QueryInit ==
    /\ endpoint \in DOMAIN Queried
    /\ raw \in Queried[endpoint]
    /\ answer = Unparsed /\ model = Unread

Modelled ==
    CASE endpoint = "balance_due" -> [i \in DOMAIN raw |-> ParseTransaction(raw[i])]
      [] endpoint = "happy_hours" -> ParseHappyHourEvent(raw[1], raw[2])
      [] endpoint = "solar_hours" -> ParseSolarDays(raw)
      [] endpoint = "tou_direction" -> ParseTouDirection(raw[1], raw[2], raw[3])
      [] OTHER -> raw

ParseModel ==
    /\ endpoint \in DOMAIN Queried /\ model = Unread
    /\ model' = <<Modelled>>
    /\ UNCHANGED skipVars

ResponseInit == (SkipInit /\ model = Unread) \/ QueryInit
ResponseNext == ParseModel \/ (SkipNext /\ UNCHANGED model)
ResponseSpec == ResponseInit /\ [][ResponseNext]_queryVars

-----------------------------------------------------------------------------
(* Properties.                                                             *)

Read(e) == endpoint = e /\ model # Unread

\* The three questions about contracts agree: where no EAN has two active
\* contracts, spelled with the suffix or without, a customer is dynamic if and
\* only if the map of products has, under an EAN without suffix, a dynamic one that
\* the map of service points says is electricity.
DynamicIffProducts ==
    Read("energy_contracts") =>
        LET contracts == model[1]
            active == Active(contracts)
            products == EnergyProductsByEan(contracts)
            points == ServicePointsByEan(contracts)
            Ean(i) == IF contracts[i].point = "A_ID1" THEN "A" ELSE contracts[i].point
        IN  (\A i, j \in active : Ean(i) # "" /\ (i # j => Ean(i) # Ean(j)))
            => (IsDynamic(contracts)
                  <=> \E i \in active :
                         /\ Ean(i) \in DOMAIN products \cap DOMAIN points
                         /\ products[Ean(i)] = "DYNAMIC" /\ points[Ean(i)] = "ELECTRICITY")

\* Price periods that follow one another, in whatever order they are listed, give
\* every day from the first to before the last exactly one period.
OnePeriodPerDay(periods) ==
    LET froms == {periods[i].valid_from : i \in DOMAIN periods}
        tos == {periods[i].valid_to : i \in DOMAIN periods}
    IN  /\ periods # <<>>
        /\ Absent \notin froms \cup tos
        /\ Cardinality(froms) = Len(periods) /\ Cardinality(tos) = Len(periods)
        /\ \A i \in DOMAIN periods : periods[i].valid_from < periods[i].valid_to
        /\ froms \ {Min(froms)} = tos \ {Max(tos)}
        => \A day \in Days :
              Cardinality({i \in DOMAIN periods : PeriodContains(periods[i], day)})
                  = IF Min(froms) <= day /\ day < Max(tos) THEN 1 ELSE 0

\* An hour is happy from the instant a window of the wire begins to before it
\* ends; the windows kept are listed as they begin, and the others are counted.
HappyWithinWindows(event) ==
    LET present == {k \in {1, 2} : raw[k] # Absent}
        whole == {k \in present : raw[k] # NotAList /\ Absent \notin {raw[k].start, raw[k].end}}
    IN  /\ \A now \in Days :
             IsActive(event.windows, now) <=> \E k \in whole : now \in raw[k].start..(raw[k].end - 1)
        /\ \A i, j \in DOMAIN event.windows :
             i < j => event.windows[i].start <= event.windows[j].start
        /\ Len(event.windows) = Cardinality(whole)
        /\ event.skipped_entries = Cardinality(present \ whole)

\* What is said to hold in an interval holds from its start to before its end, so
\* that intervals that meet leave no instant out and none to both.
IntervalsAreHalfOpen ==
    /\ Read("price_periods") => OnePeriodPerDay(model[1])
    /\ Read("happy_hours") => HappyWithinWindows(model[1])

\* What is due next is what the response says is open: the answer is the day of
\* an open amount, and no open amount falls due before it.
NextDueIsOpen ==
    Read("balance_due") =>
        LET due == EarliestDueDate(model[1])
            open == {i \in DOMAIN raw : raw[i].open_amount = 1 /\ raw[i].due_date # Absent}
        IN  IF open = {} THEN due = Absent
            ELSE /\ \E i \in open : raw[i].due_date = due
                 /\ \A i \in open : raw[i].due_date >= due

\* A consumer that sleeps to the boundary misses no solar hour, where hours do
\* not overlap: while it sleeps no other slot begins, the slot that covers the
\* instant can only end, and when it wakes, later, the slot that begins then covers it.
\* There is sun if and only if it can meet an hour with some.
SolarHoldsToBoundary ==
    Read("solar_hours") =>
        LET days == model[1]
            slots == AllSlots(days)
        IN  (\A i, j \in DOMAIN slots : i < j =>
                \/ slots[i].start_time + Hour <= slots[j].start_time
                \/ slots[j].start_time + Hour <= slots[i].start_time)
            => /\ HasSolar(days) <=> \E u \in Days : SlotCovering(days, u) # Absent
                                                 /\ SlotCovering(days, u).level = "high"
               /\ \A now \in Days :
                  LET wake == NextHourBoundary(days, now)
                  IN  /\ wake = Absent => \A i \in DOMAIN slots : slots[i].start_time <= now
                      /\ wake # Absent =>
                            /\ wake > now
                            /\ SlotCovering(days, wake).start_time = wake
                            /\ \A u \in now..(wake - 1) :
                                  SlotCovering(days, u) \in {SlotCovering(days, now), Absent}

\* The meter a schedule is read from: no meter that measures the days is passed
\* over for one that measures the nights only, nor one of the days with a schedule
\* for one without; and of equals it is the first.  Meters of the nights are all
\* equal, with a schedule or without ("else first meter", TouScheduleItem).
PrimaryMeterKnowsMost ==
    Read("tou_meters") =>
        LET meters == model[1]
            Rank(m) == IF m.exclusive_night = TRUE THEN 2 ELSE IF HasData(m) THEN 0 ELSE 1
            primary == PrimaryMeter(meters)
        IN  IF meters = <<>> THEN primary = Absent /\ ~HasTou(meters)
            ELSE /\ primary = FirstLeast(meters, DOMAIN meters, Rank)
                 /\ HasTou(meters) => \/ primary.exclusive_night # TRUE
                                      \/ \A i \in DOMAIN meters : meters[i].exclusive_night = TRUE

\* The best code can be looked for in the week: if the wire names it, in whatever
\* spelling, it is the code of every slot of that tariff; if not, it is the code
\* of a slot, and none is cheaper (for offtake) or dearer (for injection).
OptimalCodeIsInWeek ==
    Read("tou_direction") =>
        LET direction == raw[1]
            slots == model[1].slots
            optimal == model[1].optimal
            Peak(spelling) == spelling.name \in {"PEAK", "HIGH_LOAD_HOURS", "peak"}
            ranked == {i \in DOMAIN slots : slots[i].cost # Absent}
        IN  IF raw[2] # Absent
            THEN \A i \in DOMAIN slots : slots[i].code = optimal <=> (Peak(raw[2]) <=> Peak(raw[3][i].code))
            ELSE IF ranked = {} THEN optimal = Absent
            ELSE \E i \in ranked :
                    /\ slots[i].code = optimal
                    /\ \A j \in ranked :
                          IF direction = "offtake" THEN slots[i].cost <= slots[j].cost
                          ELSE slots[i].cost >= slots[j].cost
=============================================================================
