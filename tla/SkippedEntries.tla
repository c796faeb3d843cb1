--------------------------- MODULE SkippedEntries ---------------------------
(***************************************************************************)
(* Defensive parsing (parsers.py).  A malformed entry of a list is dropped,  *)
(* the rest is kept, and the answer says in skipped_entries how many were    *)
(* dropped.  Lists nest: an entry is parsed with its own lists, whose drops  *)
(* go to a tally the response has opened - or are returned and summed by     *)
(* hand.  An entry that goes under with its parent must not be counted.      *)
(*                                                                         *)
(* There are two views of an entry.  Where lists nest it is abstracted to      *)
(* `good', whether its parser finds what it needs, and `nested', its lists.    *)
(* Where the lists of one model are looked at, it is the record of its fields: *)
(* ParserFields says how each is made, ModelFields what it should be.          *)
(***************************************************************************)
EXTENDS ParserFields, ModelFields, SequencesExt

CONSTANTS
    Absent,       \* where a list should be: nothing, or null
    NotAList,     \* where a list should be: some other value, as an object
    MaxEntries,   \* bound: entries of an outer list
    MaxNested,    \* bound: entries of a list of the second level
    MaxLeaves     \* bound: entries of a list of the third level

ASSUME SkippedAssumption ==
    /\ Absent # NotAList
    /\ MaxEntries \in Nat /\ MaxNested \in Nat /\ MaxLeaves \in Nat

VARIABLES
    endpoint,   \* which parser the response is for
    raw,        \* the lists of the response
    answer      \* what the parser made of it

skipVars == <<endpoint, raw, answer>>

-----------------------------------------------------------------------------
(* Parsing one list.  A parser returns what it made of an entry and how many *)
(* drops it recorded in the tally on the way.                               *)

Refused == [kept |-> FALSE, item |-> <<>>, recorded |-> 0]
Kept(item, recorded) == [kept |-> TRUE, item |-> item, recorded |-> recorded]

\* The places of a list of n, in order; what a list has at some of its places.
\* (Recursive functions: a fold takes an operator, of which the provers know nothing.)
InOrder(places, n) ==
    LET upto[k \in 0..n] ==
            IF k = 0 THEN <<>>
            ELSE IF k \in places THEN Append(upto[k - 1], k) ELSE upto[k - 1]
    IN  upto[n]
Picked(list, places) ==
    LET order == InOrder(places, Len(list)) IN [k \in DOMAIN order |-> list[order[k]]]

Total(counts) ==
    LET upto[k \in 0..Len(counts)] == IF k = 0 THEN 0 ELSE upto[k - 1] + counts[k]
    IN  upto[Len(counts)]

\* What a parser makes of each entry of a list; what is no list has no entries.
Each(data, Parse(_)) ==
    IF data \in {Absent, NotAList} THEN <<>> ELSE [i \in DOMAIN data |-> Parse(data[i])]
EachOf(lists, Parse(_)) == [i \in DOMAIN lists |-> Each(lists[i], Parse)]

\* Mutant of ParseItemsCounted: what follows a malformed entry is lost with it.
StopsAtMalformed(parsed) ==
    LET first == {i \in DOMAIN parsed : \A j \in 1..i : parsed[j].kept}
    IN  [items    |-> [i \in first |-> parsed[i].item],
         skipped  |-> Total([i \in DOMAIN parsed |-> IF parsed[i].kept THEN 0 ELSE 1]),
         recorded |-> Total([i \in DOMAIN parsed |-> parsed[i].recorded])]

\* Keep what the parser of the entries accepts and count what it refuses.
ParseItemsCounted(parsed) ==
    LET kept == {i \in DOMAIN parsed : parsed[i].kept}
    IN  [items    |-> Picked([i \in DOMAIN parsed |-> parsed[i].item], kept),
         skipped  |-> Total([i \in DOMAIN parsed |-> IF i \in kept THEN 0 ELSE 1]),
         recorded |-> Total([i \in DOMAIN parsed |-> parsed[i].recorded])]

\* The same for a nested list: the drops go to the open tally.
ParseItems(parsed) ==
    LET list == ParseItemsCounted(parsed)
    IN  [items |-> list.items, recorded |-> list.skipped + list.recorded]

\* An entry without lists of its own.
ParseLeaf(entry) == IF entry.good THEN Kept(<<>>, 0) ELSE Refused

\* An entry with lists, refused before they are looked at.
ParseWithNested(entry, nested) ==
    LET lists == [i \in DOMAIN nested |-> ParseItems(nested[i])]
    IN  IF entry.good
        THEN Kept([i \in DOMAIN lists |-> lists[i].items],
                  Total([i \in DOMAIN lists |-> lists[i].recorded]))
        ELSE Refused

-----------------------------------------------------------------------------
(* The parsers of the responses.                                           *)

Answer(items, skipped) == [parsed |-> TRUE, items |-> items, skipped_entries |-> skipped]
Unparsed == [parsed |-> FALSE, items |-> <<>>, skipped_entries |-> 0]

\* A response that is one list, parsed under a tally of its own.
Tallied(list) == Answer(<<list.items>>, list.skipped + list.recorded)

\* A list whose entries have no lists: no tally is opened.
ParseEnergyContracts ==
    LET contracts == ParseItemsCounted(Each(raw[1], ParseLeaf))
    IN  Answer(<<contracts.items>>, contracts.skipped)

\* Customer accounts with their business agreements.
ParseAccountRelation(entry) == ParseWithNested(entry, EachOf(entry.nested, ParseLeaf))
ParseCustomerAccountRelations == Tallied(ParseItemsCounted(Each(raw[1], ParseAccountRelation)))

\* Prices of an EAN, in periods, each with offtake and injection slots.
ParsePricePeriod(entry) == ParseWithNested(entry, EachOf(entry.nested, ParseLeaf))
ParseEanPrices(entry) == ParseWithNested(entry, EachOf(entry.nested, ParsePricePeriod))
ParsePrices == Tallied(ParseItemsCounted(Each(raw[1], ParseEanPrices)))

\* Solar forecasts of a day, with its slots.
ParseSolarSurplusDay(entry) == ParseWithNested(entry, EachOf(entry.nested, ParseLeaf))
ParseSolarSurplusForecasts == Tallied(ParseItemsCounted(Each(raw[1], ParseSolarSurplusDay)))

\* Time-of-use schedules of a meter: one list per schedule, direction, weekday.
ParseTouGridMeter(entry) == ParseWithNested(entry, EachOf(entry.nested, ParseLeaf))
ParseTouScheduleItem(entry) == ParseWithNested(entry, EachOf(entry.nested, ParseTouGridMeter))
ParseTouSchedules == Tallied(ParseItemsCounted(Each(raw[1], ParseTouScheduleItem)))

\* Usage per interval, and the total: one entry, or none, outside the list.
ParseUsageItem(entry) == ParseWithNested(entry, EachOf(entry.nested, ParseLeaf))
ParseUsageDetails ==
    LET items == ParseItemsCounted(Each(raw[1], ParseUsageItem))
        total == ParseItemsCounted(Each(raw[2], ParseUsageItem))
    IN  Answer(<<items.items, total.items>>, items.skipped + items.recorded + total.recorded)

\* Mutant of ParseMeterRead: the registers are counted before the read is dropped.
RegistersCountToo(entry) ==
    LET registers == ParseItemsCounted(Each(entry.nested[1], ParseLeaf))
    IN  [kept |-> /\ entry.good
                  /\ entry.nested[1] \in {Absent, <<>>} \/ registers.items # <<>>,
         item |-> <<registers.items>>,
         recorded |-> registers.skipped]

\* A meter read is dropped when it lists registers and none is good; only the
\* registers of a read that is kept are recorded.
ParseMeterRead(entry) ==
    LET registers == ParseItemsCounted(Each(entry.nested[1], ParseLeaf))
    IN  IF /\ entry.good
           /\ entry.nested[1] \in {Absent, <<>>} \/ registers.items # <<>>
        THEN Kept(<<registers.items>>, registers.skipped)
        ELSE Refused
ParseMeterReads == Tallied(ParseItemsCounted(Each(raw[1], ParseMeterRead)))

\* A budget billing plan has payment slices and a proposal has factors, for the
\* agreement and again for each contract period.  Nothing goes to a tally: a
\* period is returned with its count, and the counts are summed.
ParseBbpContractPeriod(entry) ==
    LET lists == [i \in DOMAIN entry.nested |-> ParseItemsCounted(Each(entry.nested[i], ParseLeaf))]
    IN  IF entry.good
        THEN Kept([lists   |-> [i \in DOMAIN lists |-> lists[i].items],
                   skipped |-> Total([i \in DOMAIN lists |-> lists[i].skipped])], 0)
        ELSE Refused

ParseBudgetBillingPlanDetails ==
    LET slices == ParseItemsCounted(Each(raw[1], ParseLeaf))
        factors == ParseItemsCounted(Each(raw[2], ParseLeaf))
        periods == ParseItemsCounted(Each(raw[3], ParseBbpContractPeriod))
    IN  Answer(<<slices.items, factors.items,
                 [i \in DOMAIN periods.items |-> periods.items[i].lists]>>,
               slices.skipped + factors.skipped + periods.skipped
                   + Total([i \in DOMAIN periods.items |-> periods.items[i].skipped]))

\* An entry that is no object is refused before its parser sees it.
NoObject == [no_object |-> TRUE]

\* An entry field by field; it is given up for a field it needs and has not.
ParseEntry(entry) ==
    LET parser == Parsers[endpoint]
        object == [f \in DOMAIN parser |-> Convert(parser[f].how, entry[f])]
    IN  IF entry = NoObject \/ \E f \in DOMAIN parser : parser[f].needed /\ object[f] = "null"
        THEN Refused ELSE Kept(object, 0)

\* A list of the objects of one model, and an object outside any list: there is
\* one or none, and nothing is counted.
ParseModelList ==
    LET list == ParseItemsCounted(Each(raw[1], ParseEntry))
    IN  Answer(<<list.items>>, list.skipped)
ParseModelObject == Answer(<<ParseItemsCounted(<<ParseEntry(raw[1])>>).items>>, 0)

-----------------------------------------------------------------------------
(* Responses, as they may come.                                            *)

ListsOf(entries, n) == SeqOf(entries, n) \cup {Absent, NotAList}
Leaves == [good : BOOLEAN, nested : {<<>>}]
EntriesWith(k, lists) == [good : BOOLEAN, nested : [1..k -> lists]]

OneList(k, n) == ListsOf(EntriesWith(k, ListsOf(Leaves, n)), MaxEntries)
TwoLevels(k) ==
    ListsOf(EntriesWith(1, ListsOf(EntriesWith(k, ListsOf(Leaves, MaxLeaves)), MaxLeaves)),
            MaxEntries)

Responses ==
    [contracts |-> {<<l>> : l \in ListsOf(Leaves, MaxEntries)},
     accounts |-> {<<l>> : l \in OneList(1, MaxNested)},
     prices   |-> {<<l>> : l \in TwoLevels(2)},
     solar    |-> {<<l>> : l \in OneList(1, MaxNested)},
     tou      |-> {<<l>> : l \in TwoLevels(2)},
     usage    |-> {<<l, t>> : l \in OneList(2, MaxLeaves),
                              t \in ListsOf(EntriesWith(2, ListsOf(Leaves, MaxLeaves)), 1)},
     meters   |-> {<<l>> : l \in OneList(1, MaxNested)},
     bbp      |-> {<<s, f, l>> : s \in ListsOf(Leaves, MaxLeaves), f \in ListsOf(Leaves, MaxLeaves),
                                 l \in OneList(2, MaxLeaves)}]

\* An entry that may miss what it needs; and with anything in any one field.
MayBeRefused(model) == {NoObject, Good(model)} \cup WithOneOdd(model, MustFields(model))
OneOdd(model) == WithOneOdd(model, DOMAIN Models[model])
Objects(model) ==
    IF model \in ListedModels
    THEN {<<l>> : l \in ListsOf(MayBeRefused(model), MaxEntries)} \cup {<<<<e>>>> : e \in OneOdd(model)}
    ELSE {<<e>> : e \in {NoObject} \cup OneOdd(model)}

SkipInit ==
    /\ \/ endpoint \in DOMAIN Responses /\ raw \in Responses[endpoint]
       \/ endpoint \in DOMAIN Models /\ raw \in Objects(endpoint)
    /\ answer = Unparsed

ParseFields ==
    /\ answer = Unparsed /\ endpoint \in DOMAIN Models
    /\ answer' = IF endpoint \in ListedModels THEN ParseModelList ELSE ParseModelObject
    /\ UNCHANGED <<endpoint, raw>>

Parsing ==
    CASE endpoint = "contracts" -> ParseEnergyContracts
      [] endpoint = "accounts" -> ParseCustomerAccountRelations
      [] endpoint = "prices" -> ParsePrices
      [] endpoint = "solar" -> ParseSolarSurplusForecasts
      [] endpoint = "tou" -> ParseTouSchedules
      [] endpoint = "usage" -> ParseUsageDetails
      [] endpoint = "meters" -> ParseMeterReads
      [] endpoint = "bbp" -> ParseBudgetBillingPlanDetails

Parse ==
    /\ answer = Unparsed /\ endpoint \in DOMAIN Responses
    /\ answer' = Parsing
    /\ UNCHANGED <<endpoint, raw>>

SkipNext == Parse \/ ParseFields
SkipSpec == SkipInit /\ [][SkipNext]_skipVars

-----------------------------------------------------------------------------
(* Properties.                                                             *)

\* What a reader would call well-formed: the entry has what it must have, and a
\* meter read that lists registers has a good one among them.
Sound(entry) ==
    IF endpoint \in DOMAIN Models THEN entry # NoObject /\ WellFormed(endpoint, entry)
    ELSE /\ entry.good
         /\ (endpoint = "meters" /\ entry.nested # <<>> /\ entry.nested[1] \notin {Absent, <<>>})
              => /\ entry.nested[1] # NotAList
                 /\ \E i \in DOMAIN entry.nested[1] : entry.nested[1][i].good

Listed(list) == IF list \in {Absent, NotAList} THEN <<>> ELSE list
Sifted(entries) == Picked(entries, {i \in DOMAIN entries : Sound(entries[i])})
SoundOf(list) == Sifted(Listed(list))
Carried(entry) == IF endpoint \in DOMAIN Models THEN <<>> ELSE entry.nested

\* What is lost of a list: `each' for a malformed entry, and of the others what is
\* lost of their lists, which is what Inner says.  Lists nest three deep.
Losses(list, each, Inner(_)) ==
    LET entries == Listed(list)
    IN  Total([i \in DOMAIN entries |->
                 IF Sound(entries[i])
                 THEN Total([j \in DOMAIN Carried(entries[i]) |-> Inner(Carried(entries[i])[j])])
                 ELSE each])
NothingLost(list) == 0
LostLeaves(list) == Losses(list, 1, NothingLost)
LostNested(list) == Losses(list, 1, LostLeaves)
Lost(list) == Losses(list, 1, LostNested)

\* skipped_entries is the number of malformed entries whose parents were all
\* kept, at every depth and in every response: an entry dropped with its parent
\* is not counted, and no entry is counted by two levels.  The total of a usage
\* response is no list entry: only what its own lists lost is counted.  Nor is
\* an object outside the lists.
SkippedCountsOnce ==
    answer.parsed =>
        answer.skipped_entries =
            IF endpoint = "usage" THEN Lost(raw[1]) + Losses(raw[2], 0, LostLeaves)
            ELSE IF endpoint \in DOMAIN Models \ ListedModels THEN 0
            ELSE Total([i \in DOMAIN raw |-> Lost(raw[i])])

\* The sound entries of a list, each with those of its lists, which Inner gives.
Survivors(list, Inner(_)) ==
    LET sound == SoundOf(list)
    IN  [i \in DOMAIN sound |->
            [j \in DOMAIN Carried(sound[i]) |-> Inner(Carried(sound[i])[j])]]
NoSurvivor(list) == <<>>
SurvivingLeaves(list) == Survivors(list, NoSurvivor)
SurvivingNested(list) == Survivors(list, SurvivingLeaves)
Surviving(list) == Survivors(list, SurvivingNested)

\* The objects made are those of the sound entries, in their order, and each is
\* true to its entry by what models.py declares (of unchecked fields, less).
AllTrue(made, sound) ==
    /\ Len(made) = Len(sound)
    /\ \A i \in DOMAIN made : TrueTo(endpoint, sound[i], made[i])

\* "Malformed entries are skipped, valid siblings survive": one malformed entry
\* costs itself and what it carries, never a neighbour, and what survives is in
\* the answer in the order of the response.  No field of it loses a value that
\* had the declared type, and none has a value of another type but the fields that
\* ModelFields marks unchecked, which are copied: those hold what came.
KeepsEverySound ==
    answer.parsed =>
        IF endpoint \in DOMAIN Models
        THEN AllTrue(answer.items[1],
                     IF endpoint \in ListedModels THEN SoundOf(raw[1]) ELSE Sifted(raw))
        ELSE answer.items = [i \in DOMAIN raw |-> Surviving(raw[i])]
=============================================================================
