----------------------------- MODULE EpexPrices -----------------------------
(***************************************************************************)
(* Day-ahead prices: parse_epex_prices (parsers.py) turns a feed of entries, *)
(* in any order, some malformed, some repeated, into slots; a consumer then  *)
(* sleeps from one EpexPayload.next_slot_boundary (models.py) to the next.   *)
(*                                                                         *)
(* Time is counted in ticks.  The price of an entry is its position in the   *)
(* feed, so that every entry can be told from every other.                   *)
(***************************************************************************)
EXTENDS Integers, SequencesExt

CONSTANTS
    Horizon,      \* bound: instants are 0..Horizon
    MaxEntries,   \* bound: length of the feed
    Durations     \* slot lengths that can be requested, in ticks

ASSUME EpexAssumption ==
    /\ Horizon \in Nat /\ MaxEntries \in Nat
    /\ Durations \subseteq Nat \ {0}

VARIABLES
    feed,        \* timeSeries: the start of each entry, Malformed if unusable
    requested,   \* granularity_minutes
    fetched,     \* the response has arrived
    payload,     \* the parsed EpexPayload
    now          \* the consumer's clock, Asleep when it has nothing to wait for

epexVars == <<feed, requested, fetched, payload, now>>

Malformed == -1
Asleep == -1
Instants == 0..Horizon

-----------------------------------------------------------------------------
(* parse_epex_prices                                                       *)

\* The loops are written as functions of how much of the list has been read.

\* The usable entries, in feed order.
Parsed(f) ==
    LET parsed[n \in 0..Len(f)] ==
          IF n = 0 THEN <<>>
          ELSE IF f[n] = Malformed THEN parsed[n - 1]
          ELSE Append(parsed[n - 1], [start |-> f[n], price |-> n])
    IN  parsed[Len(f)]

\* Where list.sort, which is stable, puts an entry: before the first later one.
Place(sorted, e) ==
    Min({i \in DOMAIN sorted : sorted[i].start > e.start} \cup {Len(sorted) + 1})

\* list.sort by start.
SortByStart(entries) ==
    LET sorted[n \in 0..Len(entries)] ==
          IF n = 0 THEN <<>>
          ELSE InsertAt(sorted[n - 1], Place(sorted[n - 1], entries[n]), entries[n])
    IN  sorted[Len(entries)]

\* Of entries with the same start the first is kept.
DropDuplicates(entries) ==
    LET kept[n \in 0..Len(entries)] ==
          IF n = 0 THEN <<>>
          ELSE IF kept[n - 1] # <<>> /\ Last(kept[n - 1]).start = entries[n].start THEN kept[n - 1]
          ELSE Append(kept[n - 1], entries[n])
    IN  kept[Len(entries)]

\* Counter.most_common(1): among the most frequent values the first met.
MostCommon(s) ==
    LET Count(v) == Cardinality({i \in DOMAIN s : s[i] = v})
        best == {i \in DOMAIN s : \A j \in DOMAIN s : Count(s[j]) <= Count(s[i])}
    IN  s[Min(best)]

\* The spacing of the slots the feed shows, or the one that was asked for.
Observed(entries, granularity) ==
    IF Len(entries) < 2 THEN granularity
    ELSE MostCommon([i \in 1..(Len(entries) - 1) |-> entries[i + 1].start - entries[i].start])

\* Mutant of EndOf: a slot is stretched over a hole.
EndAtNextStart(entries, observed, i) ==
    IF i < Len(entries) THEN entries[i + 1].start ELSE entries[i].start + observed

\* A slot ends after the common spacing, or earlier where the next one starts.
EndOf(entries, observed, i) ==
    IF i < Len(entries)
    THEN Min({entries[i + 1].start, entries[i].start + observed})
    ELSE entries[i].start + observed

ParseEpexPrices(f, granularity) ==
    LET entries == DropDuplicates(SortByStart(Parsed(f)))
        observed == Observed(entries, granularity)
    IN  [slots |-> [i \in DOMAIN entries |->
                      [start |-> entries[i].start, end |-> EndOf(entries, observed, i), price |-> entries[i].price]],
         skipped |-> Len(f) - Len(Parsed(f))]

\* Mutants of NextSlotBoundary: it looks at ends only; at the current slot only.
NextEnd(slots, t) ==
    LET ends == {slots[i].end : i \in {j \in DOMAIN slots : t < slots[j].end}}
    IN  IF ends = {} THEN Asleep ELSE Min(ends)
EndOfCurrentSlot(slots, t) ==
    LET ends == {slots[i].end : i \in {j \in DOMAIN slots : slots[j].start <= t /\ t < slots[j].end}}
    IN  IF ends = {} THEN Asleep ELSE Min(ends)

\* EpexPayload.next_slot_boundary
NextSlotBoundary(slots, t) ==
    LET candidates ==
          {slots[i].end : i \in {j \in DOMAIN slots : slots[j].start <= t /\ t < slots[j].end}}
          \cup {slots[i].start : i \in {j \in DOMAIN slots : slots[j].start > t}}
    IN  IF candidates = {} THEN Asleep ELSE Min(candidates)

-----------------------------------------------------------------------------
NoPayload == [slots |-> <<>>, skipped |-> 0]

EpexInit ==
    /\ feed \in SeqOf(Instants \cup {Malformed}, MaxEntries)
    /\ requested \in Durations
    /\ fetched = FALSE
    /\ payload = NoPayload
    /\ now = Asleep

\* The response is parsed; the consumer starts at some instant of the day.
Fetch ==
    /\ ~fetched
    /\ fetched' = TRUE
    /\ payload' = ParseEpexPrices(feed, requested)
    /\ now' \in Instants
    /\ UNCHANGED <<feed, requested>>

\* The consumer sleeps until the boundary it was told, or stops.
SleepToBoundary ==
    /\ now # Asleep
    /\ now' = NextSlotBoundary(payload.slots, now)
    /\ UNCHANGED <<feed, requested, fetched, payload>>

EpexNext == Fetch \/ SleepToBoundary
EpexSpec == EpexInit /\ [][EpexNext]_epexVars

-----------------------------------------------------------------------------
(* Properties.                                                             *)

\* The spacings that no other between neighbouring slots occurs more often than;
\* the one that was asked for where there are no neighbours.
CommonSpacings(slots, granularity) ==
    LET pairs == 1..(Len(slots) - 1)
        Gap(i) == slots[i + 1].start - slots[i].start
        Often(i) == Cardinality({j \in pairs : Gap(j) = Gap(i)})
    IN  IF Len(slots) < 2 THEN {granularity}
        ELSE {Gap(i) : i \in {j \in pairs : \A k \in pairs : Often(k) <= Often(j)}}

\* The slots a feed yields, whatever its order, gaps and repetitions: they
\* have a length, follow each other and do not overlap, and every start that
\* the feed names usably is the start of one slot, with the price the feed
\* lists first for it.  They last as long as one of the commonest spacings, cut
\* short only where the next one starts: none is stretched over a hole.
SlotsAreSound ==
    fetched =>
        LET slots == payload.slots IN
        /\ \A i \in DOMAIN slots : slots[i].start < slots[i].end
        /\ \A i \in 1..(Len(slots) - 1) : slots[i].end <= slots[i + 1].start
        /\ {slots[i].start : i \in DOMAIN slots} = ToSet(feed) \ {Malformed}
        /\ \A i \in DOMAIN slots :
              slots[i].price = Min({k \in DOMAIN feed : feed[k] = slots[i].start})
        /\ \E length \in CommonSpacings(slots, requested) : \A i \in DOMAIN slots :
              slots[i].end =
                  IF i < Len(slots) /\ slots[i + 1].start < slots[i].start + length
                  THEN slots[i + 1].start ELSE slots[i].start + length
        /\ payload.skipped = Cardinality({k \in DOMAIN feed : feed[k] = Malformed})

\* The slot that holds at an instant; none in a gap.
SlotsAt(t) ==
    {i \in DOMAIN payload.slots : payload.slots[i].start <= t /\ t < payload.slots[i].end}

\* A consumer that sleeps to the boundary it is told misses nothing: the slot
\* that holds does not change while it sleeps, and has changed when it wakes.
BoundaryIsNextChange ==
    [][now # Asleep /\ now' # Asleep =>
          /\ now < now'
          /\ \A t \in now..(now' - 1) : SlotsAt(t) = SlotsAt(now)
          /\ SlotsAt(now') # SlotsAt(now)]_epexVars

\* It is told to stop only when no slot is to come or to end.
SleepsToTheEnd ==
    [][now # Asleep /\ now' = Asleep =>
          \A i \in DOMAIN payload.slots : payload.slots[i].end <= now]_epexVars
=============================================================================
