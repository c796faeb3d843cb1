----------------------------- MODULE TouSchedule -----------------------------
(***************************************************************************)
(* Time-of-use tariffs: TouDirectionSchedule.current_slot (models.py) says   *)
(* which slot of a weekly schedule holds at an instant, and when it ends.  A *)
(* consumer sleeps until then and asks again.                                *)
(*                                                                         *)
(* The schedule is written in the wall time of a zone, the consumer lives in *)
(* absolute time, and the zone's clock may be put back or forward once.      *)
(* Instants count ticks; a datetime of the zone is a wall tick, counted from *)
(* the first midnight, and a fold.                                          *)
(***************************************************************************)
EXTENDS Integers, SequencesExt

CONSTANTS
    DayTicks,     \* ticks in a day
    WeekLength,   \* days in a week: 7 in the code
    Horizon,      \* bound: the consumer asks at instants 0..Horizon
    Change,       \* the instant at which the clock is put back or forward
    Shift,        \* by how many ticks
    Times,        \* the wall times slots start and end at, within a day
    MaxSlots,     \* bound: slots of one weekday
    Clocks        \* what the zone may do at Change

ASSUME TouAssumption ==
    /\ DayTicks \in Nat \ {0} /\ WeekLength \in Nat \ {0} /\ Horizon \in Nat
    /\ Shift \in Nat \ {0} /\ Change \in Shift..Horizon
    /\ Times \subseteq 0..(DayTicks - 1) /\ MaxSlots \in Nat
    /\ Clocks \subseteq {"steady", "back", "forward"}

VARIABLES
    week,     \* per weekday, its sequence of slots
    clock,    \* what the zone does at Change
    now,      \* the instant at which the consumer asks
    asleep    \* it sleeps until the instant it was told

touVars == <<week, clock, now, asleep>>

\* A time of the schedule that is not HH:MM.
Unreadable == -1

Slots == [start : Times, end : Times] \cup {[start |-> Unreadable, end |-> Unreadable]}
Weeks == [0..(WeekLength - 1) -> SeqOf(Slots, MaxSlots)]

-----------------------------------------------------------------------------
(* The zone.                                                               *)

Wall(u) ==
    CASE clock = "back" /\ u >= Change -> u - Shift
      [] clock = "forward" /\ u >= Change -> u + Shift
      [] OTHER -> u

\* 1 in the second pass of the wall times that the clock shows twice.
Fold(u) == IF clock = "back" /\ u \in Change..(Change + Shift - 1) THEN 1 ELSE 0

\* The instant a wall time with a fold denotes.  A wall time that is skipped
\* counts from the offset before the change, or after it with fold 1.
Instant(w, fold) ==
    CASE clock = "back" /\ w >= Change - Shift * fold -> w + Shift
      [] clock = "forward" /\ w >= Change + Shift * (1 - fold) -> w - Shift
      [] OTHER -> w

-----------------------------------------------------------------------------
(* current_slot                                                            *)

\* Mutant of EndOf: only an end before the start is on the next date.
EndOfOrEmpty(slot, day) == (IF slot.end < slot.start THEN day + 1 ELSE day) * DayTicks + slot.end

\* The wall time at which a slot of a date ends: on the next date if its end
\* is not later in the day than its start.
EndOf(slot, day) == (IF slot.end <= slot.start THEN day + 1 ELSE day) * DayTicks + slot.end

\* A slot of a date holds at a wall time.
Covers(slot, day, w) ==
    /\ slot.start # Unreadable /\ slot.end # Unreadable
    /\ day * DayTicks + slot.start <= w
    /\ w < EndOf(slot, day)

\* The slots of a date, in their order.  A slot is known by its weekday and
\* its place there.
SlotsOfDate(wk, day) ==
    LET slots == wk[day % WeekLength]
    IN  [i \in DOMAIN slots |-> [slot |-> slots[i], day |-> day, name |-> <<day % WeekLength, i>>]]

\* The slots in the order they are tried: those of the date of a wall time
\* first, then those of the day before.
Tried(wk, w) ==
    LET today == w \div DayTicks
    IN  SlotsOfDate(wk, today) \o SlotsOfDate(wk, today - 1)

\* Mutant of Holding: what began yesterday is forgotten at midnight.
HoldingToday(wk, w) ==
    LET tried == Tried(wk, w)
    IN  {i \in DOMAIN tried : /\ tried[i].day = w \div DayTicks
                              /\ Covers(tried[i].slot, tried[i].day, w)}

\* The places in that order of the slots that hold.
Holding(wk, w) ==
    LET tried == Tried(wk, w)
    IN  {i \in DOMAIN tried : Covers(tried[i].slot, tried[i].day, w)}

\* The answer when no slot holds.
Nothing == [name |-> <<>>, until |-> -1]

\* The first of the slots that hold at an instant.
Found(u) == Tried(week, Wall(u))[Min(Holding(week, Wall(u)))]

\* Mutant of CurrentSlot: the end is taken in the first pass of the hour.
FirstPassEnd(u) ==
    IF Holding(week, Wall(u)) = {} THEN Nothing
    ELSE [name |-> Found(u).name, until |-> Instant(EndOf(Found(u).slot, Found(u).day), 0)]

\* That slot, and the instant of its end in the fold of the question.
CurrentSlot(u) ==
    IF Holding(week, Wall(u)) = {} THEN Nothing
    ELSE [name |-> Found(u).name, until |-> Instant(EndOf(Found(u).slot, Found(u).day), Fold(u))]

-----------------------------------------------------------------------------
\* No two slots of a week hold at one wall time.
Consistent(wk) ==
    \A w \in (WeekLength * DayTicks)..(2 * WeekLength * DayTicks - 1) : Cardinality(Holding(wk, w)) <= 1

TouInit ==
    /\ week \in {wk \in Weeks : Consistent(wk)}
    /\ clock \in Clocks
    /\ now \in 0..Horizon
    /\ asleep = FALSE

\* The consumer sleeps until the instant it was told ...
Sleep ==
    /\ now <= Horizon
    /\ CurrentSlot(now) # Nothing
    /\ now' = CurrentSlot(now).until
    /\ asleep' = TRUE
    /\ UNCHANGED <<week, clock>>

\* ... or asks again a tick later if there was none.
Poll ==
    /\ now <= Horizon
    /\ CurrentSlot(now) = Nothing
    /\ now' = now + 1
    /\ asleep' = FALSE
    /\ UNCHANGED <<week, clock>>

TouNext == Sleep \/ Poll
TouSpec == TouInit /\ [][TouNext]_touVars

-----------------------------------------------------------------------------
(* Properties.                                                             *)

\* The instant the consumer is told lies ahead, also in the hour the clock
\* shows twice and around the hour it skips: the consumer never spins.
NextTransitionIsAhead == [][now' > now]_touVars

\* Over midnight, over the end of the week and with the slots of a weekday in
\* any order, the slot that was reported holds until the instant that was
\* reported, except during the ticks after a clock change.
SlotHoldsUntilTransition ==
    [][asleep' =>
          \A u \in (now..(now' - 1)) \ (Change..(Change + Shift - 1)) :
              CurrentSlot(u).name = CurrentSlot(now).name]_touVars

\* The answer is what the week says, read as a circle: the slot whose stretch
\* of at most a day contains the wall time, wherever midnight, the end of the
\* week and the order of the slots lie.
AnswersFromWeek ==
    LET Circle == WeekLength * DayTicks
        Stretch(slot) == ((slot.end - slot.start - 1) % DayTicks) + 1
        Elapsed(d, slot) == (Wall(now) - d * DayTicks - slot.start) % Circle
        Places == UNION {{<<d, i>> : i \in DOMAIN week[d]} : d \in DOMAIN week}
        scheduled == {p \in Places :
                         /\ week[p[1]][p[2]].start # Unreadable
                         /\ Elapsed(p[1], week[p[1]][p[2]]) < Stretch(week[p[1]][p[2]])}
    IN  IF scheduled = {} THEN CurrentSlot(now) = Nothing
        ELSE scheduled = {CurrentSlot(now).name}

\* current_slot "Return (slot_code, next_transition)": the reported slot holds
\* until the reported instant, without exception.
ReturnsNextTransition ==
    [][asleep' => \A u \in now..(now' - 1) : CurrentSlot(u).name = CurrentSlot(now).name]_touVars
=============================================================================
