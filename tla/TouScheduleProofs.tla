-------------------------- MODULE TouScheduleProofs --------------------------
(***************************************************************************)
(* What is proved of current_slot, for schedules, days and weeks of any length *)
(* and a clock change of any size: the answer is what the week says, the        *)
(* transition it reports lies ahead, and the slot it reports holds until then   *)
(* unless the clock changes meanwhile.                                        *)
(***************************************************************************)
EXTENDS TouSchedule, BoundedRecursion, FiniteSetTheorems, SequenceTheorems

-----------------------------------------------------------------------------
(* Dates and wall times.                                                   *)

LEMMA Quotient ==
    ASSUME NEW D \in Nat \ {0}, NEW w \in Int
    PROVE  w \div D \in Int /\ (w \div D) * D <= w /\ w < (w \div D) * D + D
OBVIOUS

LEMMA Remainder ==
    ASSUME NEW D \in Nat \ {0}, NEW w \in Int
    PROVE  w % D = w - (w \div D) * D
OBVIOUS

LEMMA QuotientIsUnique ==
    ASSUME NEW D \in Nat \ {0}, NEW q \in Int, NEW w \in Int, q * D <= w, w < q * D + D
    PROVE  w \div D = q
<1>1. w \div D \in Int /\ (w \div D) * D <= w /\ w < (w \div D) * D + D
  BY Quotient
<1> DEFINE p == w \div D
<1> HIDE DEF p
<1>2. p \in Int /\ p * D <= w /\ w < p * D + D
  BY <1>1 DEF p
<1>3. p = q
  BY <1>2
<1> QED BY <1>3 DEF p

LEMMA QuotientShifts ==
    ASSUME NEW D \in Nat \ {0}, NEW w \in Int, NEW k \in Int
    PROVE  (w - k * D) \div D = (w \div D) - k
<1> DEFINE q == w \div D
<1>1. q \in Int /\ q * D <= w /\ w < q * D + D
  BY Quotient
<1> HIDE DEF q
<1>2. (q - k) * D = q * D - k * D /\ k * D \in Int /\ q * D \in Int
  BY <1>1
<1>3. (q - k) * D <= w - k * D /\ w - k * D < (q - k) * D + D
  BY <1>1, <1>2
<1>4. w - k * D \in Int /\ q - k \in Int
  BY <1>1, <1>2
<1>5. (w - k * D) \div D = q - k
  BY <1>3, <1>4, QuotientIsUnique
<1> QED BY <1>5 DEF q

LEMMA RemainderShifts ==
    ASSUME NEW D \in Nat \ {0}, NEW w \in Int, NEW k \in Int
    PROVE  (w - k * D) % D = w % D
<1>1. \A x \in Int : x % D = x - (x \div D) * D
  OBVIOUS
<1> DEFINE q == w \div D
<1>2. q \in Int
  BY Quotient
<1>3. (w - k * D) \div D = q - k
  BY QuotientShifts
<1> HIDE DEF q
<1>4. (q - k) * D = q * D - k * D /\ k * D \in Int /\ q * D \in Int
  BY <1>2
<1>5. (w - k * D) % D = (w - k * D) - (q - k) * D
  <2> DEFINE x == w - k * D
  <2>1. x \in Int
    BY <1>4
  <2>2. x \div D = q - k
    BY <1>3
  <2> HIDE DEF x
  <2>3. x % D = x - (x \div D) * D
    BY <1>1, <2>1
  <2>4. x % D = x - (q - k) * D
    BY <2>2, <2>3
  <2> QED BY <2>4 DEF x
<1>6. w % D = w - q * D
  BY <1>1 DEF q
<1> QED BY <1>4, <1>5, <1>6

-----------------------------------------------------------------------------
(* The slots that are tried.                                               *)

WeekOfSlots == [0..(WeekLength - 1) -> Seq(Slots)]

\* The n-th slot of a date.
Dated(wk, d, n) == [slot |-> wk[d % WeekLength][n], day |-> d, name |-> <<d % WeekLength, n>>]

LEMMA SlotsOfDateAre ==
    ASSUME NEW wk \in WeekOfSlots, NEW d \in Int
    PROVE  /\ wk[d % WeekLength] \in Seq(Slots)
           /\ DOMAIN SlotsOfDate(wk, d) = 1..Len(wk[d % WeekLength])
           /\ \A n \in DOMAIN wk[d % WeekLength] : SlotsOfDate(wk, d)[n] = Dated(wk, d, n)
<1>1. d % WeekLength \in 0..(WeekLength - 1)
  BY TouAssumption
<1>2. wk[d % WeekLength] \in Seq(Slots)
  BY <1>1 DEF WeekOfSlots
<1> QED BY <1>2 DEF SlotsOfDate, Dated

\* Those of the date of the wall time, in their places, then those of the day before.
Layout(wk, w, today, first, second) ==
    /\ today \in Int /\ Len(first) \in Nat /\ Len(second) \in Nat
    /\ DOMAIN first = 1..Len(first) /\ DOMAIN second = 1..Len(second)
    /\ DOMAIN Tried(wk, w) = 1..(Len(first) + Len(second))
    /\ \A i \in 1..Len(first) : Tried(wk, w)[i] = Dated(wk, today, i)
    /\ \A i \in 1..Len(second) : Tried(wk, w)[Len(first) + i] = Dated(wk, today - 1, i)

\* A function on the places 1..n is a sequence of its length.
LEMMA ListOf ==
    ASSUME NEW S, NEW n \in Nat, NEW s, s = [i \in 1..n |-> s[i]], \A i \in 1..n : s[i] \in S
    PROVE  s \in Seq(S) /\ Len(s) = n
<1>1. s \in [1..n -> S]
  OBVIOUS
<1>2. \A r : r \in [1..n -> S] => r \in Seq(S) /\ Len(r) = n
  OBVIOUS
<1> QED BY <1>1, <1>2

LEMMA TriedAre ==
    ASSUME NEW wk \in WeekOfSlots, NEW w \in Int, NEW today, today = w \div DayTicks,
           NEW first, first = wk[today % WeekLength],
           NEW second, second = wk[(today - 1) % WeekLength]
    PROVE  Layout(wk, w, today, first, second)
<1>1. today \in Int /\ today - 1 \in Int
  BY TouAssumption, Quotient
<1> DEFINE a == SlotsOfDate(wk, today)
           b == SlotsOfDate(wk, today - 1)
<1>2. /\ Len(first) \in Nat /\ DOMAIN first = 1..Len(first) /\ DOMAIN a = 1..Len(first)
      /\ \A i \in 1..Len(first) : a[i] = Dated(wk, today, i)
  <2>1. first \in Seq(Slots)
    BY <1>1, SlotsOfDateAre
  <2>2. Len(first) \in Nat /\ DOMAIN first = 1..Len(first)
    BY <2>1
  <2> HIDE DEF a
  <2> QED BY <1>1, <2>2, SlotsOfDateAre DEF a
<1>3. /\ Len(second) \in Nat /\ DOMAIN second = 1..Len(second) /\ DOMAIN b = 1..Len(second)
      /\ \A i \in 1..Len(second) : b[i] = Dated(wk, today - 1, i)
  <2>1. second \in Seq(Slots)
    BY <1>1, SlotsOfDateAre
  <2>2. Len(second) \in Nat /\ DOMAIN second = 1..Len(second)
    BY <2>1
  <2> HIDE DEF b
  <2> QED BY <1>1, <2>2, SlotsOfDateAre DEF b
<1> DEFINE Items == {a[i] : i \in DOMAIN a} \cup {b[i] : i \in DOMAIN b}
<1>4. a \in Seq(Items) /\ Len(a) = Len(first)
  <2>1. a = [i \in 1..Len(first) |-> a[i]]
    BY <1>2 DEF SlotsOfDate
  <2>2. \A i \in 1..Len(first) : a[i] \in Items
    BY <1>2
  <2> HIDE DEF a, Items
  <2>3. Len(first) \in Nat
    BY <1>2
  <2> QED BY <2>1, <2>2, <2>3, ListOf, Zenon
<1>5. b \in Seq(Items) /\ Len(b) = Len(second)
  <2>1. b = [i \in 1..Len(second) |-> b[i]]
    BY <1>3 DEF SlotsOfDate
  <2>2. \A i \in 1..Len(second) : b[i] \in Items
    BY <1>3
  <2> HIDE DEF b, Items
  <2>3. Len(second) \in Nat
    BY <1>3
  <2> QED BY <2>1, <2>2, <2>3, ListOf, Zenon
<1>6. Tried(wk, w) = a \o b
  BY DEF Tried
<1> HIDE DEF a, b, Items
<1>7. /\ DOMAIN (a \o b) = 1..(Len(a) + Len(b))
      /\ \A i \in 1..Len(a) : (a \o b)[i] = a[i]
      /\ \A i \in 1..Len(b) : (a \o b)[Len(a) + i] = b[i]
  <2>1. Len(a) \in Nat /\ Len(b) \in Nat /\ Len(a \o b) = Len(a) + Len(b) /\ a \o b \in Seq(Items)
    <3>1. Len(a) \in Nat /\ Len(b) \in Nat
      BY <1>4, <1>5
    <3> QED BY <1>4, <1>5, <3>1, ConcatProperties
  <2>2. DOMAIN (a \o b) = 1..(Len(a) + Len(b))
    BY <2>1
  <2>3. ASSUME NEW i \in 1..Len(a) PROVE (a \o b)[i] = a[i]
    BY <1>4, <1>5
  <2>4. ASSUME NEW i \in 1..Len(b) PROVE (a \o b)[Len(a) + i] = b[i]
    <3>1. Len(a) + i \in 1..(Len(a) + Len(b)) /\ ~(Len(a) + i <= Len(a)) /\ Len(a) + i - Len(a) = i
      BY <2>1
    <3> QED BY <1>4, <1>5, <3>1
  <2> QED BY <2>2, <2>3, <2>4
<1> QED BY <1>1, <1>2, <1>3, <1>4, <1>5, <1>6, <1>7 DEF Layout

\* A slot is tried exactly at the wall times of its date and of the next.
LEMMA TriedIsDated ==
    ASSUME NEW wk \in WeekOfSlots, NEW w \in Int, NEW i \in DOMAIN Tried(wk, w)
    PROVE  \E d \in {w \div DayTicks, (w \div DayTicks) - 1} :
           \E n \in DOMAIN wk[d % WeekLength] : Tried(wk, w)[i] = Dated(wk, d, n)
<1> DEFINE today == w \div DayTicks
           first == wk[today % WeekLength]
           second == wk[(today - 1) % WeekLength]
<1>1. Layout(wk, w, today, first, second)
  BY TriedAre
<1>2. CASE i <= Len(first)
  <2>1. i \in DOMAIN first /\ Tried(wk, w)[i] = Dated(wk, today, i)
    <3> HIDE DEF today, first, second
    <3> QED BY <1>1, <1>2 DEF Layout
  <2> QED BY <2>1
<1>3. CASE ~(i <= Len(first))
  <2> DEFINE n == i - Len(first)
  <2>1. n \in DOMAIN second /\ Tried(wk, w)[i] = Dated(wk, today - 1, n)
    <3> HIDE DEF today, first, second
    <3>1. n \in 1..Len(second) /\ Len(first) + n = i
      BY <1>1, <1>3 DEF Layout
    <3> HIDE DEF n
    <3> QED BY <1>1, <3>1 DEF Layout
  <2> HIDE DEF n
  <2> QED BY <2>1
<1> QED BY <1>2, <1>3

LEMMA DatedIsTried ==
    ASSUME NEW wk \in WeekOfSlots, NEW w \in Int,
           NEW d \in {w \div DayTicks, (w \div DayTicks) - 1},
           NEW n \in DOMAIN wk[d % WeekLength]
    PROVE  \E i \in DOMAIN Tried(wk, w) : Tried(wk, w)[i] = Dated(wk, d, n)
<1> DEFINE today == w \div DayTicks
           first == wk[today % WeekLength]
           second == wk[(today - 1) % WeekLength]
<1>1. Layout(wk, w, today, first, second)
  BY TriedAre
<1>2. CASE d = today
  <2>1. n \in DOMAIN first
    BY <1>2
  <2> HIDE DEF today, first, second
  <2>2. n \in DOMAIN Tried(wk, w) /\ Tried(wk, w)[n] = Dated(wk, today, n)
    BY <1>1, <2>1 DEF Layout
  <2> QED BY <1>2, <2>2
<1>3. CASE d = today - 1
  <2>1. n \in DOMAIN second
    BY <1>3
  <2> HIDE DEF today, first, second
  <2>2. Len(first) + n \in DOMAIN Tried(wk, w) /\ Tried(wk, w)[Len(first) + n] = Dated(wk, today - 1, n)
    BY <1>1, <2>1 DEF Layout
  <2> QED BY <1>3, <2>2
<1> QED BY <1>2, <1>3

-----------------------------------------------------------------------------
(* The slots that hold.                                                    *)

\* Times are ticks of a day, unless they cannot be read.
LEMMA SlotTimes ==
    ASSUME NEW x \in Slots
    PROVE  /\ x.start \in Int /\ x.end \in Int
           /\ x.start # Unreadable => x.start \in 0..(DayTicks - 1) /\ x.end \in 0..(DayTicks - 1)
<1>1. DayTicks \in Int /\ \A t \in Times : t \in 0..(DayTicks - 1)
  BY TouAssumption
<1>2. CASE x \in [start : Times, end : Times]
  <2>1. x.start \in Times /\ x.end \in Times
    BY <1>2
  <2> QED BY <1>1, <2>1
<1>3. CASE x = [start |-> Unreadable, end |-> Unreadable]
  BY <1>3 DEF Unreadable
<1> QED BY <1>2, <1>3 DEF Slots

\* What covers a wall time is a slot of a date, ahead of its end.
LEMMA HeldIsDated ==
    ASSUME NEW wk \in WeekOfSlots, NEW w \in Int, NEW i \in Holding(wk, w)
    PROVE  \E d \in Int : \E n \in DOMAIN wk[d % WeekLength] :
             LET x == wk[d % WeekLength][n] IN
             /\ x \in Slots /\ Tried(wk, w)[i] = Dated(wk, d, n)
             /\ Covers(x, d, w) /\ EndOf(x, d) \in Int
<1>1. i \in DOMAIN Tried(wk, w) /\ Covers(Tried(wk, w)[i].slot, Tried(wk, w)[i].day, w)
  BY DEF Holding
<1>2. PICK d \in {w \div DayTicks, (w \div DayTicks) - 1} :
         \E n \in DOMAIN wk[d % WeekLength] : Tried(wk, w)[i] = Dated(wk, d, n)
  BY <1>1, TriedIsDated
<1>3. PICK n \in DOMAIN wk[d % WeekLength] : Tried(wk, w)[i] = Dated(wk, d, n)
  BY <1>2
<1> DEFINE x == wk[d % WeekLength][n]
<1>4. d \in Int
  BY TouAssumption, Quotient
<1>5. x \in Slots
  BY <1>3, <1>4, SlotsOfDateAre
<1>6. Tried(wk, w)[i].slot = x /\ Tried(wk, w)[i].day = d
  BY <1>3 DEF Dated
<1> HIDE DEF x
<1>7. EndOf(x, d) \in Int
  BY <1>4, <1>5, SlotTimes, TouAssumption DEF EndOf
<1> QED BY <1>1, <1>3, <1>4, <1>5, <1>6, <1>7 DEF x

\* As the wall time runs on towards the end of a slot that holds, it still holds.
LEMMA HoldsOn ==
    ASSUME NEW wk \in WeekOfSlots, NEW v \in Int, NEW w \in Int, v <= w,
           NEW d \in Int, NEW n \in DOMAIN wk[d % WeekLength],
           wk[d % WeekLength][n] \in Slots,
           Covers(wk[d % WeekLength][n], d, v), w < EndOf(wk[d % WeekLength][n], d)
    PROVE  \E j \in Holding(wk, w) : Tried(wk, w)[j] = Dated(wk, d, n)
<1> DEFINE x == wk[d % WeekLength][n]
<1>1. x \in Slots /\ Covers(x, d, v) /\ w < EndOf(x, d)
  OBVIOUS
<1> HIDE DEF x
<1>2. /\ x.start \in 0..(DayTicks - 1) /\ x.end \in 0..(DayTicks - 1)
      /\ DayTicks \in Nat \ {0}
  BY <1>1, SlotTimes, TouAssumption DEF Covers
<1>3. /\ d * DayTicks \in Int /\ (d + 1) * DayTicks = d * DayTicks + DayTicks
      /\ EndOf(x, d) < d * DayTicks + DayTicks + DayTicks
      /\ d * DayTicks + x.start <= v
  <2>1. d * DayTicks \in Int /\ (d + 1) * DayTicks = d * DayTicks + DayTicks
    BY <1>2
  <2>2. EndOf(x, d) = d * DayTicks + DayTicks + x.end \/ EndOf(x, d) = d * DayTicks + x.end
    BY <2>1 DEF EndOf
  <2>3. d * DayTicks + x.start <= v
    BY <1>1 DEF Covers
  <2> QED BY <1>2, <2>1, <2>2, <2>3
<1>4. EndOf(x, d) \in Int
  BY <1>2, <1>3 DEF EndOf
<1>5. Covers(x, d, w)
  BY <1>1, <1>2, <1>3 DEF Covers
<1>6. d \in {w \div DayTicks, (w \div DayTicks) - 1}
  <2>1. CASE w < d * DayTicks + DayTicks
    <3>1. d * DayTicks <= w
      BY <1>2, <1>3
    <3> QED BY <1>2, <2>1, <3>1, QuotientIsUnique
  <2>2. CASE ~(w < d * DayTicks + DayTicks)
    <3>1. (d + 1) * DayTicks <= w /\ w < (d + 1) * DayTicks + DayTicks /\ d + 1 \in Int
      BY <1>1, <1>2, <1>3, <1>4, <2>2
    <3>2. w \div DayTicks = d + 1
      BY <1>2, <3>1, QuotientIsUnique
    <3> QED BY <3>2
  <2> QED BY <2>1, <2>2
<1>7. PICK j \in DOMAIN Tried(wk, w) : Tried(wk, w)[j] = Dated(wk, d, n)
  BY <1>6, DatedIsTried
<1>8. Tried(wk, w)[j].slot = x /\ Tried(wk, w)[j].day = d
  BY <1>7 DEF Dated, x
<1> QED BY <1>5, <1>7, <1>8 DEF Holding

\* The slots that hold repeat from week to week.
LEMMA HoldingRepeats ==
    ASSUME NEW wk \in WeekOfSlots, NEW w \in Int, NEW k \in Int
    PROVE  Holding(wk, w - k * (WeekLength * DayTicks)) = Holding(wk, w)
<1>1. DayTicks \in Nat \ {0} /\ WeekLength \in Nat \ {0}
  BY TouAssumption
<1> DEFINE today == w \div DayTicks
           days == k * WeekLength
           v == w - k * (WeekLength * DayTicks)
<1>2. today \in Int /\ days \in Int /\ today - 1 \in Int
  BY <1>1, Quotient
<1>3. v = w - days * DayTicks /\ v \in Int /\ days * DayTicks \in Int
  BY <1>1
<1> HIDE DEF v
<1>4. v \div DayTicks = today - days
  BY <1>1, <1>2, <1>3, QuotientShifts
<1>5. \A d \in Int : (d - days) % WeekLength = d % WeekLength
  BY <1>1, RemainderShifts
<1> HIDE DEF today, days
<1>6. (today - days) % WeekLength = today % WeekLength
      /\ (today - days - 1) % WeekLength = (today - 1) % WeekLength
  <2>1. today - days - 1 = (today - 1) - days
    BY <1>2
  <2> QED BY <1>2, <1>5, <2>1
<1> DEFINE first == wk[today % WeekLength]
           second == wk[(today - 1) % WeekLength]
<1>7. Layout(wk, w, today, first, second)
  BY TriedAre DEF today
<1>8. Layout(wk, v, today - days, first, second)
  <2>1. first = wk[(today - days) % WeekLength] /\ second = wk[(today - days - 1) % WeekLength]
    BY <1>6
  <2> HIDE DEF first, second
  <2> QED BY <1>3, <1>4, <2>1, TriedAre
<1>9. first \in Seq(Slots) /\ second \in Seq(Slots)
  BY <1>2, SlotsOfDateAre
<1>10. ASSUME NEW x \in Slots, NEW d \in Int PROVE Covers(x, d - days, v) <=> Covers(x, d, w)
  <2>1. /\ (d - days) * DayTicks = d * DayTicks - days * DayTicks
        /\ (d - days + 1) * DayTicks = d * DayTicks - days * DayTicks + DayTicks
        /\ (d + 1) * DayTicks = d * DayTicks + DayTicks
        /\ d * DayTicks \in Int
    BY <1>1, <1>2
  <2>2. EndOf(x, d - days) = EndOf(x, d) - days * DayTicks /\ EndOf(x, d) \in Int
    BY <1>1, <1>3, <2>1, SlotTimes DEF EndOf
  <2> QED BY <1>3, <2>1, <2>2, SlotTimes DEF Covers
<1>11. ASSUME NEW i \in 1..(Len(first) + Len(second))
       PROVE  Covers(Tried(wk, v)[i].slot, Tried(wk, v)[i].day, v)
              <=> Covers(Tried(wk, w)[i].slot, Tried(wk, w)[i].day, w)
  <2>1. CASE i <= Len(first)
    <3>1. /\ Tried(wk, v)[i] = Dated(wk, today - days, i) /\ Tried(wk, w)[i] = Dated(wk, today, i)
          /\ first[i] \in Slots
      <4> HIDE DEF first, second
      <4>1. i \in 1..Len(first) /\ Len(first) \in Nat
        BY <1>7, <2>1 DEF Layout
      <4> QED BY <1>7, <1>8, <1>9, <4>1 DEF Layout
    <3>2. /\ Tried(wk, v)[i].slot = first[i] /\ Tried(wk, w)[i].slot = first[i]
          /\ Tried(wk, v)[i].day = today - days /\ Tried(wk, w)[i].day = today
      BY <1>6, <3>1 DEF Dated
    <3> HIDE DEF first, second
    <3> QED BY <1>2, <1>10, <3>1, <3>2
  <2>2. CASE ~(i <= Len(first))
    <3> DEFINE n == i - Len(first)
    <3>1. /\ Tried(wk, v)[i] = Dated(wk, today - days - 1, n) /\ Tried(wk, w)[i] = Dated(wk, today - 1, n)
          /\ second[n] \in Slots
      <4> HIDE DEF first, second
      <4>1. n \in 1..Len(second) /\ Len(first) + n = i
        BY <1>7, <2>2 DEF Layout
      <4> HIDE DEF n
      <4> QED BY <1>7, <1>8, <1>9, <4>1 DEF Layout
    <3>2. today - days - 1 = (today - 1) - days
      BY <1>2
    <3> HIDE DEF n
    <3>3. /\ Tried(wk, v)[i].slot = second[n] /\ Tried(wk, w)[i].slot = second[n]
          /\ Tried(wk, v)[i].day = (today - 1) - days /\ Tried(wk, w)[i].day = today - 1
      BY <1>6, <3>1, <3>2 DEF Dated
    <3> HIDE DEF first, second
    <3> QED BY <1>2, <1>10, <3>1, <3>3
  <2> QED BY <2>1, <2>2
<1> HIDE DEF first, second
<1>12. Holding(wk, v) = Holding(wk, w)
  BY <1>7, <1>8, <1>11 DEF Holding, Layout
<1> QED BY <1>12 DEF v

\* In a consistent week at most one slot holds, at any wall time.
LEMMA OneHolds ==
    ASSUME NEW wk \in WeekOfSlots, Consistent(wk), NEW w \in Int,
           NEW i \in Holding(wk, w), NEW j \in Holding(wk, w)
    PROVE  i = j
<1> DEFINE c == WeekLength * DayTicks
           k == (w \div c) - 1
<1>1. c \in Nat \ {0}
  BY TouAssumption
<1>2. k \in Int /\ (k + 1) * c <= w /\ w < (k + 1) * c + c
  <2> HIDE DEF c
  <2> DEFINE q == w \div c
  <2>1. q \in Int /\ q * c <= w /\ w < q * c + c
    BY <1>1, Quotient
  <2> HIDE DEF q
  <2>2. q - 1 \in Int /\ (q - 1) + 1 = q
    BY <2>1
  <2> QED BY <2>1, <2>2 DEF q
<1>3. w - k * c \in c..(2 * c - 1) /\ w - k * c \in Int
  <2> HIDE DEF c, k
  <2>1. (k + 1) * c = k * c + c /\ k * c \in Int
    BY <1>1, <1>2
  <2> QED BY <1>1, <1>2, <2>1
<1>4. Holding(wk, w - k * c) = Holding(wk, w)
  <2> HIDE DEF k
  <2> QED BY <1>2, HoldingRepeats
<1>5. Cardinality(Holding(wk, w)) <= 1
  <2>1. 2 * c = 2 * WeekLength * DayTicks
    BY TouAssumption
  <2>2. w - k * c \in (WeekLength * DayTicks)..(2 * WeekLength * DayTicks - 1)
    <3> HIDE DEF k
    <3> QED BY <1>3, <2>1
  <2> HIDE DEF k, c
  <2> QED BY <1>4, <2>2 DEF Consistent
<1>6. IsFiniteSet(Holding(wk, w))
  <2> DEFINE today == w \div DayTicks
             first == wk[today % WeekLength]
             second == wk[(today - 1) % WeekLength]
  <2>1. Len(first) + Len(second) \in Nat /\ DOMAIN Tried(wk, w) = 1..(Len(first) + Len(second))
    <3>1. Layout(wk, w, today, first, second)
      BY TriedAre
    <3> HIDE DEF today, first, second
    <3> QED BY <3>1 DEF Layout
  <2>2. IsFiniteSet(DOMAIN Tried(wk, w))
    <3> HIDE DEF first, second
    <3> QED BY <2>1, FS_Interval
  <2>3. Holding(wk, w) \subseteq DOMAIN Tried(wk, w)
    BY DEF Holding
  <2> QED BY <2>2, <2>3, FS_Subset
<1>7. SUFFICES ASSUME i # j PROVE FALSE
  OBVIOUS
<1>8. Cardinality({i, j}) = 2 /\ {i, j} \subseteq Holding(wk, w)
  <2>1. Cardinality({i}) = 1 /\ IsFiniteSet({i})
    BY FS_Singleton
  <2>2. Cardinality({i} \cup {j}) = 1 + 1
    BY <1>7, <2>1, FS_AddElement
  <2>3. {i} \cup {j} = {i, j}
    OBVIOUS
  <2> QED BY <2>2, <2>3
<1>9. Cardinality({i, j}) <= Cardinality(Holding(wk, w)) /\ Cardinality(Holding(wk, w)) \in Nat
  BY <1>6, <1>8, FS_Subset, FS_CardinalityType
<1> QED BY <1>5, <1>8, <1>9

-----------------------------------------------------------------------------
(* The zone.                                                               *)

\* The instant of a wall time that is ahead on the wall is ahead, in the fold of
\* the question: in the hour shown twice, and around the hour skipped.
LEMMA InstantIsAhead ==
    ASSUME NEW u \in Int, NEW e \in Int, Wall(u) < e
    PROVE  Instant(e, Fold(u)) \in Int /\ u < Instant(e, Fold(u))
<1> USE TouAssumption
<1>1. Shift \in Nat \ {0} /\ Change \in Int
  OBVIOUS
<1>2. CASE clock = "back"
  <2>1. CASE u < Change
    BY <1>1, <1>2, <2>1 DEF Wall, Fold, Instant
  <2>2. CASE u \in Change..(Change + Shift - 1)
    BY <1>1, <1>2, <2>2 DEF Wall, Fold, Instant
  <2>3. CASE u >= Change + Shift
    BY <1>1, <1>2, <2>3 DEF Wall, Fold, Instant
  <2> QED BY <1>1, <2>1, <2>2, <2>3
<1>3. CASE clock = "forward"
  BY <1>1, <1>3 DEF Wall, Fold, Instant
<1>4. CASE clock \notin {"back", "forward"}
  BY <1>4 DEF Wall, Fold, Instant
<1> QED BY <1>2, <1>3, <1>4

\* The wall time runs on up to the end, unless the clock has just changed.
LEMMA WallRunsOn ==
    ASSUME NEW v \in Int, NEW u \in Int, v <= u, u \notin Change..(Change + Shift - 1),
           NEW e \in Int, u < Instant(e, Fold(v))
    PROVE  Wall(v) \in Int /\ Wall(u) \in Int /\ Wall(v) <= Wall(u) /\ Wall(u) < e
<1>1. Shift \in Nat \ {0} /\ Change \in Int
  BY TouAssumption
<1>2. u < Change \/ u >= Change + Shift
  BY <1>1
<1>3. CASE clock = "back"
  <2>1. CASE v < Change
    BY <1>1, <1>2, <1>3, <2>1 DEF Wall, Fold, Instant
  <2>2. CASE v >= Change
    BY <1>1, <1>2, <1>3, <2>2 DEF Wall, Fold, Instant
  <2> QED BY <1>1, <2>1, <2>2
<1>4. CASE clock = "forward"
  BY <1>1, <1>2, <1>4 DEF Wall, Fold, Instant
<1>5. CASE clock \notin {"back", "forward"}
  BY <1>5 DEF Wall, Fold, Instant
<1> QED BY <1>3, <1>4, <1>5

-----------------------------------------------------------------------------
(* current_slot.                                                           *)

LEMMA FoundHolds ==
    ASSUME week \in WeekOfSlots, NEW u \in Int, Holding(week, Wall(u)) # {}
    PROVE  /\ Wall(u) \in Int /\ Min(Holding(week, Wall(u))) \in Holding(week, Wall(u))
<1>1. Wall(u) \in Int
  BY TouAssumption DEF Wall
<1> DEFINE today == Wall(u) \div DayTicks
           first == week[today % WeekLength]
           second == week[(today - 1) % WeekLength]
<1>2. Layout(week, Wall(u), today, first, second)
  BY <1>1, TriedAre
<1> HIDE DEF today, first, second
<1>3. Holding(week, Wall(u)) \in SUBSET Nat
  BY <1>2 DEF Holding, Layout
<1> QED BY <1>1, <1>3, MinOfNaturals

\* The slot found, the end of it, and the instant of that.
LEMMA FoundEnds ==
    ASSUME week \in WeekOfSlots, NEW u \in Int, Holding(week, Wall(u)) # {}
    PROVE  \E d \in Int : \E n \in DOMAIN week[d % WeekLength] :
             LET x == week[d % WeekLength][n] IN
             /\ x \in Slots /\ Found(u) = Dated(week, d, n)
             /\ Covers(x, d, Wall(u)) /\ EndOf(x, d) \in Int
             /\ CurrentSlot(u) = [name |-> <<d % WeekLength, n>>, until |-> Instant(EndOf(x, d), Fold(u))]
<1> DEFINE m == Min(Holding(week, Wall(u)))
<1>1. Wall(u) \in Int /\ m \in Holding(week, Wall(u)) /\ Found(u) = Tried(week, Wall(u))[m]
  BY FoundHolds DEF Found
<1> HIDE DEF m
<1>2. PICK d \in Int : \E n \in DOMAIN week[d % WeekLength] :
             LET x == week[d % WeekLength][n] IN
             /\ x \in Slots /\ Tried(week, Wall(u))[m] = Dated(week, d, n)
             /\ Covers(x, d, Wall(u)) /\ EndOf(x, d) \in Int
  BY <1>1, HeldIsDated
<1>3. PICK n \in DOMAIN week[d % WeekLength] :
             LET x == week[d % WeekLength][n] IN
             /\ x \in Slots /\ Tried(week, Wall(u))[m] = Dated(week, d, n)
             /\ Covers(x, d, Wall(u)) /\ EndOf(x, d) \in Int
  BY <1>2
<1>4. /\ Found(u).slot = week[d % WeekLength][n] /\ Found(u).day = d
      /\ Found(u).name = <<d % WeekLength, n>>
  BY <1>1, <1>3 DEF Dated
<1>5. CurrentSlot(u) = [name |-> <<d % WeekLength, n>>,
                        until |-> Instant(EndOf(week[d % WeekLength][n], d), Fold(u))]
  BY <1>4 DEF CurrentSlot
<1> QED BY <1>1, <1>3, <1>5

\* The instant reported is ahead.
LEMMA UntilIsAhead ==
    ASSUME week \in WeekOfSlots, NEW u \in Int, CurrentSlot(u) # Nothing
    PROVE  CurrentSlot(u).until \in Int /\ u < CurrentSlot(u).until
<1>1. Holding(week, Wall(u)) # {}
  BY DEF CurrentSlot
<1>2. PICK d \in Int : \E n \in DOMAIN week[d % WeekLength] :
         /\ Covers(week[d % WeekLength][n], d, Wall(u)) /\ EndOf(week[d % WeekLength][n], d) \in Int
         /\ CurrentSlot(u).until = Instant(EndOf(week[d % WeekLength][n], d), Fold(u))
  BY <1>1, FoundEnds
<1>3. PICK e \in Int : Wall(u) < e /\ CurrentSlot(u).until = Instant(e, Fold(u))
  BY <1>2 DEF Covers
<1> QED BY <1>3, InstantIsAhead

\* The slot reported holds until then, unless the clock has just changed.
LEMMA NameStays ==
    ASSUME week \in WeekOfSlots, Consistent(week), NEW v \in Int, CurrentSlot(v) # Nothing,
           NEW u \in Int, v <= u, u < CurrentSlot(v).until, u \notin Change..(Change + Shift - 1)
    PROVE  CurrentSlot(u).name = CurrentSlot(v).name
<1>1. Holding(week, Wall(v)) # {}
  BY DEF CurrentSlot
<1>2a. PICK d \in Int : \E n \in DOMAIN week[d % WeekLength] :
         /\ week[d % WeekLength][n] \in Slots
         /\ Covers(week[d % WeekLength][n], d, Wall(v)) /\ EndOf(week[d % WeekLength][n], d) \in Int
         /\ CurrentSlot(v) = [name |-> <<d % WeekLength, n>>,
                              until |-> Instant(EndOf(week[d % WeekLength][n], d), Fold(v))]
  BY <1>1, FoundEnds
<1>2. PICK n \in DOMAIN week[d % WeekLength] :
         /\ week[d % WeekLength][n] \in Slots
         /\ Covers(week[d % WeekLength][n], d, Wall(v)) /\ EndOf(week[d % WeekLength][n], d) \in Int
         /\ CurrentSlot(v) = [name |-> <<d % WeekLength, n>>,
                              until |-> Instant(EndOf(week[d % WeekLength][n], d), Fold(v))]
  BY <1>2a
<1>3. Wall(v) \in Int /\ Wall(u) \in Int /\ Wall(v) <= Wall(u) /\ Wall(u) < EndOf(week[d % WeekLength][n], d)
  BY <1>2, WallRunsOn
<1>4. PICK j \in Holding(week, Wall(u)) : Tried(week, Wall(u))[j] = Dated(week, d, n)
  BY <1>2, <1>3, HoldsOn
<1> DEFINE m == Min(Holding(week, Wall(u)))
<1>5. m \in Holding(week, Wall(u))
  BY <1>4, FoundHolds
<1> HIDE DEF m
<1>6. m = j
  BY <1>3, <1>4, <1>5, OneHolds
<1>7. Found(u) = Dated(week, d, n)
  BY <1>4, <1>6 DEF Found, m
<1>8. Found(u).name = <<d % WeekLength, n>>
  BY <1>7 DEF Dated
<1>9. CurrentSlot(u).name = Found(u).name
  BY <1>4 DEF CurrentSlot
<1> QED BY <1>2, <1>8, <1>9

-----------------------------------------------------------------------------
(* The consumer.                                                           *)

\* It asks at an instant, of a consistent week.
TouInv == week \in WeekOfSlots /\ Consistent(week) /\ now \in Int

LEMMA TouRuns == TouSpec => []TouInv
<1>1. TouInit => TouInv
  <2> SUFFICES ASSUME TouInit PROVE TouInv
    OBVIOUS
  <2>1. SeqOf(Slots, MaxSlots) \subseteq Seq(Slots)
    BY TouAssumption DEF SeqOf
  <2>2. week \in [0..(WeekLength - 1) -> SeqOf(Slots, MaxSlots)]
    BY DEF TouInit, Weeks
  <2> QED BY <2>1, <2>2, TouAssumption DEF TouInit, TouInv, WeekOfSlots
<1>2. TouInv /\ [TouNext]_touVars => TouInv'
  <2> SUFFICES ASSUME TouInv, [TouNext]_touVars PROVE TouInv'
    OBVIOUS
  <2>1. week' = week
    BY DEF TouNext, Sleep, Poll, touVars
  <2>2. WeekOfSlots' = WeekOfSlots /\ (Consistent(week))' = Consistent(week)
    BY <2>1 DEF Consistent, Holding, Tried, SlotsOfDate, Covers, EndOf
  <2>3. now' \in Int
    <3>1. CASE Sleep
      BY <3>1, UntilIsAhead DEF Sleep, TouInv
    <3>2. CASE Poll
      BY <3>2 DEF Poll, TouInv
    <3>3. CASE UNCHANGED touVars
      BY <3>3 DEF touVars, TouInv
    <3> QED BY <3>1, <3>2, <3>3 DEF TouNext
  <2> QED BY <2>1, <2>2, <2>3 DEF TouInv, WeekOfSlots
<1> QED BY <1>1, <1>2, PTL DEF TouSpec

\* The consumer never spins: the instant it is told lies ahead.
THEOREM TransitionIsAhead == TouSpec => NextTransitionIsAhead
<1>1. ASSUME TouInv, [TouNext]_touVars PROVE [now' > now]_touVars
  <2>1. CASE Sleep
    <3>1. now \in Int /\ now' \in Int /\ now < now'
      BY <1>1, <2>1, UntilIsAhead DEF Sleep, TouInv
    <3> QED BY <3>1
  <2>2. CASE Poll
    BY <1>1, <2>2 DEF Poll, TouInv
  <2> QED BY <1>1, <2>1, <2>2 DEF TouNext
<1> QED BY <1>1, TouRuns, PTL DEF TouSpec, NextTransitionIsAhead

\* Over midnight and over the end of the week, the slot that was reported holds
\* until the instant that was reported, except during the ticks after a clock
\* change.
THEOREM SlotHolds == TouSpec => SlotHoldsUntilTransition
<1> DEFINE Holds == asleep' =>
              \A u \in (now..(now' - 1)) \ (Change..(Change + Shift - 1)) :
                  CurrentSlot(u).name = CurrentSlot(now).name
<1>1. ASSUME TouInv, [TouNext]_touVars PROVE [Holds]_touVars
  <2>1. CASE Sleep
    <3>1. /\ week \in WeekOfSlots /\ Consistent(week) /\ now \in Int /\ CurrentSlot(now) # Nothing
          /\ now' = CurrentSlot(now).until /\ now' \in Int
      BY <1>1, <2>1, UntilIsAhead DEF Sleep, TouInv
    <3>2. ASSUME NEW u \in (now..(now' - 1)) \ (Change..(Change + Shift - 1))
          PROVE  CurrentSlot(u).name = CurrentSlot(now).name
      <4>1. u \in Int /\ now <= u /\ u < CurrentSlot(now).until /\ u \notin Change..(Change + Shift - 1)
        BY <3>1
      <4> QED BY <3>1, <4>1, NameStays
    <3> QED BY <3>2
  <2>2. CASE Poll
    BY <2>2 DEF Poll
  <2>3. CASE UNCHANGED touVars
    BY <2>3
  <2> QED BY <1>1, <2>1, <2>2, <2>3 DEF TouNext
<1>2. SlotHoldsUntilTransition <=> [][Holds]_touVars
  BY DEF SlotHoldsUntilTransition
<1> HIDE DEF Holds
<1> QED BY <1>1, <1>2, TouRuns, PTL DEF TouSpec
-----------------------------------------------------------------------------
(* The week as a circle.                                                   *)

\* How long a slot lasts: at most a day.
Lasting(x) == ((x.end - x.start - 1) % DayTicks) + 1

LEMMA LastsToItsEnd ==
    ASSUME NEW x \in Slots, x.start # Unreadable, NEW d \in Int
    PROVE  /\ Lasting(x) \in 1..DayTicks
           /\ d * DayTicks \in Int /\ EndOf(x, d) = d * DayTicks + x.start + Lasting(x)
<1>1. /\ DayTicks \in Nat \ {0}
      /\ x.start \in 0..(DayTicks - 1) /\ x.end \in 0..(DayTicks - 1)
  BY SlotTimes, TouAssumption
<1>2. d * DayTicks \in Int /\ (d + 1) * DayTicks = d * DayTicks + DayTicks
  BY <1>1
<1> DEFINE r == x.end - x.start - 1
<1>3. CASE x.end <= x.start
  <2> DEFINE before == -1
  <2>1. /\ r \in Int /\ before \in Int /\ before * DayTicks = -DayTicks
        /\ before * DayTicks <= r /\ r < before * DayTicks + DayTicks
    BY <1>1, <1>3
  <2> HIDE DEF r, before
  <2>2. r \div DayTicks = before
    BY <1>1, <2>1, QuotientIsUnique
  <2>3. r % DayTicks = r + DayTicks
    BY <1>1, <2>1, <2>2
  <2>4. Lasting(x) = r + DayTicks + 1
    BY <2>3 DEF Lasting, r
  <2>5. EndOf(x, d) = (d + 1) * DayTicks + x.end
    BY <1>3 DEF EndOf
  <2> QED BY <1>1, <1>2, <2>1, <2>4, <2>5 DEF r
<1>4. CASE ~(x.end <= x.start)
  <2>1. r \in 0..(DayTicks - 1)
    BY <1>1, <1>4
  <2> HIDE DEF r
  <2>2. r % DayTicks = r
    BY <1>1, <2>1
  <2>3. Lasting(x) = r + 1 /\ EndOf(x, d) = d * DayTicks + x.end
    BY <1>4, <2>2 DEF Lasting, EndOf, r
  <2> QED BY <1>1, <1>2, <2>1, <2>3 DEF r
<1> QED BY <1>3, <1>4

\* On the circle: a slot of weekday e contains a wall time if and only if the slot
\* of some date of that weekday covers it.
StretchHolds(e, x, w) == (w - e * DayTicks - x.start) % (WeekLength * DayTicks) < Lasting(x)

LEMMA ContainedIsCovered ==
    ASSUME NEW x \in Slots, x.start # Unreadable, NEW w \in Int, NEW e \in 0..(WeekLength - 1),
           StretchHolds(e, x, w)
    PROVE  \E d \in Int : d % WeekLength = e /\ Covers(x, d, w)
<1> DEFINE c == WeekLength * DayTicks
           y == w - e * DayTicks - x.start
           k == y \div c
           d == e + k * WeekLength
<1>1. /\ DayTicks \in Nat \ {0} /\ WeekLength \in Nat \ {0} /\ c \in Nat \ {0}
      /\ x.start \in Int /\ x.end # Unreadable
  BY SlotTimes, TouAssumption DEF Unreadable
<1>2. e * DayTicks \in Int /\ y \in Int
  BY <1>1
<1>3. k \in Int /\ y % c = y - k * c /\ 0 <= y % c
  <2> HIDE DEF y, c
  <2> QED BY <1>1, <1>2
<1>4. y % c < Lasting(x)
  BY DEF StretchHolds
<1> HIDE DEF k
<1>5. d \in Int /\ d % WeekLength = e
  <2>1. d \in Int /\ d - k * WeekLength = e /\ k * WeekLength \in Int
    BY <1>1, <1>3
  <2> HIDE DEF d
  <2>2. d % WeekLength = e % WeekLength
    BY <1>1, <1>3, <2>1, RemainderShifts
  <2>3. e % WeekLength = e
    BY <1>1
  <2> QED BY <2>1, <2>2, <2>3
<1>6. d * DayTicks = e * DayTicks + k * c
  BY <1>1, <1>3
<1>7. w - d * DayTicks - x.start = y - k * c /\ k * c \in Int
  <2>1. k * c \in Int
    BY <1>1, <1>3
  <2> QED BY <1>1, <1>2, <1>6, <2>1
<1> HIDE DEF d, y, c
<1>8. d * DayTicks + x.start <= w /\ w < d * DayTicks + x.start + Lasting(x)
  <2>1. d * DayTicks \in Int /\ Lasting(x) \in Int
    BY <1>5, LastsToItsEnd
  <2>2. y - k * c \in Int
    BY <1>2, <1>7
  <2> QED BY <1>1, <1>3, <1>4, <1>7, <2>1, <2>2
<1>9. Covers(x, d, w)
  BY <1>1, <1>5, <1>8, LastsToItsEnd DEF Covers
<1> QED BY <1>5, <1>9

LEMMA CoveredIsContained ==
    ASSUME NEW x \in Slots, NEW w \in Int, NEW d \in Int, Covers(x, d, w)
    PROVE  x.start # Unreadable /\ StretchHolds(d % WeekLength, x, w)
<1> DEFINE c == WeekLength * DayTicks
           e == d % WeekLength
           k == d \div WeekLength
           y == w - e * DayTicks - x.start
           z == w - d * DayTicks - x.start
<1>1. /\ DayTicks \in Nat \ {0} /\ WeekLength \in Nat \ {0} /\ c \in Nat \ {0} /\ DayTicks <= c
      /\ x.start \in Int /\ x.start # Unreadable
  BY SlotTimes, TouAssumption DEF Covers
<1>2. /\ d * DayTicks \in Int /\ Lasting(x) \in 1..DayTicks
      /\ EndOf(x, d) = d * DayTicks + x.start + Lasting(x)
  BY <1>1, LastsToItsEnd
<1>3. z \in Int /\ 0 <= z /\ z < Lasting(x)
  BY <1>1, <1>2 DEF Covers
<1>4. k \in Int /\ e \in Int /\ d = e + k * WeekLength
  BY <1>1
<1> HIDE DEF k, e
<1>5. d * DayTicks = e * DayTicks + k * c /\ e * DayTicks \in Int /\ k * c \in Int
  BY <1>1, <1>4
<1>6. y = z + k * c /\ y \in Int
  BY <1>1, <1>2, <1>5
<1> HIDE DEF y, z, c
<1>7. y % c = z
  <2>1. k * c <= y /\ y < k * c + c
    BY <1>1, <1>2, <1>3, <1>5, <1>6
  <2>2. y \div c = k
    BY <1>1, <1>4, <1>6, <2>1, QuotientIsUnique
  <2>3. y % c = y - (y \div c) * c
    BY <1>1, <1>6, Remainder
  <2> QED BY <1>3, <1>5, <1>6, <2>2, <2>3
<1> QED BY <1>1, <1>3, <1>7 DEF StretchHolds, y, c, e

\* What current_slot answers is what the circle says.
LEMMA AnswerOfWeek ==
    ASSUME TouInv
    PROVE  AnswersFromWeek
<1> DEFINE w == Wall(now)
           Places == UNION {{<<d, i>> : i \in DOMAIN week[d]} : d \in DOMAIN week}
           scheduled == {p \in Places : /\ week[p[1]][p[2]].start # Unreadable
                                        /\ StretchHolds(p[1], week[p[1]][p[2]], w)}
<1>1. week \in WeekOfSlots /\ Consistent(week) /\ now \in Int /\ w \in Int
  BY TouAssumption DEF TouInv, Wall
<1>2. AnswersFromWeek <=>
        IF scheduled = {} THEN CurrentSlot(now) = Nothing ELSE scheduled = {CurrentSlot(now).name}
  BY DEF AnswersFromWeek, StretchHolds, Lasting
<1>3. ASSUME Holding(week, w) # {} PROVE scheduled # {}
  <2>1. PICK i \in Holding(week, w) : TRUE
    BY <1>3
  <2>2. PICK d \in Int : \E n \in DOMAIN week[d % WeekLength] :
          week[d % WeekLength][n] \in Slots /\ Covers(week[d % WeekLength][n], d, w)
    BY <1>1, <2>1, HeldIsDated
  <2>3. PICK n \in DOMAIN week[d % WeekLength] :
          week[d % WeekLength][n] \in Slots /\ Covers(week[d % WeekLength][n], d, w)
    BY <2>2
  <2>4. d % WeekLength \in DOMAIN week
    BY <1>1, TouAssumption DEF WeekOfSlots
  <2> DEFINE p == <<d % WeekLength, n>>
  <2>5. p \in Places
    BY <2>4
  <2>6. p \in scheduled
    BY <1>1, <2>3, <2>5, CoveredIsContained
  <2> QED BY <2>6
<1>4. ASSUME NEW p \in scheduled
      PROVE  Holding(week, w) # {} /\ CurrentSlot(now).name = p
  <2>1. PICK e \in DOMAIN week : \E n \in DOMAIN week[e] : p = <<e, n>>
    OBVIOUS
  <2>2. PICK n \in DOMAIN week[e] : p = <<e, n>>
    BY <2>1
  <2>3. /\ e \in 0..(WeekLength - 1) /\ week[e] \in Seq(Slots)
        /\ week[e][n].start # Unreadable /\ StretchHolds(e, week[e][n], w)
    BY <1>1, <2>2 DEF WeekOfSlots
  <2>4. week[e][n] \in Slots
    BY <2>3
  <2>5. PICK d \in Int : d % WeekLength = e /\ Covers(week[e][n], d, w)
    BY <1>1, <2>3, <2>4, ContainedIsCovered
  <2>6. EndOf(week[e][n], d) \in Int /\ w < EndOf(week[e][n], d)
    <3>1. d * DayTicks \in Int /\ (d + 1) * DayTicks \in Int
      BY TouAssumption
    <3> QED BY <2>4, <2>5, <3>1, SlotTimes DEF Covers, EndOf
  <2>7. PICK j \in Holding(week, w) : Tried(week, w)[j] = Dated(week, d, n)
    <3> HIDE DEF w
    <3> QED BY <1>1, <2>4, <2>5, <2>6, HoldsOn
  <2>8. Min(Holding(week, w)) = j
    BY <1>1, <2>7, FoundHolds, OneHolds
  <2>9. Found(now).name = <<e, n>>
    BY <2>5, <2>7, <2>8 DEF Found, Dated
  <2> QED BY <2>2, <2>7, <2>9 DEF CurrentSlot
<1>5. CASE scheduled = {}
  BY <1>2, <1>3, <1>5 DEF CurrentSlot
<1>6. CASE scheduled # {}
  <2>1. scheduled = {CurrentSlot(now).name}
    <3> HIDE DEF scheduled
    <3> QED BY <1>4, <1>6
  <2> QED BY <1>2, <1>6, <2>1
<1> QED BY <1>5, <1>6

\* The answer is what the week says, read as a circle: over midnight, the end of
\* the week and with the slots of a weekday in any order.
THEOREM AnswerIsOfWeek == TouSpec => []AnswersFromWeek
BY TouRuns, AnswerOfWeek, PTL
=============================================================================
