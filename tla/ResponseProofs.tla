--------------------------- MODULE ResponseProofs ---------------------------
(***************************************************************************)
(* What the parsers keep and count of a response, and what a consumer learns  *)
(* from its model, for lists of every length and entries of every kind.      *)
(***************************************************************************)
EXTENDS ResponseQueries, BoundedRecursion, FiniteSetTheorems, SequenceTheorems

-----------------------------------------------------------------------------
(* Lists.                                                                  *)

\* A function on the first naturals is a sequence.
LEMMA ListOf ==
    ASSUME NEW n \in Nat, NEW S, NEW f \in [1..n -> S]
    PROVE  f \in Seq(S) /\ Len(f) = n /\ DOMAIN f = 1..n
<1>1. \A g : g \in [1..n -> S] => g \in Seq(S) /\ Len(g) = n /\ DOMAIN g = 1..n
  OBVIOUS
<1> QED BY <1>1

\* Lists up to a bound are lists.
LEMMA ListsUpTo ==
    ASSUME NEW n \in Nat, NEW S, NEW s \in SeqOf(S, n)
    PROVE  s \in Seq(S) /\ DOMAIN s = 1..Len(s)
<1>1. PICK m \in 0..n : s \in [1..m -> S]
  BY DEF SeqOf
<1> QED BY <1>1, ListOf

\* Of the places of a list, some are first.
LEMMA FirstPlace ==
    ASSUME NEW n \in Nat, NEW P \in SUBSET (1..n), P # {}
    PROVE  Min(P) \in P /\ \A i \in P : Min(P) <= i
BY MinOfNaturals

LEMMA LastPlace ==
    ASSUME NEW n \in Nat, NEW P \in SUBSET (1..n), P # {}
    PROVE  Max(P) \in P /\ \A i \in P : i <= Max(P)
<1>1. P \in SUBSET (0..n)
  OBVIOUS
<1>2. PICK m \in P : \A i \in P : i <= m
  BY <1>1, GreatestNatural
<1>3. \A i \in P : m >= i
  BY <1>2
<1> QED BY <1>1, <1>3 DEF Max

\* Some place of a list has the least rank.
LEMMA LeastRank ==
    ASSUME NEW n \in Nat, NEW P \in SUBSET (1..n), P # {}, NEW r \in [P -> Int]
    PROVE  \E i \in P : \A j \in P : r[i] <= r[j]
<1> DEFINE Up(k) == P \cap (1..k)
           S == {k \in 0..n : Up(k) = {} \/ \E i \in Up(k) : \A j \in Up(k) : r[i] <= r[j]}
<1>1. 0 \in S
  BY Up(0) = {}
<1>2. ASSUME NEW k \in 1..n, k - 1 \in S PROVE k \in S
  <2>1. Up(k) = Up(k - 1) \cup (IF k \in P THEN {k} ELSE {})
    OBVIOUS
  <2>2. CASE k \notin P
    BY <1>2, <2>1, <2>2
  <2>3. CASE k \in P /\ Up(k - 1) = {}
    BY <2>1, <2>3
  <2>4. CASE k \in P /\ Up(k - 1) # {}
    <3>1. PICK i \in Up(k - 1) : \A j \in Up(k - 1) : r[i] <= r[j]
      BY <1>2, <2>4
    <3>2. CASE r[i] <= r[k]
      BY <2>1, <2>4, <3>1, <3>2
    <3>3. CASE ~(r[i] <= r[k])
      <4>1. \A j \in Up(k - 1) : r[k] <= r[j]
        BY <2>4, <3>1, <3>3
      <4> QED BY <2>1, <2>4, <4>1
    <3> QED BY <3>2, <3>3
  <2> QED BY <2>2, <2>3, <2>4
<1>3. \A k \in 0..n : k \in S
  <2> HIDE DEF S
  <2> QED BY <1>1, <1>2, InductionUpTo
<1>4. Up(n) = P
  OBVIOUS
<1>5. n \in S
  <2> HIDE DEF S
  <2> QED BY <1>3
<1>6. Up(n) = {} \/ \E i \in Up(n) : \A j \in Up(n) : r[i] <= r[j]
  BY <1>5
<1> QED BY <1>4, <1>6

\* Two loops that begin and go on alike end alike.
LEMMA SameRun ==
    ASSUME NEW n \in Nat, NEW g, NEW h, g[0] = h[0],
           \A k \in 1..n : g[k - 1] = h[k - 1] => g[k] = h[k]
    PROVE  g[n] = h[n]
<1> DEFINE S == {k \in 0..n : g[k] = h[k]}
<1>1. 0 \in S /\ \A k \in 1..n : k - 1 \in S => k \in S
  OBVIOUS
<1>2. \A k \in 0..n : k \in S
  <2> HIDE DEF S
  <2> QED BY <1>1, InductionUpTo
<1> QED BY <1>2

-----------------------------------------------------------------------------
(* The entries at some places of a list.                                   *)

PlacesRun(places, n, g) ==
    /\ g[0] = <<>>
    /\ \A k \in 1..n : g[k] = IF k \in places THEN Append(g[k - 1], k) ELSE g[k - 1]

LEMMA InOrderUnfolds ==
    ASSUME NEW n \in Nat, NEW P
    PROVE  \E g : PlacesRun(P, n, g) /\ InOrder(P, n) = g[n]
<1> DEFINE V == Seq(1..n)
           base == <<>>
           step(s, k) == IF k \in P THEN Append(s, k) ELSE s
           Step == [p \in V \X (1..n) |-> step(p[1], p[2])]
           body(g) == [k \in 0..n |-> IF k = 0 THEN <<>>
                                      ELSE IF k \in P THEN Append(g[k - 1], k) ELSE g[k - 1]]
           run == CHOOSE g : g = body(g)
<1>1. base \in V /\ \A s \in V, k \in 1..n : step(s, k) \in V
  <2>1. base \in V
    OBVIOUS
  <2>2. ASSUME NEW s \in V, NEW k \in 1..n PROVE step(s, k) \in V
    <3>1. Append(s, k) \in V
      BY AppendProperties
    <3> QED BY <3>1
  <2> HIDE DEF V, base, step
  <2> QED BY <2>1, <2>2
<1>2. Step \in [V \X (1..n) -> V]
  <2> HIDE DEF V, step
  <2> QED BY <1>1
<1>3. PICK g : Runs(g, n, V, base, Step)
  <2> HIDE DEF Step, V, base
  <2> QED BY <1>1, <1>2, RecursionExists
<1>4. \A k \in 1..n : g[k] = step(g[k - 1], k)
  <2> HIDE DEF V, step
  <2>1. \A k \in 1..n : k - 1 \in 0..n
    OBVIOUS
  <2> QED BY <1>3, <2>1 DEF Runs
<1>5. g = body(g)
  <2> HIDE DEF V
  <2>1. ASSUME NEW k \in 0..n PROVE g[k] = body(g)[k]
    <3>1. k = 0 \/ k \in 1..n
      OBVIOUS
    <3> QED BY <1>3, <1>4, <3>1 DEF Runs
  <2> HIDE DEF step
  <2> QED BY <1>3, <2>1 DEF Runs
<1>6. run = body(run)
  <2> HIDE DEF body
  <2> QED BY <1>5
<1>7. PlacesRun(P, n, run)
  <2> HIDE DEF run
  <2>1. run[0] = <<>>
    BY <1>6
  <2>2. ASSUME NEW k \in 1..n PROVE run[k] = step(run[k - 1], k)
    <3>1. k \in 0..n /\ k # 0
      OBVIOUS
    <3> QED BY <1>6, <3>1
  <2> QED BY <2>1, <2>2 DEF PlacesRun
<1>8. InOrder(P, n) = run[n]
  BY DEF InOrder
<1> QED BY <1>7, <1>8

LEMMA InOrderSteps ==
    ASSUME NEW P
    PROVE  /\ InOrder(P, 0) = <<>>
           /\ \A n \in Nat \ {0} :
                 InOrder(P, n) = IF n \in P THEN Append(InOrder(P, n - 1), n)
                                 ELSE InOrder(P, n - 1)
<1>1. InOrder(P, 0) = <<>>
  BY InOrderUnfolds DEF PlacesRun
<1>2. ASSUME NEW n \in Nat \ {0}
      PROVE  InOrder(P, n) = IF n \in P THEN Append(InOrder(P, n - 1), n)
                             ELSE InOrder(P, n - 1)
  <2>1. PICK g : PlacesRun(P, n, g) /\ InOrder(P, n) = g[n]
    BY InOrderUnfolds
  <2>2. n - 1 \in Nat /\ 1..(n - 1) \subseteq 1..n /\ n \in 1..n
    OBVIOUS
  <2>3. PICK h : PlacesRun(P, n - 1, h) /\ InOrder(P, n - 1) = h[n - 1]
    BY <2>2, InOrderUnfolds
  <2>4. g[0] = h[0] /\ \A k \in 1..(n - 1) : g[k - 1] = h[k - 1] => g[k] = h[k]
    BY <2>1, <2>2, <2>3 DEF PlacesRun
  <2>5. g[n - 1] = h[n - 1]
    BY <2>2, <2>4, SameRun
  <2>6. g[n] = IF n \in P THEN Append(g[n - 1], n) ELSE g[n - 1]
    BY <2>1, <2>2 DEF PlacesRun
  <2> QED BY <2>1, <2>3, <2>5, <2>6
<1> QED BY <1>1, <1>2

\* The places in order are those places.
LEMMA InOrderOf ==
    ASSUME NEW n \in Nat, NEW P \in SUBSET (1..n)
    PROVE  InOrder(P, n) \in Seq(P)
<1> DEFINE S == {k \in 0..n : InOrder(P, k) \in Seq(P)}
<1>1. 0 \in S
  <2>1. InOrder(P, 0) = <<>>
    BY InOrderSteps
  <2>2. <<>> \in Seq(P) /\ 0 \in 0..n
    OBVIOUS
  <2> QED BY <2>1, <2>2
<1>2. ASSUME NEW k \in 1..n, k - 1 \in S PROVE k \in S
  <2>1. k \in Nat \ {0}
    OBVIOUS
  <2>2. InOrder(P, k) = IF k \in P THEN Append(InOrder(P, k - 1), k) ELSE InOrder(P, k - 1)
    BY <2>1, InOrderSteps
  <2>3. ASSUME k \in P PROVE Append(InOrder(P, k - 1), k) \in Seq(P)
    BY <1>2, <2>3, AppendProperties
  <2> QED BY <1>2, <2>2, <2>3
<1>3. \A k \in 0..n : k \in S
  <2> HIDE DEF S
  <2> QED BY <1>1, <1>2, InductionUpTo
<1> QED BY <1>3

\* No place is left out.
LEMMA PlacesLeft ==
    ASSUME NEW n \in Nat, NEW P \in SUBSET (1..n)
    PROVE  DOMAIN InOrder(P, n) # {} <=> P # {}
<1>1. InOrder(P, n) \in Seq(P)
  BY InOrderOf
<1>2. ASSUME DOMAIN InOrder(P, n) # {} PROVE P # {}
  BY <1>1, <1>2
<1> DEFINE S == {k \in 0..n : InOrder(P, k) \in Seq(1..n) /\ (P \cap (1..k) # {} => DOMAIN InOrder(P, k) # {})}
<1>3. 0 \in S
  <2>1. InOrder(P, 0) = <<>> /\ P \cap (1..0) = {} /\ 0 \in 0..n /\ <<>> \in Seq(1..n)
    BY InOrderSteps
  <2> QED BY <2>1
<1>4. ASSUME NEW k \in 1..n, k - 1 \in S PROVE k \in S
  <2>1. k \in Nat \ {0} /\ k \in 0..n
    OBVIOUS
  <2>2. InOrder(P, k) = IF k \in P THEN Append(InOrder(P, k - 1), k) ELSE InOrder(P, k - 1)
    BY <2>1, InOrderSteps
  <2> DEFINE before == InOrder(P, k - 1)
  <2>3. before \in Seq(1..n) /\ (P \cap (1..(k - 1)) # {} => DOMAIN before # {})
    BY <1>4
  <2> HIDE DEF before
  <2>4. CASE k \in P
    <3>1. Append(before, k) \in Seq(1..n) /\ Len(Append(before, k)) = Len(before) + 1 /\ Len(before) \in Nat
      BY <2>3, AppendProperties
    <3>2. 1 \in DOMAIN Append(before, k)
      BY <3>1
    <3>3. InOrder(P, k) = Append(before, k)
      BY <2>2, <2>4 DEF before
    <3> QED BY <2>1, <3>1, <3>2, <3>3
  <2>5. CASE k \notin P
    <3>1. InOrder(P, k) = before
      BY <2>2, <2>5 DEF before
    <3>2. P \cap (1..k) # {} => P \cap (1..(k - 1)) # {}
      BY <2>1, <2>5
    <3> QED BY <2>1, <2>3, <3>1, <3>2
  <2> QED BY <2>4, <2>5
<1>5. \A k \in 0..n : k \in S
  <2> HIDE DEF S
  <2> QED BY <1>3, <1>4, InductionUpTo
<1>6. n \in S
  <2> HIDE DEF S
  <2> QED BY <1>5
<1> QED BY <1>2, <1>6

LEMMA PickedAre ==
    ASSUME NEW S, NEW list \in Seq(S), NEW P \in SUBSET (1..Len(list)),
           NEW T, \A i \in P : list[i] \in T
    PROVE  Picked(list, P) \in Seq(T)
<1> DEFINE order == InOrder(P, Len(list))
<1>1. Len(list) \in Nat
  OBVIOUS
<1>2. order \in Seq(P)
  <2> DEFINE n == Len(list)
  <2> HIDE DEF n
  <2>1. InOrder(P, n) \in Seq(P)
    BY <1>1, InOrderOf DEF n
  <2> QED BY <2>1 DEF n
<1>3. Picked(list, P) = [k \in DOMAIN order |-> list[order[k]]]
  BY DEF Picked
<1> HIDE DEF order
<1>4. DOMAIN order = 1..Len(order) /\ Len(order) \in Nat /\ \A k \in 1..Len(order) : order[k] \in P
  BY <1>2
<1>5. Picked(list, P) \in [1..Len(order) -> T]
  BY <1>3, <1>4
<1> QED BY <1>4, <1>5, ListOf

-----------------------------------------------------------------------------
(* What has been read is the response.                                     *)

\* The responses about which a model is asked are no lists to be counted.
LEMMA QueriedApart ==
    /\ DOMAIN Queried \cap DOMAIN Responses = {}
    /\ DOMAIN Queried \cap DOMAIN Models = {}
<1>1. DOMAIN Queried = {"energy_contracts", "balance_due", "price_periods", "happy_hours",
                        "solar_hours", "tou_meters", "tou_direction"}
  BY DEF Queried
<1>2. DOMAIN Queried \cap DOMAIN Responses = {}
  BY <1>1 DEF Responses
<1>3. DOMAIN Queried \cap DOMAIN Models = {}
  BY <1>1 DEF Models
<1> QED BY <1>2, <1>3

\* A model that has been made is the one of the response.
ReadInv ==
    /\ endpoint \in DOMAIN Queried => raw \in Queried[endpoint]
    /\ model # Unread => endpoint \in DOMAIN Queried /\ model = <<Modelled>>

LEMMA ReadInvHolds == ResponseSpec => []ReadInv
<1>1. ResponseInit => ReadInv
  <2>1. SkipInit => endpoint \in DOMAIN Responses \cup DOMAIN Models
    BY DEF SkipInit
  <2>2. SkipInit => endpoint \notin DOMAIN Queried
    BY <2>1, QueriedApart
  <2> QED BY <2>2 DEF ResponseInit, QueryInit, ReadInv
<1>2. ReadInv /\ [ResponseNext]_queryVars => ReadInv'
  <2> SUFFICES ASSUME ReadInv, [ResponseNext]_queryVars PROVE ReadInv'
    OBVIOUS
  <2>1. Queried' = Queried
    BY DEF Queried
  <2>2. endpoint' = endpoint /\ raw' = raw
    BY DEF ResponseNext, ParseModel, SkipNext, Parse, ParseFields, queryVars, skipVars
  <2>3. Modelled' = Modelled
    BY <2>2 DEF Modelled
  <2>4. \/ model' = model
        \/ endpoint \in DOMAIN Queried /\ model' = <<Modelled>>
    BY DEF ResponseNext, ParseModel, queryVars
  <2> QED BY <2>1, <2>2, <2>3, <2>4 DEF ReadInv, Unread
<1> QED BY <1>1, <1>2, PTL DEF ResponseSpec

-----------------------------------------------------------------------------
(* Account balance and meters.                                             *)

LEMMA NextDue == ReadInv => NextDueIsOpen
<1> SUFFICES ASSUME ReadInv, Read("balance_due") PROVE NextDueIsOpen
  BY DEF NextDueIsOpen
<1> DEFINE txs == model[1]
           asked == {i \in DOMAIN txs : txs[i].open_amount > 0 /\ txs[i].due_date # Absent}
           open == {i \in DOMAIN raw : raw[i].open_amount = 1 /\ raw[i].due_date # Absent}
<1>1. raw \in Seq(Transactions) /\ txs = [i \in DOMAIN raw |-> ParseTransaction(raw[i])]
  <2>1. raw \in SeqOf(Transactions, MaxListed)
    BY DEF ReadInv, Read, Queried
  <2>2. model = <<Modelled>>
    BY DEF ReadInv, Read
  <2>3. Modelled = [i \in DOMAIN raw |-> ParseTransaction(raw[i])]
    BY DEF Read, Modelled
  <2> QED BY <2>1, <2>2, <2>3, ListsUpTo, QueryAssumption
<1>2. ASSUME NEW i \in DOMAIN raw
      PROVE  /\ txs[i].due_date = raw[i].due_date
             /\ raw[i].due_date \in Nat \/ raw[i].due_date = Absent
             /\ txs[i].open_amount > 0 <=> raw[i].open_amount = 1
  <2>1. raw[i] \in Transactions
    BY <1>1, ElementOfSeq
  <2>2. txs[i] = ParseTransaction(raw[i])
    BY <1>1
  <2> HIDE DEF txs
  <2> QED BY <2>1, <2>2, QueryAssumption DEF Transactions, MaybeDay, ParseTransaction
<1>3. asked = open
  BY <1>1, <1>2
<1>4. EarliestDueDate(txs) = IF open = {} THEN Absent ELSE Min({txs[i].due_date : i \in open})
  BY <1>3 DEF EarliestDueDate
<1>5. {txs[i].due_date : i \in open} = {raw[i].due_date : i \in open}
  BY <1>2
<1>6. {raw[i].due_date : i \in open} \in SUBSET Nat
  BY <1>2
<1> DEFINE due == EarliestDueDate(txs)
<1>7. open # {} => (\E i \in open : raw[i].due_date = due) /\ \A i \in open : raw[i].due_date >= due
  <2> DEFINE dates == {raw[i].due_date : i \in open}
  <2> SUFFICES ASSUME open # {}
               PROVE  (\E i \in open : raw[i].due_date = due) /\ \A i \in open : raw[i].due_date >= due
    OBVIOUS
  <2>1. due = Min(dates)
    BY <1>4, <1>5
  <2>2. dates \in SUBSET Nat /\ dates # {}
    BY <1>6
  <2>3. Min(dates) \in dates /\ \A d \in dates : Min(dates) <= d
    <3> HIDE DEF dates
    <3> QED BY <2>2, MinOfNaturals
  <2> HIDE DEF due
  <2>4. due \in dates /\ due \in Nat /\ \A d \in dates : due <= d
    BY <2>1, <2>2, <2>3
  <2>5. \A i \in open : raw[i].due_date \in dates /\ raw[i].due_date \in Nat
    BY <2>2
  <2> QED BY <2>4, <2>5
<1>8. open = {} => due = Absent
  BY <1>4
<1> QED BY <1>7, <1>8 DEF NextDueIsOpen

\* What is said to be due next is the earliest day on which an open amount falls
\* due (AccountBalance.earliest_due_date).
THEOREM DueIsOpen == ResponseSpec => []NextDueIsOpen
BY ReadInvHolds, NextDue, PTL

LEMMA PrimaryKnowsMost == ReadInv => PrimaryMeterKnowsMost
<1> SUFFICES ASSUME ReadInv, Read("tou_meters") PROVE PrimaryMeterKnowsMost
  BY DEF PrimaryMeterKnowsMost
<1> DEFINE meters == model[1]
           day == DayMeters(meters)
           with_data == {i \in day : HasData(meters[i])}
           Rank(m) == IF m.exclusive_night = TRUE THEN 2 ELSE IF HasData(m) THEN 0 ELSE 1
           best == {i \in DOMAIN meters : \A j \in DOMAIN meters : Rank(meters[i]) <= Rank(meters[j])}
           primary == PrimaryMeter(meters)
<1>1. meters \in Seq(Meters) /\ DOMAIN meters = 1..Len(meters) /\ Len(meters) \in Nat
  <2>1. raw \in SeqOf(Meters, MaxCompared)
    BY DEF ReadInv, Read, Queried
  <2>2. model = <<raw>>
    BY DEF ReadInv, Read, Modelled
  <2> QED BY <2>1, <2>2, ListsUpTo, QueryAssumption
<1>2. day = {i \in DOMAIN meters : meters[i].exclusive_night # TRUE}
  BY DEF DayMeters
<1>3. primary = IF with_data # {} THEN meters[Min(with_data)]
                ELSE IF day # {} THEN meters[Min(day)]
                ELSE IF meters # <<>> THEN meters[1] ELSE Absent
  BY DEF PrimaryMeter
<1>4. meters # <<>> <=> 1 \in DOMAIN meters
  BY <1>1
<1> HIDE DEF meters
<1>rank. \A i \in DOMAIN meters :
          Rank(meters[i]) = IF i \notin day THEN 2 ELSE IF i \in with_data THEN 0 ELSE 1
  BY <1>2
<1>places. with_data \subseteq day /\ day \subseteq DOMAIN meters
  BY <1>2
<1>5. meters = <<>> => primary = Absent /\ ~HasTou(meters)
  BY <1>2, <1>3 DEF HasTou
<1>6. ASSUME meters # <<>>
      PROVE  /\ primary = meters[Min(best)]
             /\ primary.exclusive_night # TRUE
                \/ \A i \in DOMAIN meters : meters[i].exclusive_night = TRUE
  <2>1. CASE with_data # {}
    <3>1. best = with_data
      <4> HIDE DEF Rank, day, with_data
      <4> QED BY <1>rank, <1>places, <2>1
    <3>2. Min(with_data) \in with_data
      BY <1>1, <1>2, <2>1, FirstPlace
    <3> QED BY <1>2, <1>3, <2>1, <3>1, <3>2
  <2>2. CASE with_data = {} /\ day # {}
    <3>1. best = day
      <4> HIDE DEF Rank, day, with_data
      <4> QED BY <1>rank, <1>places, <2>2
    <3>2. Min(day) \in day
      BY <1>1, <1>2, <2>2, FirstPlace
    <3> QED BY <1>2, <1>3, <2>2, <3>1, <3>2
  <2>3. CASE day = {}
    <3>1. best = 1..Len(meters)
      <4> HIDE DEF Rank, day, with_data
      <4> QED BY <1>1, <1>rank, <2>3
    <3>2. Min(1..Len(meters)) = 1
      <4> DEFINE places == 1..Len(meters)
      <4>1. places \in SUBSET (1..Len(meters)) /\ 1 \in places
        BY <1>1, <1>4, <1>6
      <4> HIDE DEF places
      <4>2. Min(places) \in places /\ Min(places) <= 1
        BY <1>1, <4>1, FirstPlace
      <4>3. Min(places) \in 1..Len(meters)
        BY <4>1, <4>2
      <4>4. Min(places) = 1
        BY <1>1, <4>2, <4>3
      <4> QED BY <4>4 DEF places
    <3>3. with_data = {}
      BY <2>3
    <3>4. primary = meters[1]
      BY <1>3, <1>6, <2>3, <3>3
    <3>5. \A i \in DOMAIN meters : meters[i].exclusive_night = TRUE
      BY <1>2, <2>3
    <3> QED BY <3>1, <3>2, <3>4, <3>5
  <2> QED BY <2>1, <2>2, <2>3
<1>7. primary = meters[Min(best)] => primary = FirstLeast(meters, DOMAIN meters, Rank)
  BY DEF FirstLeast
<1>8. PrimaryMeterKnowsMost
      <=> IF meters = <<>> THEN primary = Absent /\ ~HasTou(meters)
          ELSE /\ primary = FirstLeast(meters, DOMAIN meters, Rank)
               /\ HasTou(meters) => \/ primary.exclusive_night # TRUE
                                    \/ \A i \in DOMAIN meters : meters[i].exclusive_night = TRUE
  BY DEF PrimaryMeterKnowsMost, meters
<1> QED BY <1>5, <1>6, <1>7, <1>8

\* The meter a schedule is read from is the first of the day meters with a schedule,
\* or else of the day meters, or else of all (TouScheduleItem.primary_meter, has_tou).
THEOREM PrimaryIsBest == ResponseSpec => []PrimaryMeterKnowsMost
BY ReadInvHolds, PrimaryKnowsMost, PTL

-----------------------------------------------------------------------------
(* The best slot code.                                                     *)

IsPeak(spelling) == spelling.name \in {"PEAK", "HIGH_LOAD_HOURS", "peak"}

\* A code is canonical whatever its spelling.
LEMMA Canonical ==
    ASSUME NEW c \in Spellings
    PROVE  CanonicaliseSlotCode(c) = IF IsPeak(c) THEN "peak" ELSE "offpeak"
<1>1. c.name \in {"PEAK", "HIGH_LOAD_HOURS", "peak", "LOW_LOAD_HOURS", "OFFPEAK"}
  BY DEF Spellings
<1>2. Upper[c.name] = IF c.name = "peak" THEN "PEAK" ELSE c.name
  BY <1>1 DEF Upper
<1>3. CASE IsPeak(c)
  BY <1>1, <1>2, <1>3 DEF CanonicaliseSlotCode, TouSlotCodeAliases, Lower, IsPeak
<1>4. CASE ~IsPeak(c)
  BY <1>1, <1>2, <1>4 DEF CanonicaliseSlotCode, TouSlotCodeAliases, Lower, IsPeak
<1> QED BY <1>3, <1>4

\* The code that is derived is that of a slot whose cost none is better than.
LEMMA DerivedIsBest ==
    ASSUME NEW direction \in {"offtake", "injection"},
           NEW n \in Nat, NEW slots, DOMAIN slots = 1..n,
           \A i \in 1..n : slots[i].cost \in {1, 2, Absent} /\ slots[i].code \in {"peak", "offpeak"}
    PROVE  LET ranked == {i \in 1..n : slots[i].cost # Absent}
               code == DeriveOptimalSlotCode(direction, slots)
           IN  IF ranked = {} THEN code = Absent
               ELSE \E i \in ranked :
                       /\ slots[i].code = code
                       /\ \A j \in ranked :
                             IF direction = "offtake" THEN slots[i].cost <= slots[j].cost
                             ELSE slots[i].cost >= slots[j].cost
<1> DEFINE ranked == {i \in 1..n : slots[i].cost # Absent}
           code == DeriveOptimalSlotCode(direction, slots)
           Key(s) == 4 * s.cost + Alphabetical[s.code]
           Opposite(s) == -Key(s)
<1>1. code = IF ranked = {} THEN Absent
             ELSE IF direction = "offtake" THEN FirstLeast(slots, ranked, Key).code
             ELSE FirstLeast(slots, ranked, Opposite).code
  BY DEF DeriveOptimalSlotCode
<1>2. ranked \in SUBSET (1..n)
  OBVIOUS
<1>3. ASSUME NEW i \in ranked
      PROVE  /\ slots[i].cost \in {1, 2}
             /\ Alphabetical[slots[i].code] \in {2, 3}
  BY DEF Alphabetical
<1>4. ASSUME NEW i \in ranked PROVE Key(slots[i]) \in Int /\ -Key(slots[i]) \in Int
  <2> DEFINE c == slots[i].cost
             a == Alphabetical[slots[i].code]
  <2>1. c \in {1, 2} /\ a \in {2, 3}
    BY <1>3
  <2> HIDE DEF c, a
  <2>2. 4 * c + a \in Int /\ -(4 * c + a) \in Int
    BY <2>1
  <2> QED BY <2>2 DEF c, a
<1>5. ASSUME NEW i \in ranked, NEW j \in ranked, Key(slots[i]) <= Key(slots[j])
      PROVE  slots[i].cost <= slots[j].cost
  <2> DEFINE c == slots[i].cost
             a == Alphabetical[slots[i].code]
             d == slots[j].cost
             b == Alphabetical[slots[j].code]
  <2>1. c \in {1, 2} /\ a \in {2, 3} /\ d \in {1, 2} /\ b \in {2, 3}
    BY <1>3
  <2>2. 4 * c + a <= 4 * d + b
    BY <1>5
  <2> HIDE DEF c, a, d, b
  <2>3. c <= d
    BY <2>1, <2>2
  <2> QED BY <2>3 DEF c, d
<1> HIDE DEF Key
<1>6. ASSUME NEW i \in ranked, NEW j \in ranked, -Key(slots[i]) <= -Key(slots[j])
      PROVE  slots[i].cost >= slots[j].cost
  <2>1. Key(slots[j]) <= Key(slots[i])
    BY <1>4, <1>6
  <2>2. slots[j].cost <= slots[i].cost
    BY <1>5, <2>1
  <2>3. slots[i].cost \in Int /\ slots[j].cost \in Int
    BY <1>3
  <2> QED BY <2>2, <2>3
<1> HIDE DEF ranked, code
<1>7. ASSUME ranked # {}, direction = "offtake"
      PROVE  \E i \in ranked : slots[i].code = code /\ \A j \in ranked : slots[i].cost <= slots[j].cost
  <2> DEFINE r == [i \in ranked |-> Key(slots[i])]
             best == {i \in ranked : \A j \in ranked : Key(slots[i]) <= Key(slots[j])}
  <2>1. r \in [ranked -> Int]
    BY <1>4
  <2>2. \E i \in ranked : \A j \in ranked : r[i] <= r[j]
    <3> HIDE DEF r
    <3> QED BY <1>2, <1>7, <2>1, LeastRank
  <2>3. best # {} /\ best \in SUBSET (1..n)
    BY <1>2, <2>2
  <2>4. Min(best) \in best
    <3> HIDE DEF best
    <3> QED BY <2>3, FirstPlace
  <2>5. code = slots[Min(best)].code
    BY <1>1, <1>7 DEF FirstLeast
  <2>6. \A j \in ranked : slots[Min(best)].cost <= slots[j].cost
    BY <1>5, <2>4
  <2> QED BY <2>4, <2>5, <2>6
<1>8. ASSUME ranked # {}, direction = "injection"
      PROVE  \E i \in ranked : slots[i].code = code /\ \A j \in ranked : slots[i].cost >= slots[j].cost
  <2> DEFINE r == [i \in ranked |-> -Key(slots[i])]
             best == {i \in ranked : \A j \in ranked : -Key(slots[i]) <= -Key(slots[j])}
  <2>1. r \in [ranked -> Int]
    BY <1>4
  <2>2. \E i \in ranked : \A j \in ranked : r[i] <= r[j]
    <3> HIDE DEF r
    <3> QED BY <1>2, <1>8, <2>1, LeastRank
  <2>3. best # {} /\ best \in SUBSET (1..n)
    BY <1>2, <2>2
  <2>4. Min(best) \in best
    <3> HIDE DEF best
    <3> QED BY <2>3, FirstPlace
  <2>5. code = slots[Min(best)].code
    BY <1>1, <1>8 DEF FirstLeast
  <2>6. \A j \in ranked : slots[Min(best)].cost >= slots[j].cost
    BY <1>6, <2>4
  <2> QED BY <2>4, <2>5, <2>6
<1>9. ranked = {} => code = Absent
  BY <1>1
<1> QED BY <1>7, <1>8, <1>9 DEF ranked, code

LEMMA OptimalIsInWeek == ReadInv => OptimalCodeIsInWeek
<1> SUFFICES ASSUME ReadInv, Read("tou_direction") PROVE OptimalCodeIsInWeek
  BY DEF OptimalCodeIsInWeek
<1> DEFINE direction == raw[1]
           wired == raw[3]
           slots == model[1].slots
           optimal == model[1].optimal
<1>1. /\ direction \in {"offtake", "injection"} /\ raw[2] \in Spellings \cup {Absent}
      /\ wired \in Seq(TouSlots) /\ DOMAIN wired = 1..Len(wired) /\ Len(wired) \in Nat
  <2>1. raw \in {"offtake", "injection"} \X (Spellings \cup {Absent}) \X SeqOf(TouSlots, MaxListed)
    BY DEF ReadInv, Read, Queried
  <2>2. direction \in {"offtake", "injection"} /\ raw[2] \in Spellings \cup {Absent}
        /\ wired \in SeqOf(TouSlots, MaxListed)
    BY <2>1
  <2> QED BY <2>2, ListsUpTo, QueryAssumption
<1>2. /\ slots = [i \in DOMAIN wired |-> ParseTouSlot(wired[i])]
      /\ optimal = IF raw[2] # Absent THEN CanonicaliseSlotCode(raw[2])
                   ELSE DeriveOptimalSlotCode(direction, slots)
  <2>1. model = <<ParseTouDirection(raw[1], raw[2], raw[3])>>
    BY DEF ReadInv, Read, Modelled
  <2> QED BY <2>1 DEF ParseTouDirection
<1> HIDE DEF slots, optimal
<1>3. ASSUME NEW i \in DOMAIN slots
      PROVE  /\ i \in DOMAIN wired /\ wired[i].code \in Spellings
             /\ slots[i].code = IF IsPeak(wired[i].code) THEN "peak" ELSE "offpeak"
             /\ slots[i].cost \in {1, 2, Absent}
  <2>1. i \in DOMAIN wired /\ wired[i] \in TouSlots
    BY <1>1, <1>2, ElementOfSeq
  <2>2. slots[i] = [wired[i] EXCEPT !.code = CanonicaliseSlotCode(@)]
    BY <1>2 DEF ParseTouSlot
  <2>3. slots[i].code = CanonicaliseSlotCode(wired[i].code) /\ slots[i].cost = wired[i].cost
        /\ wired[i].code \in Spellings /\ wired[i].cost \in {1, 2, Absent}
    BY <2>1, <2>2 DEF TouSlots
  <2> QED BY <2>1, <2>3, Canonical
<1>4. DOMAIN slots = 1..Len(wired)
  BY <1>1, <1>2
<1> DEFINE ranked == {i \in DOMAIN slots : slots[i].cost # Absent}
<1>5. CASE raw[2] # Absent
  <2>1. raw[2] \in Spellings
    BY <1>1, <1>5
  <2>2. optimal = IF IsPeak(raw[2]) THEN "peak" ELSE "offpeak"
    BY <1>2, <1>5, <2>1, Canonical
  <2>3. \A i \in DOMAIN slots : slots[i].code = optimal <=> (IsPeak(raw[2]) <=> IsPeak(raw[3][i].code))
    BY <1>3, <2>2
  <2> QED BY <1>5, <2>3 DEF OptimalCodeIsInWeek, IsPeak, slots, optimal
<1>6. CASE raw[2] = Absent
  <2>1. optimal = DeriveOptimalSlotCode(direction, slots)
    BY <1>2, <1>6
  <2>2. \A i \in 1..Len(wired) : slots[i].cost \in {1, 2, Absent} /\ slots[i].code \in {"peak", "offpeak"}
    BY <1>3, <1>4
  <2>3. IF ranked = {} THEN optimal = Absent
        ELSE \E i \in ranked :
                /\ slots[i].code = optimal
                /\ \A j \in ranked :
                      IF direction = "offtake" THEN slots[i].cost <= slots[j].cost
                      ELSE slots[i].cost >= slots[j].cost
    <3> HIDE DEF direction
    <3> QED BY <1>1, <1>4, <2>1, <2>2, DerivedIsBest
  <2> QED BY <1>6, <2>3 DEF OptimalCodeIsInWeek, slots, optimal
<1> QED BY <1>5, <1>6

\* The best code of a week is the code of its best slots, in whatever spelling the
\* wire has them (_parse_tou_direction, _derive_optimal_slot_code).
THEOREM OptimalIsFound == ResponseSpec => []OptimalCodeIsInWeek
BY ReadInvHolds, OptimalIsInWeek, PTL

-----------------------------------------------------------------------------
(* Energy contracts.                                                       *)

\* Among contracts whose EANs differ, an EAN has the one contract.
LEMMA OnlyOfEan ==
    ASSUME NEW n \in Nat, NEW contracts, NEW places \in SUBSET (1..n), NEW i \in places,
           \A j \in places : i # j => BareEan(contracts[j].point) # BareEan(contracts[i].point)
    PROVE  LastOf(contracts, places, BareEan(contracts[i].point)) = contracts[i]
<1> DEFINE those == {j \in places : BareEan(contracts[j].point) = BareEan(contracts[i].point)}
<1>1. those = {i}
  OBVIOUS
<1>2. Max(those) \in those
  <2>1. those \in SUBSET (1..n) /\ those # {}
    BY <1>1
  <2> HIDE DEF those
  <2> QED BY <2>1, LastPlace
<1>3. Max(those) = i
  BY <1>1, <1>2
<1> QED BY <1>3 DEF LastOf

LEMMA DynamicOnlyProducts == ReadInv => DynamicIffProducts
<1> DEFINE contracts == model[1]
           active == Active(contracts)
           products == EnergyProductsByEan(contracts)
           points == ServicePointsByEan(contracts)
           Ean(i) == IF contracts[i].point = "A_ID1" THEN "A" ELSE contracts[i].point
           Apart == \A i, j \in active : Ean(i) # "" /\ (i # j => Ean(i) # Ean(j))
           Found(i) == /\ Ean(i) \in DOMAIN products \cap DOMAIN points
                       /\ products[Ean(i)] = "DYNAMIC" /\ points[Ean(i)] = "ELECTRICITY"
           produced == {i \in active : contracts[i].point # "" /\ contracts[i].product # Absent}
           divided == {i \in active : contracts[i].point # "" /\ contracts[i].division # ""}
<1> SUFFICES ASSUME ReadInv, Read("energy_contracts"), Apart
             PROVE  IsDynamic(contracts) <=> \E i \in active : Found(i)
  BY DEF DynamicIffProducts
<1> HIDE DEF Apart, Found
<1>1. contracts \in Seq(Contracts) /\ DOMAIN contracts = 1..Len(contracts) /\ Len(contracts) \in Nat
  <2>1. raw \in SeqOf(Contracts, MaxListed)
    BY DEF ReadInv, Read, Queried
  <2>2. model = <<raw>>
    BY DEF ReadInv, Read, Modelled
  <2>3. raw \in Seq(Contracts) /\ DOMAIN raw = 1..Len(raw) /\ Len(raw) \in Nat
    BY <2>1, ListsUpTo, QueryAssumption
  <2> QED BY <2>2, <2>3
<1>2. active \in SUBSET (1..Len(contracts)) /\ active \subseteq DOMAIN contracts
  BY <1>1 DEF Active
<1>3. ASSUME NEW i \in active
      PROVE  /\ BareEan(contracts[i].point) = Ean(i)
             /\ contracts[i].point # "" /\ contracts[i].status = "ACTIVE"
             /\ contracts[i].product \in {"DYNAMIC", "FIXED", Absent}
             /\ contracts[i].division \in {"ELECTRICITY", "GAS", ""}
  <2>1. contracts[i] \in Contracts /\ contracts[i].status = "ACTIVE"
    BY <1>1, <1>2, ElementOfSeq DEF Active
  <2>2. Ean(i) # ""
    BY DEF Apart
  <2> HIDE DEF contracts, active
  <2> QED BY <2>1, <2>2 DEF Contracts, Products, BareEan
<1>4. products = [ean \in Eans(contracts, produced) |-> LastOf(contracts, produced, ean).product]
  BY DEF EnergyProductsByEan
<1>5. points = [ean \in Eans(contracts, divided) |-> LastOf(contracts, divided, ean).division]
  BY DEF ServicePointsByEan
<1>6. \A i, j \in active : Ean(i) = Ean(j) => i = j
  BY DEF Apart
<1> HIDE DEF contracts, active, products, points, Ean
<1>7. ASSUME NEW i \in active
      PROVE  /\ Ean(i) \in DOMAIN products <=> i \in produced
             /\ i \in produced => products[Ean(i)] = contracts[i].product
  <2>1. DOMAIN products = {BareEan(contracts[j].point) : j \in produced}
    BY <1>4 DEF Eans
  <2>2. Ean(i) \in DOMAIN products <=> \E j \in produced : Ean(j) = Ean(i)
    BY <1>3, <2>1
  <2>3. (\E j \in produced : Ean(j) = Ean(i)) <=> i \in produced
    BY <1>6
  <2>4. ASSUME i \in produced PROVE products[Ean(i)] = contracts[i].product
    <3>1. \A j \in produced : i # j => BareEan(contracts[j].point) # BareEan(contracts[i].point)
      <4>1. \A j \in active : i # j => Ean(i) # Ean(j)
        BY <1>6
      <4>2. \A j \in produced : j \in active /\ BareEan(contracts[j].point) = Ean(j)
        BY <1>3
      <4> QED BY <1>3, <4>1, <4>2
    <3>2. produced \in SUBSET (1..Len(contracts))
      BY <1>2
    <3>3. LastOf(contracts, produced, BareEan(contracts[i].point)) = contracts[i]
      <4> HIDE DEF produced
      <4> QED BY <1>1, <2>4, <3>1, <3>2, OnlyOfEan
    <3>4. products[Ean(i)] = LastOf(contracts, produced, Ean(i)).product
      BY <1>4, <2>2, <2>3, <2>4
    <3> QED BY <1>3, <3>3, <3>4
  <2> QED BY <2>2, <2>3, <2>4
<1>8. ASSUME NEW i \in active
      PROVE  /\ Ean(i) \in DOMAIN points <=> i \in divided
             /\ i \in divided => points[Ean(i)] = contracts[i].division
  <2>1. DOMAIN points = {BareEan(contracts[j].point) : j \in divided}
    BY <1>5 DEF Eans
  <2>2. Ean(i) \in DOMAIN points <=> \E j \in divided : Ean(j) = Ean(i)
    BY <1>3, <2>1
  <2>3. (\E j \in divided : Ean(j) = Ean(i)) <=> i \in divided
    BY <1>6
  <2>4. ASSUME i \in divided PROVE points[Ean(i)] = contracts[i].division
    <3>1. \A j \in divided : i # j => BareEan(contracts[j].point) # BareEan(contracts[i].point)
      <4>1. \A j \in active : i # j => Ean(i) # Ean(j)
        BY <1>6
      <4>2. \A j \in divided : j \in active /\ BareEan(contracts[j].point) = Ean(j)
        BY <1>3
      <4> QED BY <1>3, <4>1, <4>2
    <3>2. divided \in SUBSET (1..Len(contracts))
      BY <1>2
    <3>3. LastOf(contracts, divided, BareEan(contracts[i].point)) = contracts[i]
      <4> HIDE DEF divided
      <4> QED BY <1>1, <2>4, <3>1, <3>2, OnlyOfEan
    <3>4. points[Ean(i)] = LastOf(contracts, divided, Ean(i)).division
      BY <1>5, <2>2, <2>3, <2>4
    <3> QED BY <1>3, <3>3, <3>4
  <2> QED BY <2>2, <2>3, <2>4
<1>9. Absent # "DYNAMIC"
  BY QueryAssumption DEF Products
<1>10. ASSUME NEW i \in active
       PROVE  Found(i) <=> contracts[i].division = "ELECTRICITY" /\ contracts[i].product = "DYNAMIC"
  BY <1>3, <1>7, <1>8, <1>9 DEF Found
<1>11. IsDynamic(contracts)
       <=> \E i \in active : contracts[i].division = "ELECTRICITY" /\ contracts[i].product = "DYNAMIC"
  BY DEF IsDynamic, active
<1> QED BY <1>10, <1>11

\* The three questions about contracts agree (EnergyContractsResponse.is_dynamic,
\* energy_products_by_ean, service_points_by_ean).
THEOREM DynamicByEan == ResponseSpec => []DynamicIffProducts
BY ReadInvHolds, DynamicOnlyProducts, PTL

-----------------------------------------------------------------------------
(* Solar hours.                                                            *)

\* The entries of all the lists are entries of a list.
LEMMA FlattenedAre ==
    ASSUME NEW S, NEW seqs \in Seq(Seq(S))
    PROVE  FlattenSeq(seqs) \in Seq(S)
<1> DEFINE n == Len(seqs)
           V == Seq(S)
           base == <<>>
           step(s, k) == IF k = 1 THEN seqs[k] ELSE s \o seqs[k]
           Step == [p \in V \X (1..n) |-> step(p[1], p[2])]
           body(g) == [k \in 1..n |-> IF k = 1 THEN seqs[k] ELSE g[k - 1] \o seqs[k]]
           run == CHOOSE g : g = body(g)
<1>1. n \in Nat /\ base \in V /\ \A k \in 1..n : seqs[k] \in V
  OBVIOUS
<1>2. \A s \in V, k \in 1..n : step(s, k) \in V
  <2> SUFFICES ASSUME NEW s \in V, NEW k \in 1..n PROVE step(s, k) \in V
    OBVIOUS
  <2>1. s \o seqs[k] \in V
    BY <1>1, ConcatProperties
  <2> QED BY <1>1, <2>1
<1>3. Step \in [V \X (1..n) -> V]
  <2> HIDE DEF V, step, n
  <2> QED BY <1>2
<1>4. PICK g : Runs(g, n, V, base, Step)
  <2> HIDE DEF Step, V, base, n
  <2> QED BY <1>1, <1>3, RecursionExists
<1> HIDE DEF n
<1>5. \A k \in 1..n : g[k] = step(g[k - 1], k) /\ g[k - 1] \in V
  <2> HIDE DEF V, step
  <2>1. \A k \in 1..n : k - 1 \in 0..n
    BY <1>1
  <2> QED BY <1>4, <2>1 DEF Runs
<1>6. [k \in 1..n |-> g[k]] = body([k \in 1..n |-> g[k]])
  <2> DEFINE h == [k \in 1..n |-> g[k]]
  <2>1. ASSUME NEW k \in 1..n PROVE h[k] = body(h)[k]
    <3>1. k # 1 => k - 1 \in 1..n /\ h[k - 1] = g[k - 1]
      BY <1>1
    <3> QED BY <1>5, <3>1
  <2> HIDE DEF step, V
  <2> QED BY <2>1
<1>7. run = body(run)
  <2> HIDE DEF body
  <2> QED BY <1>6
<1>8. \A k \in 0..n : k = 0 \/ run[k] \in V
  <2> DEFINE T == {k \in 0..n : k = 0 \/ run[k] \in V}
  <2> HIDE DEF run
  <2>1. 0 \in T
    BY <1>1
  <2>2. ASSUME NEW k \in 1..n, k - 1 \in T PROVE k \in T
    <3>1. run[k] = IF k = 1 THEN seqs[k] ELSE run[k - 1] \o seqs[k]
      BY <1>7
    <3>2. k # 1 => run[k - 1] \in V
      BY <1>1, <2>2
    <3>3. k # 1 => run[k - 1] \o seqs[k] \in V
      BY <1>1, <3>2, ConcatProperties
    <3>4. run[k] \in V /\ k \in 0..n
      BY <1>1, <3>1, <3>3
    <3> QED BY <3>4
  <2>3. \A k \in 0..n : k \in T
    <3> HIDE DEF T
    <3> QED BY <1>1, <2>1, <2>2, InductionUpTo
  <2> QED BY <2>3
<1>9. n # 0 => FlattenSeq(seqs) = run[n]
  BY DEF FlattenSeq, n
<1>10. n = 0 => FlattenSeq(seqs) = seqs /\ seqs = <<>>
  <2>1. n = 0 => seqs = <<>>
    BY EmptySeq DEF n
  <2>2. n = 0 => FlattenSeq(seqs) = seqs
    BY DEF FlattenSeq, n
  <2> QED BY <2>1, <2>2
<1> HIDE DEF run
<1>11. n # 0 => run[n] \in V
  <2>1. n \in 0..n
    BY <1>1
  <2> HIDE DEF V
  <2> QED BY <1>8, <2>1
<1> QED BY <1>1, <1>9, <1>10, <1>11

\* A slot that has been parsed begins on some day.
Begun == {s \in SolarSlots : s.start_time \in Days}

LEMMA SolarSlotsAre ==
    ASSUME ReadInv, Read("solar_hours")
    PROVE  AllSlots(model[1]) \in Seq(Begun)
<1>1. raw \in Seq(SeqOf(SolarSlots, MaxListed) \cup {NotAList})
  <2>1. raw \in SeqOf(SeqOf(SolarSlots, MaxListed) \cup {NotAList}, MaxListed)
    BY DEF ReadInv, Read, Queried
  <2> QED BY <2>1, ListsUpTo, QueryAssumption
<1>2. model[1] = ParseSolarDays(raw)
  BY DEF ReadInv, Read, Modelled
<1>3. ASSUME NEW d \in DOMAIN raw
      PROVE  ParseSolarSlots(Listed(raw[d])) \in Seq(Begun)
  <2> DEFINE list == Listed(raw[d])
             P == {i \in DOMAIN list : list[i].start_time # Absent}
  <2>1. raw[d] \in SeqOf(SolarSlots, MaxListed) \cup {NotAList}
    BY <1>1, ElementOfSeq
  <2>2. list \in Seq(SolarSlots)
    <3>1. raw[d] \in SeqOf(SolarSlots, MaxListed) => raw[d] \in Seq(SolarSlots)
      BY ListsUpTo, QueryAssumption
    <3>2. <<>> \in Seq(SolarSlots)
      OBVIOUS
    <3> QED BY <2>1, <3>1, <3>2 DEF Listed
  <2> HIDE DEF list
  <2>3. P \in SUBSET (1..Len(list))
    BY <2>2
  <2>4. \A i \in P : list[i] \in Begun
    <3> SUFFICES ASSUME NEW i \in P PROVE list[i] \in Begun
      OBVIOUS
    <3>1. list[i] \in SolarSlots /\ list[i].start_time # Absent
      BY <2>2, ElementOfSeq
    <3> QED BY <3>1 DEF Begun, SolarSlots, MaybeDay
  <2>5. Picked(list, P) \in Seq(Begun)
    <3> HIDE DEF P
    <3> QED BY <2>2, <2>3, <2>4, PickedAre
  <2>6. ParseSolarSlots(list) = Picked(list, P)
    BY DEF ParseSolarSlots
  <2> QED BY <2>5, <2>6 DEF list
<1>4. ParseSolarDays(raw) \in Seq(Seq(Begun))
  <2> DEFINE f == ParseSolarDays(raw)
  <2>1. DOMAIN raw = 1..Len(raw) /\ Len(raw) \in Nat
    BY <1>1
  <2>2. f = [d \in 1..Len(raw) |-> ParseSolarSlots(Listed(raw[d]))]
    BY <2>1 DEF ParseSolarDays
  <2>3. f \in [1..Len(raw) -> Seq(Begun)]
    BY <1>3, <2>1, <2>2
  <2> HIDE DEF f
  <2>4. f \in Seq(Seq(Begun))
    BY <2>1, <2>3, ListOf
  <2> QED BY <2>4 DEF f
<1>5. FlattenSeq(ParseSolarDays(raw)) \in Seq(Begun)
  BY <1>4, FlattenedAre
<1> QED BY <1>2, <1>5 DEF AllSlots

LEMMA SolarToBoundary == ReadInv => SolarHoldsToBoundary
<1> DEFINE days == model[1]
           slots == AllSlots(days)
           Start(i) == slots[i].start_time
           Covers(i, u) == Start(i) <= u /\ u < Start(i) + Hour
           Apart == \A i, j \in DOMAIN slots : i < j =>
                       \/ slots[i].start_time + Hour <= slots[j].start_time
                       \/ slots[j].start_time + Hour <= slots[i].start_time
           Sunny == \E u \in Days : /\ SlotCovering(days, u) # Absent
                                    /\ SlotCovering(days, u).level = "high"
           Woken(now) ==
              LET wake == NextHourBoundary(days, now)
              IN  /\ wake = Absent => \A i \in DOMAIN slots : slots[i].start_time <= now
                  /\ wake # Absent =>
                        /\ wake > now
                        /\ SlotCovering(days, wake).start_time = wake
                        /\ \A u \in now..(wake - 1) :
                              SlotCovering(days, u) \in {SlotCovering(days, now), Absent}
<1> SUFFICES ASSUME ReadInv, Read("solar_hours"), Apart
             PROVE  (HasSolar(days) <=> Sunny) /\ \A now \in Days : Woken(now)
  BY DEF SolarHoldsToBoundary
<1> HIDE DEF Apart, Sunny, Woken
<1>1. slots \in Seq(Begun) /\ DOMAIN slots = 1..Len(slots) /\ Len(slots) \in Nat
  <2>1. slots \in Seq(Begun)
    BY SolarSlotsAre
  <2> HIDE DEF slots
  <2> QED BY <2>1
<1>2. \A u : SlotCovering(days, u) =
               LET covering == {i \in DOMAIN slots : Covers(i, u)}
               IN  IF covering = {} THEN Absent ELSE slots[Min(covering)]
  BY DEF SlotCovering
<1>3. \A now : NextHourBoundary(days, now) =
                 LET future == {t \in {Start(i) : i \in DOMAIN slots} : t > now}
                 IN  IF future = {} THEN Absent ELSE Min(future)
  BY DEF NextHourBoundary
<1>4. HasSolar(days) <=> \E i \in DOMAIN slots : slots[i].level \notin {Absent, "no_data"}
  BY DEF HasSolar
<1>apart. \A i, j \in DOMAIN slots : i < j => Start(i) + Hour <= Start(j) \/ Start(j) + Hour <= Start(i)
  BY DEF Apart
<1> HIDE DEF days, slots
<1>5. ASSUME NEW i \in DOMAIN slots
      PROVE  /\ slots[i] # Absent /\ Start(i) \in Days /\ Start(i) \in Nat
             /\ slots[i].level = "high" <=> slots[i].level \notin {Absent, "no_data"}
  <2>1. slots[i] \in Begun
    BY <1>1, ElementOfSeq
  <2> QED BY <2>1, QueryAssumption DEF Begun, SolarSlots, Levels
<1>6. ASSUME NEW u \in Int, NEW i \in DOMAIN slots, Covers(i, u)
      PROVE  SlotCovering(days, u) = slots[i]
  <2> DEFINE covering == {j \in DOMAIN slots : Covers(j, u)}
  <2>1. \A j \in DOMAIN slots : Start(j) \in Nat /\ (Covers(j, u) => j = i)
    <3> SUFFICES ASSUME NEW j \in DOMAIN slots PROVE Start(j) \in Nat /\ (Covers(j, u) => j = i)
      OBVIOUS
    <3>1. Start(j) \in Nat /\ Start(i) \in Nat
      BY <1>5
    <3>2. i < j \/ j < i \/ i = j
      BY <1>1
    <3>3. i # j => Start(i) + Hour <= Start(j) \/ Start(j) + Hour <= Start(i)
      BY <1>apart, <3>2
    <3> HIDE DEF Start
    <3> QED BY <1>6, <3>1, <3>3, QueryAssumption
  <2>2. covering = {i}
    <3> HIDE DEF Start
    <3> QED BY <1>6, <2>1
  <2>3. Min(covering) = i
    <3>1. covering \in SUBSET (1..Len(slots)) /\ covering # {}
      BY <1>1, <2>2
    <3>2. Min(covering) \in covering
      <4> HIDE DEF covering
      <4> QED BY <1>1, <3>1, FirstPlace
    <3> QED BY <2>2, <3>2
  <2> QED BY <1>2, <2>2, <2>3
<1>7. ASSUME NEW u \in Int
      PROVE  \/ SlotCovering(days, u) = Absent
             \/ \E i \in DOMAIN slots : Covers(i, u) /\ SlotCovering(days, u) = slots[i]
  <2>1. CASE \E i \in DOMAIN slots : Covers(i, u)
    BY <1>6, <2>1
  <2>2. CASE {i \in DOMAIN slots : Covers(i, u)} = {}
    BY <1>2, <2>2
  <2> QED BY <2>1, <2>2
<1>8. HasSolar(days) <=> Sunny
  <2>1. ASSUME NEW i \in DOMAIN slots, slots[i].level = "high" PROVE Sunny
    <3>1. Start(i) \in Days /\ Start(i) \in Nat /\ slots[i] # Absent
      BY <1>5
    <3>2. Covers(i, Start(i))
      <4> HIDE DEF Start
      <4> QED BY <3>1, QueryAssumption
    <3>3. SlotCovering(days, Start(i)) = slots[i]
      <4>1. Start(i) \in Int
        BY <3>1
      <4> HIDE DEF Start, Covers
      <4> QED BY <1>6, <3>2, <4>1
    <3> QED BY <2>1, <3>1, <3>3 DEF Sunny
  <2>2. ASSUME Sunny PROVE \E i \in DOMAIN slots : slots[i].level = "high"
    <3>1. PICK u \in Days : SlotCovering(days, u) # Absent /\ SlotCovering(days, u).level = "high"
      BY <2>2 DEF Sunny
    <3>2. u \in Int
      BY QueryAssumption
    <3> QED BY <1>7, <3>1, <3>2
  <2> QED BY <1>4, <1>5, <2>1, <2>2
<1>9. ASSUME NEW now \in Days PROVE Woken(now)
  <2> DEFINE wake == NextHourBoundary(days, now)
             future == {t \in {Start(i) : i \in DOMAIN slots} : t > now}
  <2>1. now \in Nat /\ future \in SUBSET Nat
    BY <1>5, QueryAssumption
  <2>2. wake = IF future = {} THEN Absent ELSE Min(future)
    BY <1>3
  <2>3. \A i \in DOMAIN slots : Start(i) > now => Start(i) \in future
    OBVIOUS
  <2>4. \A t \in future : t > now /\ \E i \in DOMAIN slots : t = Start(i)
    OBVIOUS
  <2> HIDE DEF future, wake
  <2>5. CASE future = {}
    <3>1. wake = Absent
      BY <2>2, <2>5
    <3>2. \A i \in DOMAIN slots : Start(i) <= now
      <4>1. \A i \in DOMAIN slots : Start(i) \in Nat /\ ~(Start(i) > now)
        BY <1>5, <2>3, <2>5
      <4> HIDE DEF Start
      <4> QED BY <2>1, <4>1
    <3> QED BY <3>1, <3>2 DEF Woken, wake
  <2>6. CASE future # {}
    <3>1. wake \in future /\ \A t \in future : wake <= t
      BY <2>1, <2>2, <2>6, MinOfNaturals
    <3>2. wake \in Nat /\ wake > now /\ wake # Absent
      BY <2>1, <2>4, <3>1, QueryAssumption
    <3>3. PICK i \in DOMAIN slots : wake = Start(i)
      BY <2>4, <3>1
    <3>4. SlotCovering(days, wake).start_time = wake
      <4>1. Covers(i, wake)
        <5> HIDE DEF Start
        <5> QED BY <3>2, <3>3, QueryAssumption
      <4>2. SlotCovering(days, wake) = slots[i]
        <5> HIDE DEF Covers
        <5> QED BY <1>6, <3>2, <4>1
      <4> QED BY <3>3, <4>2
    <3>5. ASSUME NEW u \in now..(wake - 1)
          PROVE  SlotCovering(days, u) \in {SlotCovering(days, now), Absent}
      <4>1. u \in Int /\ now <= u /\ u < wake
        BY <2>1, <3>2
      <4>2. CASE SlotCovering(days, u) # Absent
        <5>1. PICK j \in DOMAIN slots : Covers(j, u) /\ SlotCovering(days, u) = slots[j]
          <6> HIDE DEF Covers
          <6> QED BY <1>7, <4>1, <4>2
        <5>2. Start(j) \in Nat /\ (Start(j) > now => wake <= Start(j))
          BY <1>5, <2>3, <3>1
        <5>3. Covers(j, now)
          <6> HIDE DEF Start
          <6> QED BY <2>1, <3>2, <4>1, <5>1, <5>2, QueryAssumption
        <5>4. SlotCovering(days, now) = slots[j]
          <6> HIDE DEF Covers
          <6> QED BY <1>6, <2>1, <5>3
        <5> QED BY <5>1, <5>4
      <4> QED BY <4>2
    <3> QED BY <3>2, <3>4, <3>5 DEF Woken, wake
  <2> QED BY <2>5, <2>6
<1> QED BY <1>8, <1>9

\* A consumer that sleeps to the next boundary misses no solar hour
\* (SolarSurplusForecast.slot_covering, next_hour_boundary, has_solar).
THEOREM SolarToTheBoundary == ResponseSpec => []SolarHoldsToBoundary
BY ReadInvHolds, SolarToBoundary, PTL

-----------------------------------------------------------------------------
(* Price periods and happy hours.                                          *)

LEMMA PlacesAreFinite ==
    ASSUME NEW n \in Nat
    PROVE  Cardinality(1..n) = n /\ \A P \in SUBSET (1..n) : IsFiniteSet(P)
<1>1. IsFiniteSet(1..n) /\ Cardinality(1..n) = n
  BY FS_Interval
<1> QED BY <1>1, FS_Subset

\* Where as many values as places occur, the places up to a day are as many as
\* the values up to it.
LEMMA AsManyValues ==
    ASSUME NEW n \in Nat, NEW f \in [1..n -> Nat], Cardinality({f[i] : i \in 1..n}) = n,
           NEW d \in Nat
    PROVE  Cardinality({i \in 1..n : f[i] <= d}) = Cardinality({x \in {f[i] : i \in 1..n} : x <= d})
<1> DEFINE values == {f[i] : i \in 1..n}
           places == {i \in 1..n : f[i] <= d}
           upto == {x \in values : x <= d}
           g == [i \in places |-> f[i]]
<1>1. IsFiniteSet(1..n) /\ Cardinality(1..n) = n
  BY PlacesAreFinite
<1>2. f \in Surjection(1..n, values)
  BY DEF Surjection
<1>3. f \in Injection(1..n, values)
  <2> HIDE DEF values
  <2>1. Cardinality(values) = Cardinality(1..n)
    BY <1>1 DEF values
  <2> QED BY <1>1, <1>2, <2>1, FS_Surjection
<1>4. \A i, j \in 1..n : f[i] = f[j] => i = j
  BY <1>3 DEF Injection, IsInjective
<1>5. IsFiniteSet(places)
  <2>1. places \in SUBSET (1..n)
    OBVIOUS
  <2> HIDE DEF places
  <2> QED BY <2>1, PlacesAreFinite
<1>6. g \in [places -> upto]
  OBVIOUS
<1>7. \A x \in upto : \E i \in places : g[i] = x
  OBVIOUS
<1>8. \A i, j \in places : g[i] = g[j] => i = j
  BY <1>4
<1> HIDE DEF g, places, upto
<1>9. g \in Bijection(places, upto)
  BY <1>6, <1>7, <1>8 DEF Bijection, Injection, Surjection, IsInjective
<1>10. ExistsBijection(places, upto)
  BY <1>9 DEF ExistsBijection
<1>11. Cardinality(upto) = Cardinality(places)
  BY <1>5, <1>10, FS_Bijection
<1> QED BY <1>11 DEF upto, places, values

Upto(S, d) == {v \in S : v <= d}

\* One value more than others is one more, from that value on.
LEMMA OneMore ==
    ASSUME NEW others \in SUBSET Nat, IsFiniteSet(others),
           NEW x \in Nat, x \notin others, NEW d \in Nat
    PROVE  /\ Cardinality(Upto(others, d)) \in Nat
           /\ Cardinality(Upto(others \cup {x}, d))
                = Cardinality(Upto(others, d)) + (IF x <= d THEN 1 ELSE 0)
<1> DEFINE few == Upto(others, d)
           more == Upto(others \cup {x}, d)
<1>1. few \in SUBSET others /\ x \notin few
  BY DEF Upto
<1>2. more = IF x <= d THEN few \cup {x} ELSE few
  BY DEF Upto
<1> HIDE DEF few, more
<1>3. IsFiniteSet(few)
  BY <1>1, FS_Subset
<1>4. Cardinality(few) \in Nat
  BY <1>3, FS_CardinalityType
<1>5. Cardinality(few \cup {x}) = Cardinality(few) + 1
  BY <1>1, <1>3, FS_AddElement
<1>6. Cardinality(more) = Cardinality(few) + (IF x <= d THEN 1 ELSE 0)
  BY <1>2, <1>4, <1>5
<1> QED BY <1>4, <1>6 DEF few, more

\* The greatest of the values of a list.
LEMMA GreatestValue ==
    ASSUME NEW n \in Nat, n # 0, NEW f \in [1..n -> Nat]
    PROVE  LET values == {f[i] : i \in 1..n}
           IN  Max(values) \in values /\ \A x \in values : x <= Max(values)
<1> DEFINE values == {f[i] : i \in 1..n}
           r == [i \in 1..n |-> -f[i]]
<1>1. r \in [1..n -> Int] /\ 1 \in 1..n
  OBVIOUS
<1>2. \E i \in 1..n : \A j \in 1..n : r[i] <= r[j]
  <2> DEFINE P == 1..n
  <2>1. P \in SUBSET (1..n) /\ P # {} /\ r \in [P -> Int]
    BY <1>1
  <2> HIDE DEF r, P
  <2>2. \E i \in P : \A j \in P : r[i] <= r[j]
    BY <2>1, LeastRank
  <2> QED BY <2>2 DEF P
<1>3. PICK i \in 1..n : \A j \in 1..n : f[i] >= f[j]
  <2>1. PICK i \in 1..n : \A j \in 1..n : -f[i] <= -f[j]
    BY <1>2
  <2>2. \A j \in 1..n : f[j] \in Nat
    OBVIOUS
  <2>3. \A j \in 1..n : f[i] >= f[j]
    BY <2>1, <2>2
  <2> QED BY <2>3
<1>4. f[i] \in values /\ \A x \in values : f[i] >= x /\ x \in Nat
  BY <1>3
<1> HIDE DEF values
<1>5. Max(values) \in values /\ \A x \in values : Max(values) >= x
  BY <1>4 DEF Max
<1>6. \A x \in values : x <= Max(values)
  BY <1>4, <1>5
<1> QED BY <1>5, <1>6 DEF values

LastingOn(f, t, d) == {i \in DOMAIN f : f[i] <= d /\ d < t[i]}

\* Periods that meet are as many, up to a day, as have begun and not ended.
LEMMA MeetingPeriods ==
    ASSUME NEW n \in Nat, n # 0, NEW f \in [1..n -> Nat], NEW t \in [1..n -> Nat],
           \A i \in 1..n : f[i] < t[i],
           Cardinality(Range(f)) = n, Cardinality(Range(t)) = n,
           Range(f) \ {Min(Range(f))} = Range(t) \ {Max(Range(t))},
           NEW d \in Nat
    PROVE  Cardinality(LastingOn(f, t, d))
               = IF Min(Range(f)) <= d /\ d < Max(Range(t)) THEN 1 ELSE 0
<1> DEFINE froms == {f[i] : i \in 1..n}
           tos == {t[i] : i \in 1..n}
           first == Min(froms)
           last == Max(tos)
           within == froms \ {first}
           begun == {i \in 1..n : f[i] <= d}
           ended == {i \in 1..n : t[i] <= d}
           on == LastingOn(f, t, d)
<1> USE DEF Range, LastingOn
<1>1. froms \in SUBSET Nat /\ tos \in SUBSET Nat /\ froms # {} /\ 1 \in 1..n
  OBVIOUS
<1>2. first \in froms /\ \A x \in froms : first <= x
  <2> HIDE DEF froms
  <2> QED BY <1>1, MinOfNaturals
<1>3. last \in tos /\ \A x \in tos : x <= last
  BY GreatestValue
<1>4. within = tos \ {last}
  OBVIOUS
<1>5. IsFiniteSet(within)
  <2>1. IsFiniteSet(1..n)
    BY PlacesAreFinite
  <2>2. f \in Surjection(1..n, froms)
    BY DEF Surjection
  <2>3. IsFiniteSet(froms)
    <3> HIDE DEF froms
    <3> QED BY <2>1, <2>2, FS_Surjection
  <2>4. within \in SUBSET froms
    OBVIOUS
  <2> HIDE DEF within, froms
  <2> QED BY <2>3, <2>4, FS_Subset
<1>6. Cardinality(begun) = Cardinality(Upto(froms, d)) /\ Cardinality(ended) = Cardinality(Upto(tos, d))
  BY AsManyValues DEF Upto
<1>7. first < last
  <2>1. PICK i \in 1..n : first = f[i]
    BY <1>2
  <2>2. t[i] \in tos
    OBVIOUS
  <2>3. f[i] < t[i] /\ t[i] <= last /\ f[i] \in Nat /\ t[i] \in Nat
    BY <1>3, <2>2
  <2>4. last \in Nat
    BY <1>1, <1>3
  <2> HIDE DEF first, last, tos, froms
  <2> QED BY <2>1, <2>3, <2>4
<1>8. on = begun \ ended /\ begun \cap ended = ended
  <2> SUFFICES ASSUME NEW i \in 1..n
               PROVE  /\ i \in on <=> i \in begun /\ i \notin ended
                      /\ i \in ended => i \in begun
    OBVIOUS
  <2>1. f[i] \in Nat /\ t[i] \in Nat /\ f[i] < t[i]
    OBVIOUS
  <2> QED BY <2>1
<1>9. IsFiniteSet(begun)
  <2>1. begun \in SUBSET (1..n)
    OBVIOUS
  <2> HIDE DEF begun
  <2> QED BY <2>1, PlacesAreFinite
<1>10. froms = within \cup {first} /\ tos = within \cup {last}
       /\ first \notin within /\ last \notin within /\ within \in SUBSET Nat
       /\ first \in Nat /\ last \in Nat
  <2>1. first \in Nat /\ last \in Nat
    BY <1>1, <1>2, <1>3
  <2>2. froms = within \cup {first} /\ first \notin within /\ within \in SUBSET Nat
    <3> HIDE DEF froms, first
    <3> QED BY <1>1, <1>2
  <2>3. tos = within \cup {last} /\ last \notin within
    <3> HIDE DEF within, tos, last
    <3> QED BY <1>3, <1>4
  <2> QED BY <2>1, <2>2, <2>3
<1> HIDE DEF froms, tos, first, last, within, begun, ended
<1>11. /\ Cardinality(Upto(within, d)) \in Nat
       /\ Cardinality(Upto(within \cup {first}, d)) = Cardinality(Upto(within, d)) + (IF first <= d THEN 1 ELSE 0)
       /\ Cardinality(Upto(within \cup {last}, d)) = Cardinality(Upto(within, d)) + (IF last <= d THEN 1 ELSE 0)
  <2>1. within \in SUBSET Nat /\ IsFiniteSet(within)
    BY <1>5, <1>10
  <2>2. ASSUME NEW x \in Nat, x \notin within
        PROVE  /\ Cardinality(Upto(within, d)) \in Nat
               /\ Cardinality(Upto(within \cup {x}, d))
                    = Cardinality(Upto(within, d)) + (IF x <= d THEN 1 ELSE 0)
    BY <2>1, <2>2, OneMore
  <2> QED BY <1>10, <2>2
<1>12. Cardinality(begun \ ended) = Cardinality(begun) - Cardinality(ended)
  <2>1. Cardinality(begun \ ended) = Cardinality(begun) - Cardinality(begun \cap ended)
    BY <1>9, FS_Difference
  <2> QED BY <1>8, <2>1
<1>13. Cardinality(on) = Cardinality(begun) - Cardinality(ended)
  BY <1>8, <1>12
<1>14. /\ Cardinality(begun) = Cardinality(Upto(within, d)) + (IF first <= d THEN 1 ELSE 0)
       /\ Cardinality(ended) = Cardinality(Upto(within, d)) + (IF last <= d THEN 1 ELSE 0)
  BY <1>6, <1>10, <1>11
<1>15. Cardinality(on) = IF first <= d /\ d < last THEN 1 ELSE 0
  <2> DEFINE c == Cardinality(Upto(within, d))
             b == Cardinality(begun)
             e == Cardinality(ended)
  <2>1. c \in Nat /\ b = c + (IF first <= d THEN 1 ELSE 0) /\ e = c + (IF last <= d THEN 1 ELSE 0)
    BY <1>11, <1>14
  <2>2. Cardinality(on) = b - e
    BY <1>13
  <2> HIDE DEF c, b, e, on
  <2> QED BY <1>7, <1>10, <2>1, <2>2
<1> QED BY <1>15 DEF on, first, last, froms, tos

LEMMA EveryDayHasOne == ReadInv /\ Read("price_periods") => OnePeriodPerDay(model[1])
<1> DEFINE periods == model[1]
           n == Len(periods)
           f == [i \in 1..n |-> periods[i].valid_from]
           t == [i \in 1..n |-> periods[i].valid_to]
           froms == {periods[i].valid_from : i \in DOMAIN periods}
           tos == {periods[i].valid_to : i \in DOMAIN periods}
           Meeting ==
               /\ periods # <<>>
               /\ Absent \notin froms \cup tos
               /\ Cardinality(froms) = Len(periods) /\ Cardinality(tos) = Len(periods)
               /\ \A i \in DOMAIN periods : periods[i].valid_from < periods[i].valid_to
               /\ froms \ {Min(froms)} = tos \ {Max(tos)}
<1> SUFFICES ASSUME ReadInv, Read("price_periods"), Meeting, NEW day \in Days
             PROVE  Cardinality({i \in DOMAIN periods : PeriodContains(periods[i], day)})
                      = IF Min(froms) <= day /\ day < Max(tos) THEN 1 ELSE 0
  BY DEF OnePeriodPerDay
<1> HIDE DEF Meeting
<1>1. periods \in Seq(PricePeriods) /\ DOMAIN periods = 1..n /\ n \in Nat
  <2>1. raw \in SeqOf(PricePeriods, MaxCompared)
    BY DEF ReadInv, Read, Queried
  <2>2. model = <<raw>>
    BY DEF ReadInv, Read, Modelled
  <2>3. raw \in Seq(PricePeriods) /\ DOMAIN raw = 1..Len(raw) /\ Len(raw) \in Nat
    BY <2>1, ListsUpTo, QueryAssumption
  <2> QED BY <2>2, <2>3
<1>2. /\ periods # <<>> /\ Absent \notin froms \cup tos
      /\ Cardinality(froms) = n /\ Cardinality(tos) = n
      /\ \A i \in DOMAIN periods : periods[i].valid_from < periods[i].valid_to
      /\ froms \ {Min(froms)} = tos \ {Max(tos)}
  BY DEF Meeting
<1>3. n # 0
  <2> HIDE DEF periods
  <2> QED BY <1>1, <1>2, EmptySeq
<1> HIDE DEF periods, n
<1>4. ASSUME NEW i \in 1..n
      PROVE  /\ periods[i].valid_from \in Nat /\ periods[i].valid_to \in Nat
             /\ periods[i].valid_from # Absent /\ periods[i].valid_to # Absent
             /\ periods[i].valid_from < periods[i].valid_to
  <2>1. periods[i] \in PricePeriods
    BY <1>1, ElementOfSeq DEF n
  <2>2. periods[i].valid_from \in Days \cup {Absent} /\ periods[i].valid_to \in Days \cup {Absent}
    BY <2>1 DEF PricePeriods, MaybeDay
  <2>3. periods[i].valid_from \in froms /\ periods[i].valid_to \in tos
    BY <1>1
  <2> QED BY <1>1, <1>2, <2>2, <2>3, QueryAssumption
<1>5. f \in [1..n -> Nat] /\ t \in [1..n -> Nat] /\ \A i \in 1..n : f[i] < t[i]
  BY <1>4
<1>6. froms = Range(f) /\ tos = Range(t)
  BY <1>1 DEF Range
<1>7. {i \in DOMAIN periods : PeriodContains(periods[i], day)} = LastingOn(f, t, day)
  BY <1>1, <1>4 DEF PeriodContains, LastingOn
<1>8. day \in Nat
  BY QueryAssumption
<1> HIDE DEF f, t, froms, tos
<1>9. /\ Cardinality(Range(f)) = n /\ Cardinality(Range(t)) = n
      /\ Range(f) \ {Min(Range(f))} = Range(t) \ {Max(Range(t))}
  BY <1>2, <1>6
<1>10. Cardinality(LastingOn(f, t, day))
         = IF Min(Range(f)) <= day /\ day < Max(Range(t)) THEN 1 ELSE 0
  BY <1>1, <1>3, <1>5, <1>8, <1>9, MeetingPeriods
<1> QED BY <1>6, <1>7, <1>10 DEF froms, tos

LEMMA ShortLists ==
    ASSUME NEW a, NEW b
    PROVE  /\ <<>> \o <<>> = <<>> /\ <<a>> \o <<>> = <<a>> /\ <<>> \o <<b>> = <<b>>
           /\ <<a>> \o <<b>> = <<a, b>>
           /\ Len(<<a>>) = 1 /\ DOMAIN <<a>> = {1} /\ Len(<<a, b>>) = 2 /\ DOMAIN <<a, b>> = {1, 2}
<1>1. <<>> \o <<>> = <<>>
  OBVIOUS
<1>2. <<a>> \o <<>> = <<a>>
  OBVIOUS
<1>3. <<>> \o <<b>> = <<b>>
  OBVIOUS
<1>4. <<a>> \o <<b>> = <<a, b>>
  <2> DEFINE both == <<a>> \o <<b>>
  <2>1. <<a>> \in Seq({a, b}) /\ <<b>> \in Seq({a, b}) /\ <<a, b>> \in Seq({a, b})
    OBVIOUS
  <2>2. both \in Seq({a, b}) /\ Len(both) = 2 /\ both[1] = a /\ both[2] = b
    BY <2>1, ConcatProperties
  <2> HIDE DEF both
  <2>3. both = <<a, b>>
    BY <2>1, <2>2, SeqEqual
  <2> QED BY <2>3 DEF both
<1>5. Len(<<a>>) = 1 /\ DOMAIN <<a>> = {1}
  OBVIOUS
<1>6. Len(<<a, b>>) = 2
  OBVIOUS
<1>7. DOMAIN <<a, b>> = {1, 2}
  OBVIOUS
<1> QED BY <1>1, <1>2, <1>3, <1>4, <1>5, <1>6, <1>7

\* The windows kept are the whole ones, and those that are not are counted.
LEMMA HappyWindows == ReadInv /\ Read("happy_hours") => HappyWithinWindows(model[1])
<1> DEFINE event == model[1]
           windows == event.windows
           present == {k \in {1, 2} : raw[k] # Absent}
           whole == {k \in present : raw[k] # NotAList /\ Absent \notin {raw[k].start, raw[k].end}}
           kept == [k \in {1, 2} |-> ParseHappyHourWindow(raw[k])]
           Starts(k) == raw[k].start
           Happy(w, now) == w.start <= now /\ now < w.end
<1> SUFFICES ASSUME ReadInv, Read("happy_hours") PROVE HappyWithinWindows(event)
  OBVIOUS
<1>1. /\ raw[1] \in Windows \cup {Absent, NotAList}
      /\ raw[2] \in Windows \cup {Absent, NotAList}
      /\ raw = <<raw[1], raw[2]>>
  <2>1. raw \in (Windows \cup {Absent, NotAList}) \X (Windows \cup {Absent, NotAList})
    BY DEF ReadInv, Read, Queried
  <2> QED BY <2>1
<1>2. /\ windows = ByStart(kept[1] \o kept[2])
      /\ event.skipped_entries
           = Cardinality({k \in {1, 2} : <<raw[1], raw[2]>>[k] # Absent}) - Len(kept[1] \o kept[2])
  <2>1. model = <<ParseHappyHourEvent(raw[1], raw[2])>>
    BY DEF ReadInv, Read, Modelled
  <2> QED BY <2>1 DEF ParseHappyHourEvent
<1>3. {k \in {1, 2} : <<raw[1], raw[2]>>[k] # Absent} = present
  OBVIOUS
<1> HIDE DEF event
<1>4. ASSUME NEW k \in {1, 2}
      PROVE  /\ k \in whole => kept[k] = <<raw[k]>> /\ raw[k].start \in Nat /\ raw[k].end \in Nat
             /\ k \notin whole => kept[k] = <<>>
  <2>1. raw[k] \in Windows \cup {Absent, NotAList}
    BY <1>1
  <2>2. kept[k] = IF raw[k] \in {Absent, NotAList} \/ raw[k].start = Absent \/ raw[k].end = Absent
                  THEN <<>> ELSE <<raw[k]>>
    BY DEF ParseHappyHourWindow
  <2> HIDE DEF kept
  <2>3. k \in whole => raw[k] \notin {Absent, NotAList} /\ raw[k].start # Absent /\ raw[k].end # Absent
    OBVIOUS
  <2>4. k \in whole => raw[k].start \in Nat /\ raw[k].end \in Nat
    BY <2>1, <2>3, QueryAssumption DEF Windows, MaybeDay
  <2> QED BY <2>2, <2>4
<1> HIDE DEF kept
<1>5. whole \in SUBSET present /\ present \in SUBSET {1, 2}
  OBVIOUS
<1> HIDE DEF whole, present
<1>6. /\ \A now \in Nat : IsActive(windows, now) <=> \E k \in whole : Happy(raw[k], now)
      /\ \A i, j \in DOMAIN windows : i < j => windows[i].start <= windows[j].start
      /\ Len(kept[1] \o kept[2]) = Cardinality(whole) /\ Len(windows) = Cardinality(whole)
  <2> HIDE DEF windows
  <2>1. CASE whole = {}
    <3>1. kept[1] = <<>> /\ kept[2] = <<>>
      BY <1>4, <2>1
    <3>2. kept[1] \o kept[2] = <<>> /\ windows = <<>>
      BY <1>2, <3>1 DEF ByStart, windows
    <3> QED BY <2>1, <3>2, FS_EmptySet DEF IsActive
  <2>2. ASSUME NEW k \in {1, 2}, whole = {k}
        PROVE  /\ \A now \in Nat : IsActive(windows, now) <=> \E m \in whole : Happy(raw[m], now)
               /\ \A i, j \in DOMAIN windows : i < j => windows[i].start <= windows[j].start
               /\ Len(kept[1] \o kept[2]) = Cardinality(whole) /\ Len(windows) = Cardinality(whole)
    <3>1. kept[1] \o kept[2] = <<raw[k]>>
      <4>1. k = 1 => kept[1] = <<raw[k]>> /\ kept[2] = <<>>
        BY <1>4, <2>2
      <4>2. k = 2 => kept[1] = <<>> /\ kept[2] = <<raw[k]>>
        BY <1>4, <2>2
      <4> QED BY <4>1, <4>2, ShortLists
    <3>2. windows = <<raw[k]>>
      BY <1>2, <3>1, ShortLists DEF ByStart, windows
    <3>3. DOMAIN windows = {1} /\ windows[1] = raw[k] /\ Len(windows) = 1
      BY <3>2, ShortLists
    <3>4. Cardinality(whole) = 1
      BY <2>2, FS_Singleton
    <3>5. \A now \in Nat : IsActive(windows, now) <=> \E m \in whole : Happy(raw[m], now)
      BY <2>2, <3>3 DEF IsActive
    <3> QED BY <3>1, <3>3, <3>4, <3>5, ShortLists
  <2>3. CASE whole = {1, 2}
    <3>1. kept[1] = <<raw[1]>> /\ kept[2] = <<raw[2]>> /\ raw[1].start \in Nat /\ raw[2].start \in Nat
      BY <1>4, <2>3
    <3>2. kept[1] \o kept[2] = <<raw[1], raw[2]>>
      BY <3>1, ShortLists
    <3>3. windows = IF raw[2].start < raw[1].start THEN <<raw[2], raw[1]>> ELSE <<raw[1], raw[2]>>
      BY <1>2, <3>2 DEF ByStart, windows
    <3>4. Cardinality(whole) = 2
      <4>1. whole = {1} \cup {2} /\ 2 \notin {1}
        BY <2>3
      <4>2. Cardinality({1}) = 1 /\ IsFiniteSet({1})
        BY FS_Singleton
      <4>3. Cardinality({1} \cup {2}) = 2
        BY <4>1, <4>2, FS_AddElement
      <4> QED BY <4>1, <4>3
    <3>5. \A now \in Nat : IsActive(windows, now) <=> Happy(raw[1], now) \/ Happy(raw[2], now)
      BY <3>3 DEF IsActive
    <3>6. \A i, j \in DOMAIN windows : i < j => windows[i].start <= windows[j].start
      <4>1. DOMAIN windows = {1, 2}
        BY <3>3
      <4>2. windows[1].start <= windows[2].start
        BY <3>1, <3>3
      <4> QED BY <4>1, <4>2
    <3>7. Len(windows) = 2 /\ Len(kept[1] \o kept[2]) = 2
      BY <3>2, <3>3
    <3> QED BY <2>3, <3>4, <3>5, <3>6, <3>7
  <2>4. whole = {} \/ whole = {1} \/ whole = {2} \/ whole = {1, 2}
    BY <1>5
  <2> QED BY <2>1, <2>2, <2>3, <2>4
<1>7. \A now \in Days : IsActive(windows, now) <=> \E k \in whole : now \in raw[k].start..(raw[k].end - 1)
  <2> SUFFICES ASSUME NEW now \in Days
               PROVE  IsActive(windows, now) <=> \E k \in whole : now \in raw[k].start..(raw[k].end - 1)
    OBVIOUS
  <2>1. now \in Nat
    BY QueryAssumption
  <2>2. ASSUME NEW k \in whole PROVE Happy(raw[k], now) <=> now \in raw[k].start..(raw[k].end - 1)
    <3>1. raw[k].start \in Nat /\ raw[k].end \in Nat
      BY <1>4, <1>5
    <3> QED BY <2>1, <3>1
  <2> QED BY <1>6, <2>1, <2>2
<1>8. event.skipped_entries = Cardinality(present \ whole)
  <2>1. IsFiniteSet(present)
    <3>1. present \in SUBSET (1..2)
      BY <1>5
    <3> QED BY <3>1, PlacesAreFinite
  <2>2. present \cap whole = whole
    BY <1>5
  <2>3. Cardinality(present \ whole) = Cardinality(present) - Cardinality(present \cap whole)
    BY <2>1, FS_Difference
  <2>4. event.skipped_entries = Cardinality(present) - Len(kept[1] \o kept[2])
    BY <1>2, <1>3
  <2> QED BY <1>6, <2>2, <2>3, <2>4
<1> QED BY <1>6, <1>7, <1>8 DEF HappyWithinWindows, whole, present

\* Intervals that meet leave no day out and give none to both, whether of prices
\* (PricePeriod.contains) or of happy hours (HappyHourEvent.is_active).
THEOREM IntervalsMeet == ResponseSpec => []IntervalsAreHalfOpen
<1>1. ReadInv => IntervalsAreHalfOpen
  BY EveryDayHasOne, HappyWindows DEF IntervalsAreHalfOpen
<1> QED BY <1>1, ReadInvHolds, PTL

-----------------------------------------------------------------------------
(* Sums.                                                                   *)

\* The sums of the first counts, up to n of them.
SumsRun(g, counts, n) ==
    /\ g \in [0..n -> Int]
    /\ g[0] = 0 /\ \A k \in 1..n : g[k] = g[k - 1] + counts[k]

LEMMA TotalUnfolds ==
    ASSUME NEW n \in Nat, NEW c \in [1..n -> Int]
    PROVE  \E g : SumsRun(g, c, n) /\ Total(c) = g[n]
<1> DEFINE base == 0
           Step == [p \in Int \X (1..n) |-> p[1] + c[p[2]]]
           body(g) == [k \in 0..Len(c) |-> IF k = 0 THEN 0 ELSE g[k - 1] + c[k]]
           run == CHOOSE g : g = body(g)
<1>1. Len(c) = n
  BY ListOf
<1>2. base \in Int /\ Step \in [Int \X (1..n) -> Int]
  OBVIOUS
<1>3. PICK g : Runs(g, n, Int, base, Step)
  <2> HIDE DEF Step, base
  <2> QED BY <1>2, RecursionExists
<1>4. /\ g \in [0..n -> Int] /\ g[0] = 0
      /\ \A k \in 1..n : g[k - 1] \in Int /\ g[k] = g[k - 1] + c[k]
  <2>1. \A k \in 1..n : k - 1 \in 0..n
    OBVIOUS
  <2>2. \A k \in 1..n : g[k] = Step[<<g[k - 1], k>>] /\ g[k - 1] \in Int
    <3> HIDE DEF Step
    <3> QED BY <1>3, <2>1 DEF Runs
  <2> QED BY <1>3, <2>2 DEF Runs
<1>5. g = body(g)
  <2>1. ASSUME NEW k \in 0..n PROVE g[k] = body(g)[k]
    <3>1. k = 0 \/ k \in 1..n
      OBVIOUS
    <3> QED BY <1>1, <1>4, <3>1
  <2> QED BY <1>1, <1>4, <2>1
<1>6. run = body(run)
  <2> HIDE DEF body
  <2> QED BY <1>5
<1>7. run[0] = 0 /\ \A k \in 1..n : run[k] = run[k - 1] + c[k]
  <2> HIDE DEF run
  <2>1. run[0] = 0
    BY <1>1, <1>6
  <2>2. ASSUME NEW k \in 1..n PROVE run[k] = run[k - 1] + c[k]
    <3>1. k \in 0..n /\ k # 0
      OBVIOUS
    <3> QED BY <1>1, <1>6, <3>1
  <2> QED BY <2>1, <2>2
<1>8. Total(c) = run[n]
  BY <1>1 DEF Total
<1>9. run[n] = g[n]
  <2> HIDE DEF run
  <2>1. run[0] = g[0] /\ \A k \in 1..n : run[k - 1] = g[k - 1] => run[k] = g[k]
    BY <1>4, <1>7
  <2> QED BY <2>1, SameRun
<1> QED BY <1>4, <1>8, <1>9 DEF SumsRun

\* Sums are numbers, and natural if the counts are.
LEMMA TotalType ==
    ASSUME NEW n \in Nat, NEW c \in [1..n -> Int]
    PROVE  Total(c) \in Int /\ ((\A i \in 1..n : c[i] \in Nat) => Total(c) \in Nat)
<1>1. PICK g : SumsRun(g, c, n) /\ Total(c) = g[n]
  BY TotalUnfolds
<1>2. Total(c) \in Int
  BY <1>1 DEF SumsRun
<1>3. ASSUME \A i \in 1..n : c[i] \in Nat PROVE Total(c) \in Nat
  <2> DEFINE S == {k \in 0..n : g[k] \in Nat}
  <2>1. 0 \in S /\ \A k \in 1..n : k - 1 \in S => k \in S
    BY <1>1, <1>3 DEF SumsRun
  <2>2. \A k \in 0..n : k \in S
    <3> HIDE DEF S
    <3> QED BY <2>1, InductionUpTo
  <2> QED BY <1>1, <2>2
<1> QED BY <1>2, <1>3

\* The sum of sums.
LEMMA TotalAdds ==
    ASSUME NEW n \in Nat, NEW a \in [1..n -> Int], NEW b \in [1..n -> Int], NEW c \in [1..n -> Int],
           \A i \in 1..n : c[i] = a[i] + b[i]
    PROVE  Total(c) = Total(a) + Total(b)
<1>1. PICK f : SumsRun(f, a, n) /\ Total(a) = f[n]
  BY TotalUnfolds
<1>2. PICK g : SumsRun(g, b, n) /\ Total(b) = g[n]
  BY TotalUnfolds
<1>3. PICK h : SumsRun(h, c, n) /\ Total(c) = h[n]
  BY TotalUnfolds
<1> DEFINE S == {k \in 0..n : h[k] = f[k] + g[k]}
<1>4. 0 \in S
  BY <1>1, <1>2, <1>3 DEF SumsRun
<1>5. ASSUME NEW k \in 1..n, k - 1 \in S PROVE k \in S
  <2>1. k \in 0..n /\ k - 1 \in 0..n /\ h[k - 1] = f[k - 1] + g[k - 1]
    BY <1>5
  <2>2. f[k - 1] \in Int /\ g[k - 1] \in Int /\ a[k] \in Int /\ b[k] \in Int /\ c[k] = a[k] + b[k]
    BY <1>1, <1>2, <2>1 DEF SumsRun
  <2>3. h[k] = h[k - 1] + c[k] /\ f[k] = f[k - 1] + a[k] /\ g[k] = g[k - 1] + b[k]
    BY <1>1, <1>2, <1>3 DEF SumsRun
  <2> QED BY <2>1, <2>2, <2>3
<1>6. \A k \in 0..n : k \in S
  <2> HIDE DEF S
  <2> QED BY <1>4, <1>5, InductionUpTo
<1> QED BY <1>1, <1>2, <1>3, <1>6

\* One count more.
LEMMA TotalAppends ==
    ASSUME NEW n \in Nat, NEW a \in [1..n -> Int], NEW c \in [1..(n + 1) -> Int],
           \A i \in 1..n : c[i] = a[i]
    PROVE  Total(c) = Total(a) + c[n + 1]
<1>1. PICK f : SumsRun(f, a, n) /\ Total(a) = f[n]
  BY TotalUnfolds
<1>2. PICK h : SumsRun(h, c, n + 1) /\ Total(c) = h[n + 1]
  BY TotalUnfolds
<1>3. f[0] = h[0] /\ \A k \in 1..n : f[k - 1] = h[k - 1] => f[k] = h[k]
  BY <1>1, <1>2 DEF SumsRun
<1>4. f[n] = h[n]
  BY <1>3, SameRun
<1>5. n + 1 \in 1..(n + 1) /\ (n + 1) - 1 = n
  OBVIOUS
<1>6. h[n + 1] = h[n] + c[n + 1]
  BY <1>2, <1>5 DEF SumsRun
<1> QED BY <1>1, <1>2, <1>4, <1>6

LEMMA TotalOfNone ==
    ASSUME NEW c \in [1..0 -> Int]
    PROVE  Total(c) = 0
<1>1. PICK g : SumsRun(g, c, 0) /\ Total(c) = g[0]
  BY TotalUnfolds
<1> QED BY <1>1 DEF SumsRun

LEMMA TotalOfNothing == Total(<<>>) = 0
<1>1. <<>> \in [1..0 -> Int]
  OBVIOUS
<1> QED BY <1>1, TotalOfNone

\* The sums of short lists.
LEMMA TotalOfFew ==
    ASSUME NEW x \in Int, NEW y \in Int, NEW z \in Int
    PROVE  /\ Total(<<x>>) = x
           /\ Total(<<x, y>>) = x + y /\ Total(<<x, y, z>>) = x + y + z
<1>1. <<x>> \in [1..1 -> Int]
      /\ <<x, y>> \in [1..2 -> Int] /\ <<x, y, z>> \in [1..3 -> Int]
  OBVIOUS
<1>3. Total(<<x>>) = x
  <2>1. PICK g : SumsRun(g, <<x>>, 1) /\ Total(<<x>>) = g[1]
    BY <1>1, TotalUnfolds
  <2>2. g[0] = 0 /\ g[1] = g[0] + x
    BY <2>1 DEF SumsRun
  <2> QED BY <2>1, <2>2
<1>4. Total(<<x, y>>) = x + y
  <2> DEFINE a == <<x>>
             c == <<x, y>>
  <2>1. a \in [1..1 -> Int] /\ c \in [1..(1 + 1) -> Int] /\ c[1 + 1] = y /\ \A i \in 1..1 : c[i] = a[i]
    BY <1>1
  <2>2. Total(a) = x
    BY <1>3
  <2> HIDE DEF a, c
  <2>3. Total(c) = Total(a) + c[1 + 1]
    BY <2>1, TotalAppends
  <2> QED BY <2>1, <2>2, <2>3 DEF c
<1>5. Total(<<x, y, z>>) = x + y + z
  <2> DEFINE a == <<x, y>>
             c == <<x, y, z>>
  <2>1. a \in [1..2 -> Int] /\ c \in [1..(2 + 1) -> Int] /\ c[2 + 1] = z /\ \A i \in 1..2 : c[i] = a[i]
    BY <1>1
  <2>2. Total(a) = x + y
    BY <1>4
  <2> HIDE DEF a, c
  <2>3. Total(c) = Total(a) + c[2 + 1]
    BY <2>1, TotalAppends
  <2> QED BY <2>1, <2>2, <2>3 DEF c
<1> QED BY <1>3, <1>4, <1>5

\* The sum of the counts at some places.
LEMMA TotalOfPicked ==
    ASSUME NEW n \in Nat, NEW P \in SUBSET (1..n), NEW c \in [1..n -> Int],
           NEW m \in [1..n -> Int], \A i \in 1..n : m[i] = IF i \in P THEN c[i] ELSE 0
    PROVE  Total([k \in DOMAIN InOrder(P, n) |-> c[InOrder(P, n)[k]]]) = Total(m)
<1> DEFINE picked(k) == [j \in DOMAIN InOrder(P, k) |-> c[InOrder(P, k)[j]]]
<1>1. PICK g : SumsRun(g, m, n) /\ Total(m) = g[n]
  BY TotalUnfolds
<1>2. ASSUME NEW k \in 0..n
      PROVE  InOrder(P, k) \in Seq(1..n)
  <2> DEFINE S == {j \in 0..n : InOrder(P, j) \in Seq(1..n)}
  <2>1. 0 \in S
    <3>1. InOrder(P, 0) = <<>>
      BY InOrderSteps
    <3>2. <<>> \in Seq(1..n) /\ 0 \in 0..n
      OBVIOUS
    <3> QED BY <3>1, <3>2
  <2>2. ASSUME NEW j \in 1..n, j - 1 \in S PROVE j \in S
    <3>1. j \in Nat \ {0}
      OBVIOUS
    <3>2. InOrder(P, j) = IF j \in P THEN Append(InOrder(P, j - 1), j) ELSE InOrder(P, j - 1)
      BY <3>1, InOrderSteps
    <3>3. InOrder(P, j - 1) \in Seq(1..n) /\ j \in 0..n
      BY <2>2
    <3>4. Append(InOrder(P, j - 1), j) \in Seq(1..n)
      BY <3>3, AppendProperties
    <3>5. InOrder(P, j) \in Seq(1..n)
      BY <3>2, <3>3, <3>4
    <3> QED BY <3>3, <3>5
  <2>3. \A j \in 0..n : j \in S
    <3> HIDE DEF S
    <3> QED BY <2>1, <2>2, InductionUpTo
  <2> QED BY <2>3
<1> DEFINE T == {k \in 0..n : Total(picked(k)) = g[k]}
<1>3. 0 \in T
  <2>1. InOrder(P, 0) = <<>>
    BY InOrderSteps
  <2>2. picked(0) \in [1..0 -> Int]
    BY <2>1
  <2>3. Total(picked(0)) = 0
    <3> HIDE DEF picked
    <3> QED BY <2>2, TotalOfNone
  <2> HIDE DEF picked
  <2> QED BY <1>1, <2>3 DEF SumsRun
<1>4. ASSUME NEW k \in 1..n, k - 1 \in T PROVE k \in T
  <2> DEFINE order == InOrder(P, k - 1)
             l == Len(order)
  <2>1. k \in Nat \ {0} /\ k \in 0..n /\ k - 1 \in 0..n
    OBVIOUS
  <2>2. order \in Seq(1..n)
    BY <1>2, <2>1
  <2>3. InOrder(P, k) = IF k \in P THEN Append(order, k) ELSE order
    BY <2>1, InOrderSteps
  <2>4. g[k] = g[k - 1] + m[k] /\ g[k - 1] \in Int
    BY <1>1, <2>1 DEF SumsRun
  <2>5. Total(picked(k - 1)) = g[k - 1]
    <3> HIDE DEF picked
    <3> QED BY <1>4
  <2>6. CASE k \notin P
    <3>1. picked(k) = picked(k - 1) /\ m[k] = 0
      BY <2>3, <2>6
    <3>2. g[k] = g[k - 1]
      BY <2>4, <3>1
    <3> HIDE DEF picked
    <3> QED BY <2>1, <2>5, <3>1, <3>2
  <2>7. CASE k \in P
    <3> DEFINE a == picked(k - 1)
               b == picked(k)
    <3> HIDE DEF order
    <3>1. l \in Nat /\ DOMAIN order = 1..l /\ \A j \in 1..l : order[j] \in 1..n
      BY <2>2
    <3>2. /\ Append(order, k) \in Seq(1..n) /\ Len(Append(order, k)) = l + 1
          /\ Append(order, k)[l + 1] = k /\ \A j \in 1..l : Append(order, k)[j] = order[j]
      BY <2>2, AppendProperties
    <3>3. a = [j \in 1..l |-> c[order[j]]]
      BY <3>1 DEF order
    <3>4. b = [j \in 1..(l + 1) |-> c[Append(order, k)[j]]]
      <4>1. InOrder(P, k) = Append(order, k)
        BY <2>3, <2>7
      <4>2. DOMAIN Append(order, k) = 1..(l + 1)
        BY <3>2
      <4> QED BY <4>1, <4>2
    <3> HIDE DEF a, b, l
    <3>5. a \in [1..l -> Int]
      BY <3>1, <3>3
    <3>6. \A j \in 1..(l + 1) : Append(order, k)[j] \in 1..n
      BY <3>1, <3>2, ElementOfSeq
    <3>7. b \in [1..(l + 1) -> Int]
      BY <3>4, <3>6
    <3>8. b[l + 1] = c[k] /\ \A j \in 1..l : b[j] = a[j]
      <4>1. l + 1 \in 1..(l + 1) /\ 1..l \subseteq 1..(l + 1)
        BY <3>1
      <4> QED BY <3>2, <3>3, <3>4, <4>1
    <3>9. Total(b) = Total(a) + b[l + 1]
      BY <3>1, <3>5, <3>7, <3>8, TotalAppends
    <3>10. Total(b) = g[k]
      <4>1. m[k] = c[k]
        BY <2>7
      <4>2. Total(a) = g[k - 1]
        BY <2>5 DEF a
      <4> QED BY <2>4, <3>8, <3>9, <4>1, <4>2
    <3> HIDE DEF picked
    <3> QED BY <2>1, <3>10 DEF b
  <2> QED BY <2>6, <2>7
<1>5. \A k \in 0..n : k \in T
  <2> HIDE DEF T
  <2> QED BY <1>3, <1>4, InductionUpTo
<1>6. Total(picked(n)) = g[n]
  <2>1. n \in T
    <3> HIDE DEF T
    <3> QED BY <1>5
  <2> HIDE DEF picked
  <2> QED BY <2>1
<1> QED BY <1>1, <1>6

-----------------------------------------------------------------------------
(* A list is parsed: what its parser accepts is kept, what it refuses counted. *)

\* The places of the sound entries in order, and what of the parsed is made,
\* skipped, recorded and counted in all.
SoundIn(E) == {i \in DOMAIN E : Sound(E[i])}
Order(E) == InOrder(SoundIn(E), Len(E))
Made(parsed, E) == [k \in DOMAIN Order(E) |-> parsed[Order(E)[k]].item]
Skips(E) == [i \in DOMAIN E |-> IF Sound(E[i]) THEN 0 ELSE 1]
Records(parsed, E) == [i \in DOMAIN E |-> IF Sound(E[i]) THEN parsed[i].recorded ELSE 0]
Counts(parsed, E) == [i \in DOMAIN E |-> IF Sound(E[i]) THEN parsed[i].recorded ELSE 1]

\* A parser accepts the sound entries and records nothing of those it refuses.
Judged(parsed, E, n) ==
    /\ DOMAIN parsed = 1..n
    /\ \A i \in 1..n : /\ parsed[i].kept <=> Sound(E[i])
                       /\ parsed[i].recorded \in Nat
                       /\ ~Sound(E[i]) => parsed[i].recorded = 0

\* The items of the sound entries are kept, in their order, and every entry that
\* is not sound is counted, with what the others have recorded.
LEMMA ParsedAlike ==
    ASSUME NEW n \in Nat, NEW X, NEW E \in [1..n -> X], NEW parsed, Judged(parsed, E, n)
    PROVE  LET list == ParseItemsCounted(parsed)
           IN  /\ Order(E) \in Seq(SoundIn(E))
               /\ list.items = Made(parsed, E)
               /\ Sifted(E) = [k \in DOMAIN Order(E) |-> E[Order(E)[k]]]
               /\ list.skipped = Total(Skips(E)) /\ list.skipped \in Nat
               /\ list.recorded = Total(Records(parsed, E)) /\ list.recorded \in Nat
               /\ list.skipped + list.recorded = Total(Counts(parsed, E))
<1> DEFINE list == ParseItemsCounted(parsed)
           sound == {i \in 1..n : Sound(E[i])}
           order == InOrder(sound, n)
           items == [i \in DOMAIN parsed |-> parsed[i].item]
           a == [i \in 1..n |-> IF Sound(E[i]) THEN 0 ELSE 1]
           b == [i \in 1..n |-> IF Sound(E[i]) THEN parsed[i].recorded ELSE 0]
           c == [i \in 1..n |-> IF Sound(E[i]) THEN parsed[i].recorded ELSE 1]
<1>1. Len(E) = n /\ DOMAIN E = 1..n
  BY ListOf
<1>dom. DOMAIN parsed = 1..n
  BY DEF Judged
<1>judged. \A i \in 1..n : /\ parsed[i].kept <=> Sound(E[i])
                           /\ parsed[i].recorded \in Nat
                           /\ ~Sound(E[i]) => parsed[i].recorded = 0
  BY DEF Judged
<1>2. {i \in DOMAIN parsed : parsed[i].kept} = sound
  BY <1>dom, <1>judged
<1>3. /\ [i \in DOMAIN parsed |-> IF i \in sound THEN 0 ELSE 1] = a
      /\ [i \in DOMAIN parsed |-> parsed[i].recorded] = b
  <2>1. [i \in DOMAIN parsed |-> IF i \in sound THEN 0 ELSE 1] = a
    BY <1>dom
  <2>2. [i \in DOMAIN parsed |-> parsed[i].recorded] = b
    BY <1>dom, <1>judged
  <2> QED BY <2>1, <2>2
<1>4. list.items = Picked(items, sound) /\ list.skipped = Total(a) /\ list.recorded = Total(b)
  <2>1. list = [items    |-> Picked(items, sound),
                skipped  |-> Total([i \in DOMAIN parsed |-> IF i \in sound THEN 0 ELSE 1]),
                recorded |-> Total([i \in DOMAIN parsed |-> parsed[i].recorded])]
    BY <1>2 DEF ParseItemsCounted
  <2> HIDE DEF list, items, sound, a, b
  <2> QED BY <1>3, <2>1
<1>5. order \in Seq(sound)
  <2>1. sound \in SUBSET (1..n)
    OBVIOUS
  <2> HIDE DEF sound
  <2> QED BY <2>1, InOrderOf
<1>6. list.items = [k \in DOMAIN order |-> parsed[order[k]].item]
  <2>1. Len(items) = n
    <3>1. items \in [1..n -> {parsed[i].item : i \in 1..n}]
      BY <1>dom
    <3> HIDE DEF items
    <3> QED BY <3>1, ListOf
  <2>2. Picked(items, sound) = [k \in DOMAIN order |-> items[order[k]]]
    BY <2>1 DEF Picked
  <2>3. \A k \in DOMAIN order : order[k] \in 1..n
    <3> HIDE DEF order
    <3> QED BY <1>5
  <2>4. \A k \in DOMAIN order : items[order[k]] = parsed[order[k]].item
    BY <1>dom, <2>3
  <2> HIDE DEF list, items, order, sound
  <2> QED BY <1>4, <2>2, <2>4
<1>7. Sifted(E) = [k \in DOMAIN order |-> E[order[k]]]
  BY <1>1 DEF Sifted, Picked
<1>8. a \in [1..n -> Int] /\ b \in [1..n -> Int] /\ c \in [1..n -> Int]
      /\ \A i \in 1..n : a[i] \in Nat /\ b[i] \in Nat /\ c[i] = a[i] + b[i]
  BY <1>judged
<1> HIDE DEF a, b, c, list
<1>9. Total(a) \in Nat /\ Total(b) \in Nat
  BY <1>8, TotalType
<1>10. Total(c) = Total(a) + Total(b)
  <2>1. \A i \in 1..n : c[i] = a[i] + b[i]
    BY <1>8
  <2>2. a \in [1..n -> Int] /\ b \in [1..n -> Int] /\ c \in [1..n -> Int]
    BY <1>8
  <2>3. \A u, v, w \in [1..n -> Int] :
           (\A i \in 1..n : w[i] = u[i] + v[i]) => Total(w) = Total(u) + Total(v)
    BY TotalAdds
  <2> QED BY <2>1, <2>2, <2>3
<1>11. SoundIn(E) = sound /\ Order(E) = order
  BY <1>1 DEF SoundIn, Order
<1>12. Skips(E) = a /\ Records(parsed, E) = b /\ Counts(parsed, E) = c
  BY <1>1 DEF Skips, Records, Counts, a, b, c
<1>13. Made(parsed, E) = [k \in DOMAIN order |-> parsed[order[k]].item]
  BY <1>11 DEF Made
<1> HIDE DEF order, sound
<1> QED BY <1>4, <1>5, <1>6, <1>7, <1>9, <1>10, <1>11, <1>12, <1>13 DEF list

\* What is lost of a list, entry by entry.
LeafLosses(l) ==
    [i \in DOMAIN Listed(l) |->
        IF Sound(Listed(l)[i]) THEN Total([j \in DOMAIN Carried(Listed(l)[i]) |-> 0]) ELSE 1]
NestedLosses(l, each) ==
    [i \in DOMAIN Listed(l) |->
        IF Sound(Listed(l)[i])
        THEN Total([j \in DOMAIN Carried(Listed(l)[i]) |-> LostLeaves(Carried(Listed(l)[i])[j])])
        ELSE each]
DeepLosses(l) ==
    [i \in DOMAIN Listed(l) |->
        IF Sound(Listed(l)[i])
        THEN Total([j \in DOMAIN Carried(Listed(l)[i]) |-> LostNested(Carried(Listed(l)[i])[j])])
        ELSE 1]

LEMMA LossesAre ==
    ASSUME NEW l
    PROVE  /\ LostLeaves(l) = Total(LeafLosses(l))
           /\ LostNested(l) = Total(NestedLosses(l, 1))
           /\ Losses(l, 0, LostLeaves) = Total(NestedLosses(l, 0))
           /\ Lost(l) = Total(DeepLosses(l))
<1>1. LostLeaves(l) = Total(LeafLosses(l))
  BY DEF LostLeaves, Losses, NothingLost, LeafLosses
<1>2. LostNested(l) = Total(NestedLosses(l, 1))
  BY DEF LostNested, Losses, NestedLosses
<1>3. Losses(l, 0, LostLeaves) = Total(NestedLosses(l, 0))
  BY DEF Losses, NestedLosses
<1>4. Lost(l) = Total(DeepLosses(l))
  BY DEF Lost, Losses, DeepLosses
<1> QED BY <1>1, <1>2, <1>3, <1>4

LEMMA SurvivorsAre ==
    ASSUME NEW l
    PROVE  LET S == SoundOf(l)
           IN  /\ SurvivingLeaves(l) = [i \in DOMAIN S |-> [j \in DOMAIN Carried(S[i]) |-> <<>>]]
               /\ SurvivingNested(l) = [i \in DOMAIN S |-> [j \in DOMAIN Carried(S[i]) |-> SurvivingLeaves(Carried(S[i])[j])]]
               /\ Surviving(l) = [i \in DOMAIN S |-> [j \in DOMAIN Carried(S[i]) |-> SurvivingNested(Carried(S[i])[j])]]
<1>1. SurvivingLeaves(l) = [i \in DOMAIN SoundOf(l) |-> [j \in DOMAIN Carried(SoundOf(l)[i]) |-> <<>>]]
  BY DEF SurvivingLeaves, Survivors, NoSurvivor
<1>2. SurvivingNested(l) = [i \in DOMAIN SoundOf(l) |->
          [j \in DOMAIN Carried(SoundOf(l)[i]) |-> SurvivingLeaves(Carried(SoundOf(l)[i])[j])]]
  BY DEF SurvivingNested, Survivors
<1>3. Surviving(l) = [i \in DOMAIN SoundOf(l) |->
          [j \in DOMAIN Carried(SoundOf(l)[i]) |-> SurvivingNested(Carried(SoundOf(l)[i])[j])]]
  BY DEF Surviving, Survivors
<1> QED BY <1>1, <1>2, <1>3

\* The lists of the responses, and what their entries carry.
LEMMA ListsAre ==
    ASSUME NEW m \in Nat, NEW X, NEW l \in ListsOf(X, m)
    PROVE  \E n \in Nat : Listed(l) \in [1..n -> X]
<1>1. CASE l \in {Absent, NotAList}
  <2>1. Listed(l) = <<>> /\ <<>> \in [1..0 -> X]
    BY <1>1 DEF Listed
  <2> QED BY <2>1
<1>2. CASE l \notin {Absent, NotAList}
  <2>1. l \in SeqOf(X, m) /\ Listed(l) = l
    BY <1>2 DEF ListsOf, Listed
  <2>2. PICK n \in 0..m : l \in [1..n -> X]
    BY <2>1 DEF SeqOf
  <2> QED BY <2>1, <2>2
<1> QED BY <1>1, <1>2

LEMMA NoModelOfResponse ==
    /\ DOMAIN Responses = {"contracts", "accounts", "prices", "solar", "tou", "usage", "meters", "bbp"}
    /\ DOMAIN Responses \cap DOMAIN Models = {}
<1>1. DOMAIN Responses = {"contracts", "accounts", "prices", "solar", "tou", "usage", "meters", "bbp"}
  BY DEF Responses
<1>2. DOMAIN Responses \cap DOMAIN Models = {}
  BY <1>1 DEF Models
<1> QED BY <1>1, <1>2

LEMMA CarriedAre ==
    ASSUME endpoint \in DOMAIN Responses, NEW e
    PROVE  /\ Carried(e) = e.nested
           /\ Sound(e) <=>
                /\ e.good
                /\ (endpoint = "meters" /\ e.nested # <<>> /\ e.nested[1] \notin {Absent, <<>>})
                     => e.nested[1] # NotAList /\ \E i \in DOMAIN e.nested[1] : e.nested[1][i].good
<1>1. endpoint \notin DOMAIN Models
  BY NoModelOfResponse
<1> HIDE DEF Models, Responses
<1>2. Carried(e) = e.nested
  BY <1>1 DEF Carried
<1>3. Sound(e) <=>
        /\ e.good
        /\ (endpoint = "meters" /\ e.nested # <<>> /\ e.nested[1] \notin {Absent, <<>>})
             => e.nested[1] # NotAList /\ \E i \in DOMAIN e.nested[1] : e.nested[1][i].good
  BY <1>1 DEF Sound
<1> QED BY <1>2, <1>3

\* A leaf is sound if it is good, and carries nothing to be lost.
LEMMA LeafIs ==
    ASSUME endpoint \in DOMAIN Responses, NEW e \in Leaves
    PROVE  /\ e.good \in BOOLEAN /\ (Sound(e) <=> e.good)
           /\ Carried(e) = <<>>
           /\ Total([j \in DOMAIN Carried(e) |-> 0]) = 0
           /\ Total([j \in DOMAIN Carried(e) |-> LostLeaves(Carried(e)[j])]) = 0
           /\ Total([j \in DOMAIN Carried(e) |-> LostNested(Carried(e)[j])]) = 0
           /\ [j \in DOMAIN Carried(e) |-> <<>>] = <<>>
           /\ [j \in DOMAIN Carried(e) |-> SurvivingLeaves(Carried(e)[j])] = <<>>
           /\ [j \in DOMAIN Carried(e) |-> SurvivingNested(Carried(e)[j])] = <<>>
<1>1. e.good \in BOOLEAN /\ e.nested = <<>>
  BY DEF Leaves
<1>2. Carried(e) = <<>> /\ (Sound(e) <=> e.good)
  BY <1>1, CarriedAre
<1>3. DOMAIN Carried(e) = {}
  BY <1>2
<1> HIDE DEF Leaves
<1>4. [j \in DOMAIN Carried(e) |-> 0] = <<>>
  BY <1>3
<1>6. [j \in DOMAIN Carried(e) |-> LostLeaves(Carried(e)[j])] = <<>>
  BY <1>3
<1>7. [j \in DOMAIN Carried(e) |-> LostNested(Carried(e)[j])] = <<>>
  BY <1>3
<1>8. [j \in DOMAIN Carried(e) |-> <<>>] = <<>>
  BY <1>3
<1>9. [j \in DOMAIN Carried(e) |-> SurvivingLeaves(Carried(e)[j])] = <<>>
  BY <1>3
<1>10. [j \in DOMAIN Carried(e) |-> SurvivingNested(Carried(e)[j])] = <<>>
  BY <1>3
<1>5. Total(<<>>) = 0
  BY TotalOfNothing
<1> QED BY <1>1, <1>2, <1>4, <1>5, <1>6, <1>7, <1>8, <1>9, <1>10

ParseLeaves(l) == ParseItemsCounted(Each(l, ParseLeaf))

\* Of a list of leaves the good are kept and the others lost.
LEMMA LeavesParsed ==
    ASSUME endpoint \in DOMAIN Responses, NEW m \in Nat, NEW l \in ListsOf(Leaves, m)
    PROVE  LET list == ParseLeaves(l)
           IN  /\ list.skipped = LostLeaves(l) /\ LostLeaves(l) \in Nat /\ list.recorded = 0
               /\ LostNested(l) = LostLeaves(l) /\ Lost(l) = LostLeaves(l)
               /\ list.items = SurvivingLeaves(l)
               /\ SurvivingNested(l) = SurvivingLeaves(l) /\ Surviving(l) = SurvivingLeaves(l)
               /\ list.items # <<>> <=> \E i \in DOMAIN Listed(l) : Listed(l)[i].good
<1> DEFINE E == Listed(l)
           parsed == [i \in DOMAIN E |-> ParseLeaf(E[i])]
           list == ParseItemsCounted(parsed)
<1>1. PICK n \in Nat : E \in [1..n -> Leaves]
  BY ListsAre
<1>2. ParseLeaves(l) = list
  BY DEF ParseLeaves, Each, Listed
<1> HIDE DEF E
<1>3. DOMAIN E = 1..n
  BY <1>1
<1>leaf. ASSUME NEW i \in 1..n
         PROVE  /\ E[i] \in Leaves
                /\ parsed[i].kept <=> Sound(E[i])
                /\ parsed[i].recorded = 0 /\ parsed[i].item = <<>>
  <2>1. E[i] \in Leaves /\ parsed[i] = ParseLeaf(E[i])
    BY <1>1, <1>3
  <2> HIDE DEF parsed
  <2>2. Sound(E[i]) <=> E[i].good
    BY <2>1, LeafIs
  <2> QED BY <2>1, <2>2 DEF ParseLeaf, Kept, Refused
<1>dom. DOMAIN parsed = 1..n
  BY <1>3
<1> HIDE DEF parsed, list
<1> DEFINE order == Order(E)
           lost == Skips(E)
<1>4. /\ order \in Seq(SoundIn(E))
      /\ list.items = Made(parsed, E)
      /\ Sifted(E) = [k \in DOMAIN order |-> E[order[k]]]
      /\ list.skipped = Total(lost) /\ list.skipped \in Nat
      /\ list.skipped + list.recorded = Total(Counts(parsed, E)) /\ list.recorded \in Nat
  <2>1. Judged(parsed, E, n)
    BY <1>leaf, <1>dom DEF Judged
  <2> QED BY <1>1, <2>1, ParsedAlike DEF list
<1>5. Counts(parsed, E) = lost
  BY <1>3, <1>leaf DEF Counts, Skips
<1>6. list.recorded = 0
  <2> HIDE DEF lost
  <2> QED BY <1>4, <1>5
<1>7. /\ LostLeaves(l) = Total(lost) /\ LostNested(l) = Total(lost) /\ Lost(l) = Total(lost)
  <2>1. LeafLosses(l) = lost
    BY <1>3, <1>leaf, LeafIs DEF LeafLosses, Skips, E
  <2>2. NestedLosses(l, 1) = lost
    BY <1>3, <1>leaf, LeafIs DEF NestedLosses, Skips, E
  <2>3. DeepLosses(l) = lost
    BY <1>3, <1>leaf, LeafIs DEF DeepLosses, Skips, E
  <2> HIDE DEF lost
  <2> QED BY <2>1, <2>2, <2>3, LossesAre
<1> DEFINE S == SoundOf(l)
           nothings == [k \in DOMAIN order |-> <<>>]
<1>8. S = [k \in DOMAIN order |-> E[order[k]]]
  BY <1>4 DEF SoundOf, E
<1> HIDE DEF order, S
<1>9. \A k \in DOMAIN order : order[k] \in 1..n /\ Sound(E[order[k]])
  <2> SUFFICES ASSUME NEW k \in DOMAIN order PROVE order[k] \in 1..n /\ Sound(E[order[k]])
    OBVIOUS
  <2>1. order[k] \in SoundIn(E)
    BY <1>4
  <2> QED BY <1>3, <2>1 DEF SoundIn
<1>10. list.items = nothings
  BY <1>4, <1>9, <1>leaf DEF Made, order
<1>11. SurvivingLeaves(l) = nothings /\ SurvivingNested(l) = nothings /\ Surviving(l) = nothings
  <2>1. \A k \in DOMAIN S : S[k] \in Leaves
    BY <1>8, <1>9, <1>leaf
  <2>2. DOMAIN S = DOMAIN order
    BY <1>8
  <2>3. [i \in DOMAIN S |-> [j \in DOMAIN Carried(S[i]) |-> <<>>]] = nothings
    BY <2>1, <2>2, LeafIs
  <2>4. [i \in DOMAIN S |-> [j \in DOMAIN Carried(S[i]) |-> SurvivingLeaves(Carried(S[i])[j])]] = nothings
    BY <2>1, <2>2, LeafIs
  <2>5. [i \in DOMAIN S |-> [j \in DOMAIN Carried(S[i]) |-> SurvivingNested(Carried(S[i])[j])]] = nothings
    BY <2>1, <2>2, LeafIs
  <2> HIDE DEF nothings
  <2> QED BY <2>3, <2>4, <2>5, SurvivorsAre DEF S
<1>12. list.items # <<>> <=> \E i \in DOMAIN E : E[i].good
  <2>1. list.items # <<>> <=> DOMAIN order # {}
    <3>1. DOMAIN nothings = DOMAIN order
      OBVIOUS
    <3>2. DOMAIN nothings = {} => nothings = <<>>
      OBVIOUS
    <3>3. nothings = <<>> => DOMAIN nothings = {}
      OBVIOUS
    <3> HIDE DEF nothings
    <3> QED BY <1>10, <3>1, <3>2, <3>3
  <2>2. DOMAIN order # {} <=> SoundIn(E) # {}
    <3>1. SoundIn(E) \in SUBSET (1..n) /\ Len(E) = n
      BY <1>1, <1>3, ListOf DEF SoundIn
    <3> QED BY <3>1, PlacesLeft DEF order, Order
  <2>3. SoundIn(E) # {} <=> \E i \in DOMAIN E : E[i].good
    BY <1>3, <1>leaf, LeafIs DEF SoundIn
  <2> QED BY <2>1, <2>2, <2>3
<1> QED BY <1>2, <1>4, <1>6, <1>7, <1>10, <1>11, <1>12 DEF E

\* What is made of the entries that carry lists is what is kept and lost of these.
NestedMade(parsed, E, n) ==
    \A i \in 1..n : Sound(E[i]) =>
        /\ parsed[i].recorded = Total([j \in DOMAIN Carried(E[i]) |-> LostLeaves(Carried(E[i])[j])])
        /\ parsed[i].item = [j \in DOMAIN Carried(E[i]) |-> SurvivingLeaves(Carried(E[i])[j])]
DeepMade(parsed, E, n) ==
    \A i \in 1..n : Sound(E[i]) =>
        /\ parsed[i].recorded = Total([j \in DOMAIN Carried(E[i]) |-> LostNested(Carried(E[i])[j])])
        /\ parsed[i].item = [j \in DOMAIN Carried(E[i]) |-> SurvivingNested(Carried(E[i])[j])]

LEMMA NestedAlike ==
    ASSUME NEW l, NEW n \in Nat, NEW X, Listed(l) \in [1..n -> X],
           NEW parsed, Judged(parsed, Listed(l), n), NestedMade(parsed, Listed(l), n)
    PROVE  LET list == ParseItemsCounted(parsed)
           IN  /\ list.skipped + list.recorded = LostNested(l) /\ LostNested(l) \in Nat
               /\ list.recorded = Losses(l, 0, LostLeaves) /\ list.recorded \in Nat
               /\ list.skipped \in Nat
               /\ list.items = SurvivingNested(l)
<1> DEFINE E == Listed(l)
           list == ParseItemsCounted(parsed)
<1>1. DOMAIN E = 1..n
  OBVIOUS
<1>made. \A i \in 1..n : Sound(E[i]) =>
           parsed[i].item = [j \in DOMAIN Carried(E[i]) |-> SurvivingLeaves(Carried(E[i])[j])]
  BY DEF NestedMade
<1>2. /\ Order(E) \in Seq(SoundIn(E)) /\ list.items = Made(parsed, E)
      /\ Sifted(E) = [k \in DOMAIN Order(E) |-> E[Order(E)[k]]]
      /\ list.skipped \in Nat /\ list.recorded \in Nat
      /\ list.recorded = Total(Records(parsed, E))
      /\ list.skipped + list.recorded = Total(Counts(parsed, E))
  <2> HIDE DEF E
  <2>1. E \in [1..n -> X] /\ Judged(parsed, E, n)
    BY DEF E
  <2> QED BY <2>1, ParsedAlike DEF list
<1>3. Records(parsed, E) = NestedLosses(l, 0) /\ Counts(parsed, E) = NestedLosses(l, 1)
  BY <1>1 DEF Records, Counts, NestedLosses, NestedMade
<1>4. list.recorded = Losses(l, 0, LostLeaves) /\ list.skipped + list.recorded = LostNested(l)
  BY <1>2, <1>3, LossesAre
<1> DEFINE S == SoundOf(l)
           order == Order(E)
<1>5. S = [k \in DOMAIN order |-> E[order[k]]]
  BY <1>2 DEF SoundOf
<1>6. \A k \in DOMAIN order : order[k] \in 1..n /\ Sound(E[order[k]])
  <2> SUFFICES ASSUME NEW k \in DOMAIN order PROVE order[k] \in 1..n /\ Sound(E[order[k]])
    OBVIOUS
  <2> HIDE DEF order
  <2>1. order[k] \in SoundIn(E)
    BY <1>2 DEF order
  <2> QED BY <1>1, <2>1 DEF SoundIn
<1>7. list.items = [k \in DOMAIN order |-> parsed[order[k]].item]
  BY <1>2 DEF Made
<1> HIDE DEF order, S, list
<1>8. \A k \in DOMAIN order : parsed[order[k]].item = [j \in DOMAIN Carried(S[k]) |-> SurvivingLeaves(Carried(S[k])[j])]
  BY <1>5, <1>6, <1>made
<1>9. DOMAIN S = DOMAIN order
  BY <1>5
<1>10. list.items = [k \in DOMAIN S |-> [j \in DOMAIN Carried(S[k]) |-> SurvivingLeaves(Carried(S[k])[j])]]
  BY <1>7, <1>8, <1>9
<1>11. list.items = SurvivingNested(l)
  BY <1>10, SurvivorsAre DEF S
<1> QED BY <1>2, <1>4, <1>11 DEF list

LEMMA DeepAlike ==
    ASSUME NEW l, NEW n \in Nat, NEW X, Listed(l) \in [1..n -> X],
           NEW parsed, Judged(parsed, Listed(l), n), DeepMade(parsed, Listed(l), n)
    PROVE  LET list == ParseItemsCounted(parsed)
           IN  /\ list.skipped + list.recorded = Lost(l) /\ Lost(l) \in Nat
               /\ list.items = Surviving(l)
<1> DEFINE E == Listed(l)
           list == ParseItemsCounted(parsed)
<1>1. DOMAIN E = 1..n
  OBVIOUS
<1>made. \A i \in 1..n : Sound(E[i]) =>
           parsed[i].item = [j \in DOMAIN Carried(E[i]) |-> SurvivingNested(Carried(E[i])[j])]
  BY DEF DeepMade
<1>2. /\ Order(E) \in Seq(SoundIn(E)) /\ list.items = Made(parsed, E)
      /\ Sifted(E) = [k \in DOMAIN Order(E) |-> E[Order(E)[k]]]
      /\ list.skipped \in Nat /\ list.recorded \in Nat
      /\ list.skipped + list.recorded = Total(Counts(parsed, E))
  <2> HIDE DEF E
  <2>1. E \in [1..n -> X] /\ Judged(parsed, E, n)
    BY DEF E
  <2> QED BY <2>1, ParsedAlike DEF list
<1>3. Counts(parsed, E) = DeepLosses(l)
  BY <1>1 DEF Counts, DeepLosses, DeepMade
<1>4. list.skipped + list.recorded = Lost(l)
  BY <1>2, <1>3, LossesAre
<1> DEFINE S == SoundOf(l)
           order == Order(E)
<1>5. S = [k \in DOMAIN order |-> E[order[k]]]
  BY <1>2 DEF SoundOf
<1>6. \A k \in DOMAIN order : order[k] \in 1..n /\ Sound(E[order[k]])
  <2> SUFFICES ASSUME NEW k \in DOMAIN order PROVE order[k] \in 1..n /\ Sound(E[order[k]])
    OBVIOUS
  <2> HIDE DEF order
  <2>1. order[k] \in SoundIn(E)
    BY <1>2 DEF order
  <2> QED BY <1>1, <2>1 DEF SoundIn
<1>7. list.items = [k \in DOMAIN order |-> parsed[order[k]].item]
  BY <1>2 DEF Made
<1> HIDE DEF order, S, list
<1>8. \A k \in DOMAIN order : parsed[order[k]].item = [j \in DOMAIN Carried(S[k]) |-> SurvivingNested(Carried(S[k])[j])]
  BY <1>5, <1>6, <1>made
<1>9. DOMAIN S = DOMAIN order
  BY <1>5
<1>10. list.items = [k \in DOMAIN S |-> [j \in DOMAIN Carried(S[k]) |-> SurvivingNested(Carried(S[k])[j])]]
  BY <1>7, <1>8, <1>9
<1>11. list.items = Surviving(l)
  BY <1>10, SurvivorsAre DEF S
<1> QED BY <1>2, <1>4, <1>11 DEF list

\* What is sound of a list is of the list.
LEMMA SoundAre ==
    ASSUME NEW l, NEW n \in Nat, NEW X, Listed(l) \in [1..n -> X]
    PROVE  \A k \in DOMAIN SoundOf(l) : SoundOf(l)[k] \in X
<1> DEFINE E == Listed(l)
           P == {i \in DOMAIN E : Sound(E[i])}
<1>1. E \in Seq(X) /\ Len(E) = n /\ DOMAIN E = 1..n
  BY ListOf
<1>2. P \in SUBSET (1..Len(E)) /\ \A i \in P : E[i] \in X
  BY <1>1
<1>3. Picked(E, P) \in Seq(X)
  <2> HIDE DEF E, P
  <2> QED BY <1>1, <1>2, PickedAre
<1>4. SoundOf(l) = Picked(E, P)
  BY DEF SoundOf, Sifted
<1> HIDE DEF E, P
<1> QED BY <1>3, <1>4

\* An entry with lists of leaves.
LEMMA NestedIs ==
    ASSUME endpoint \in DOMAIN Responses, NEW k \in Nat, NEW w \in Nat,
           NEW e \in EntriesWith(k, ListsOf(Leaves, w))
    PROVE  /\ e.good \in BOOLEAN /\ Carried(e) = e.nested /\ DOMAIN Carried(e) = 1..k
           /\ \A j \in 1..k : Carried(e)[j] \in ListsOf(Leaves, w)
           /\ [j \in 1..k |-> LostLeaves(Carried(e)[j])] \in [1..k -> Nat]
           /\ Total([j \in 1..k |-> LostLeaves(Carried(e)[j])]) \in Nat
<1> DEFINE LL == ListsOf(Leaves, w)
<1> HIDE DEF LL
<1>1. e.good \in BOOLEAN /\ e.nested \in [1..k -> LL]
  BY DEF EntriesWith, LL
<1>2. Carried(e) = e.nested
  BY CarriedAre
<1>3. DOMAIN Carried(e) = 1..k /\ \A j \in 1..k : Carried(e)[j] \in LL
  BY <1>1, <1>2
<1>4. \A j \in 1..k : LostLeaves(Carried(e)[j]) \in Nat
  BY <1>3, LeavesParsed DEF LL
<1> DEFINE lost == [j \in 1..k |-> LostLeaves(Carried(e)[j])]
<1>5. lost \in [1..k -> Nat]
  BY <1>4
<1>6. lost \in [1..k -> Int] /\ \A j \in 1..k : lost[j] \in Nat
  BY <1>4
<1>7. Total(lost) \in Nat
  <2> HIDE DEF lost
  <2> QED BY <1>6, TotalType
<1> QED BY <1>1, <1>2, <1>3, <1>5, <1>7 DEF LL

\* Such an entry is given up as a whole, or its lists are parsed each.
LEMMA NestedEntry ==
    ASSUME endpoint \in DOMAIN Responses, NEW k \in Nat, NEW w \in Nat,
           NEW e \in EntriesWith(k, ListsOf(Leaves, w))
    PROVE  ParseAccountRelation(e)
             = IF e.good THEN Kept([j \in 1..k |-> SurvivingLeaves(Carried(e)[j])],
                                   Total([j \in 1..k |-> LostLeaves(Carried(e)[j])]))
               ELSE Refused
<1> DEFINE nested == EachOf(e.nested, ParseLeaf)
           lists == [j \in DOMAIN nested |-> ParseItems(nested[j])]
<1>1. /\ e.good \in BOOLEAN /\ Carried(e) = e.nested /\ DOMAIN Carried(e) = 1..k
      /\ \A j \in 1..k : Carried(e)[j] \in ListsOf(Leaves, w)
  BY NestedIs
<1>2. ParseAccountRelation(e)
        = IF e.good THEN Kept([j \in DOMAIN lists |-> lists[j].items],
                              Total([j \in DOMAIN lists |-> lists[j].recorded]))
          ELSE Refused
  BY DEF ParseAccountRelation, ParseWithNested
<1>3. nested = [j \in 1..k |-> Each(Carried(e)[j], ParseLeaf)]
  BY <1>1 DEF EachOf
<1>4. ASSUME NEW j \in 1..k
      PROVE  lists[j].items = SurvivingLeaves(Carried(e)[j]) /\ lists[j].recorded = LostLeaves(Carried(e)[j])
  <2> DEFINE list == ParseLeaves(Carried(e)[j])
  <2>1. list.skipped = LostLeaves(Carried(e)[j]) /\ list.recorded = 0
        /\ LostLeaves(Carried(e)[j]) \in Nat /\ list.items = SurvivingLeaves(Carried(e)[j])
    BY <1>1, LeavesParsed
  <2>2. ParseItemsCounted(nested[j]) = list
    BY <1>3 DEF ParseLeaves
  <2>3. lists[j] = ParseItems(nested[j])
    BY <1>3
  <2>4. lists[j] = [items |-> list.items, recorded |-> list.skipped + list.recorded]
    BY <2>2, <2>3 DEF ParseItems
  <2> HIDE DEF lists, list, nested
  <2> QED BY <2>1, <2>4
<1>5. DOMAIN lists = 1..k
  BY <1>3
<1> HIDE DEF lists, nested
<1>6. [j \in DOMAIN lists |-> lists[j].items] = [j \in 1..k |-> SurvivingLeaves(Carried(e)[j])]
  BY <1>4, <1>5
<1>7. [j \in DOMAIN lists |-> lists[j].recorded] = [j \in 1..k |-> LostLeaves(Carried(e)[j])]
  BY <1>4, <1>5
<1> QED BY <1>2, <1>6, <1>7

ParseNested(l) == ParseItemsCounted(Each(l, ParseAccountRelation))

\* Of a list of entries with lists of leaves, the good entries are kept with their
\* good leaves, and the others and what the good have lost are counted.
LEMMA NestedParsed ==
    ASSUME endpoint \in DOMAIN Responses, endpoint # "meters",
           NEW k \in Nat, NEW w \in Nat, NEW m \in Nat,
           NEW l \in ListsOf(EntriesWith(k, ListsOf(Leaves, w)), m)
    PROVE  LET list == ParseNested(l)
           IN  /\ list.skipped + list.recorded = LostNested(l) /\ LostNested(l) \in Nat
               /\ list.recorded = Losses(l, 0, LostLeaves) /\ list.recorded \in Nat
               /\ list.skipped \in Nat
               /\ list.items = SurvivingNested(l)
<1> DEFINE X == EntriesWith(k, ListsOf(Leaves, w))
           E == Listed(l)
           parsed == [i \in DOMAIN E |-> ParseAccountRelation(E[i])]
<1> HIDE DEF X
<1>1. PICK n \in Nat : Listed(l) \in [1..n -> X]
  BY ListsAre DEF X
<1>2. ParseNested(l) = ParseItemsCounted(parsed)
  BY DEF ParseNested, Each, Listed
<1>3. DOMAIN E = 1..n
  BY <1>1
<1> HIDE DEF E
<1>4. ASSUME NEW i \in 1..n
      PROVE  /\ parsed[i].kept <=> Sound(E[i])
             /\ parsed[i].recorded \in Nat
             /\ ~Sound(E[i]) => parsed[i].recorded = 0
             /\ Sound(E[i]) =>
                   /\ parsed[i].recorded = Total([j \in DOMAIN Carried(E[i]) |-> LostLeaves(Carried(E[i])[j])])
                   /\ parsed[i].item = [j \in DOMAIN Carried(E[i]) |-> SurvivingLeaves(Carried(E[i])[j])]
  <2> DEFINE e == E[i]
             lost == [j \in 1..k |-> LostLeaves(Carried(e)[j])]
             kept == [j \in 1..k |-> SurvivingLeaves(Carried(e)[j])]
  <2>1. e \in X
    BY <1>1 DEF E
  <2>2. e.good \in BOOLEAN /\ DOMAIN Carried(e) = 1..k /\ Total(lost) \in Nat
    <3> HIDE DEF e
    <3> QED BY <2>1, NestedIs DEF X
  <2>3. parsed[i] = IF e.good THEN Kept(kept, Total(lost)) ELSE Refused
    <3>1. parsed[i] = ParseAccountRelation(e)
      BY <1>3
    <3> HIDE DEF e, parsed
    <3> QED BY <2>1, <3>1, NestedEntry DEF X
  <2>4. Sound(e) <=> e.good
    <3> HIDE DEF e
    <3> QED BY CarriedAre
  <2>5. /\ lost = [j \in DOMAIN Carried(E[i]) |-> LostLeaves(Carried(E[i])[j])]
        /\ kept = [j \in DOMAIN Carried(E[i]) |-> SurvivingLeaves(Carried(E[i])[j])]
    BY <2>2
  <2> HIDE DEF e, lost, kept, parsed
  <2>6. /\ parsed[i].kept <=> Sound(e)
        /\ parsed[i].recorded \in Nat
        /\ ~Sound(e) => parsed[i].recorded = 0
        /\ Sound(e) => parsed[i].recorded = Total(lost) /\ parsed[i].item = kept
    BY <2>2, <2>3, <2>4 DEF Kept, Refused
  <2> QED BY <2>5, <2>6 DEF e
<1>5. Judged(parsed, E, n)
  <2>1. DOMAIN parsed = 1..n
    BY <1>3
  <2> HIDE DEF parsed
  <2> QED BY <1>4, <2>1 DEF Judged
<1> HIDE DEF parsed
<1>6. NestedMade(parsed, E, n)
  BY <1>4 DEF NestedMade
<1> QED BY <1>1, <1>2, <1>5, <1>6, NestedAlike DEF E

\* Lists of leaves are not three deep.
LEMMA NestedNoDeeper ==
    ASSUME endpoint \in DOMAIN Responses, NEW k \in Nat, NEW w \in Nat, NEW m \in Nat,
           NEW l \in ListsOf(EntriesWith(k, ListsOf(Leaves, w)), m)
    PROVE  Lost(l) = LostNested(l) /\ Surviving(l) = SurvivingNested(l)
<1> DEFINE X == EntriesWith(k, ListsOf(Leaves, w))
           E == Listed(l)
           S == SoundOf(l)
<1> HIDE DEF X
<1>1. PICK n \in Nat : Listed(l) \in [1..n -> X]
  BY ListsAre DEF X
<1>2. DOMAIN E = 1..n /\ (\A i \in 1..n : E[i] \in X) /\ \A i \in DOMAIN S : S[i] \in X
  BY <1>1, SoundAre
<1> HIDE DEF E, S
<1>3. ASSUME NEW e \in X
      PROVE  /\ [j \in DOMAIN Carried(e) |-> LostNested(Carried(e)[j])]
                  = [j \in DOMAIN Carried(e) |-> LostLeaves(Carried(e)[j])]
             /\ [j \in DOMAIN Carried(e) |-> SurvivingNested(Carried(e)[j])]
                  = [j \in DOMAIN Carried(e) |-> SurvivingLeaves(Carried(e)[j])]
  <2>1. DOMAIN Carried(e) = 1..k /\ \A j \in 1..k : Carried(e)[j] \in ListsOf(Leaves, w)
    BY NestedIs DEF X
  <2>2. \A j \in DOMAIN Carried(e) : /\ LostNested(Carried(e)[j]) = LostLeaves(Carried(e)[j])
                                     /\ SurvivingNested(Carried(e)[j]) = SurvivingLeaves(Carried(e)[j])
    BY <2>1, LeavesParsed
  <2> QED BY <2>2
<1>4. DeepLosses(l) = NestedLosses(l, 1)
  BY <1>2, <1>3 DEF DeepLosses, NestedLosses, E
<1>5. Surviving(l) = [i \in DOMAIN S |-> [j \in DOMAIN Carried(S[i]) |-> SurvivingNested(Carried(S[i])[j])]]
  BY SurvivorsAre DEF S
<1>6. SurvivingNested(l) = [i \in DOMAIN S |-> [j \in DOMAIN Carried(S[i]) |-> SurvivingLeaves(Carried(S[i])[j])]]
  BY SurvivorsAre DEF S
<1>7. Surviving(l) = SurvivingNested(l)
  BY <1>2, <1>3, <1>5, <1>6
<1> QED BY <1>4, <1>7, LossesAre

\* Many entries are parsed alike.
LEMMA SameParsers ==
    \A e : /\ ParsePricePeriod(e) = ParseAccountRelation(e)
           /\ ParseTouGridMeter(e) = ParseAccountRelation(e)
           /\ ParseSolarSurplusDay(e) = ParseAccountRelation(e)
           /\ ParseUsageItem(e) = ParseAccountRelation(e)
           /\ ParseTouScheduleItem(e) = ParseEanPrices(e)
<1> SUFFICES ASSUME NEW e
             PROVE  /\ ParsePricePeriod(e) = ParseAccountRelation(e)
                    /\ ParseTouGridMeter(e) = ParseAccountRelation(e)
                    /\ ParseSolarSurplusDay(e) = ParseAccountRelation(e)
                    /\ ParseUsageItem(e) = ParseAccountRelation(e)
                    /\ ParseTouScheduleItem(e) = ParseEanPrices(e)
  OBVIOUS
<1>1. ParsePricePeriod(e) = ParseAccountRelation(e)
  BY DEF ParsePricePeriod, ParseAccountRelation
<1>2. ParseTouGridMeter(e) = ParseAccountRelation(e)
  BY DEF ParseTouGridMeter, ParseAccountRelation
<1>3. ParseSolarSurplusDay(e) = ParseAccountRelation(e)
  BY DEF ParseSolarSurplusDay, ParseAccountRelation
<1>4. ParseUsageItem(e) = ParseAccountRelation(e)
  BY DEF ParseUsageItem, ParseAccountRelation
<1>5. ParseTouScheduleItem(e) = ParseEanPrices(e)
  BY DEF ParseTouScheduleItem, ParseEanPrices, EachOf, Each, ParseTouGridMeter, ParsePricePeriod
<1> QED BY <1>1, <1>2, <1>3, <1>4, <1>5

NestedLists(k, w, v) == ListsOf(EntriesWith(k, ListsOf(Leaves, w)), v)
DeepEntries(h, k, w, v) == EntriesWith(h, NestedLists(k, w, v))

\* An entry with lists of entries that carry leaves.
LEMMA DeepIs ==
    ASSUME endpoint \in DOMAIN Responses, endpoint # "meters",
           NEW h \in Nat, NEW k \in Nat, NEW w \in Nat, NEW v \in Nat,
           NEW e \in DeepEntries(h, k, w, v)
    PROVE  /\ e.good \in BOOLEAN /\ Carried(e) = e.nested /\ DOMAIN Carried(e) = 1..h
           /\ \A j \in 1..h : Carried(e)[j] \in NestedLists(k, w, v)
           /\ Total([j \in 1..h |-> LostNested(Carried(e)[j])]) \in Nat
<1> DEFINE NL == NestedLists(k, w, v)
           lost == [j \in 1..h |-> LostNested(Carried(e)[j])]
<1> HIDE DEF NL
<1>1. e.good \in BOOLEAN /\ e.nested \in [1..h -> NL]
  BY DEF DeepEntries, EntriesWith, NL
<1>2. Carried(e) = e.nested
  BY CarriedAre
<1>3. DOMAIN Carried(e) = 1..h /\ \A j \in 1..h : Carried(e)[j] \in NL
  BY <1>1, <1>2
<1>4. \A j \in 1..h : LostNested(Carried(e)[j]) \in Nat
  BY <1>3, NestedParsed DEF NL, NestedLists
<1>5. lost \in [1..h -> Int] /\ \A j \in 1..h : lost[j] \in Nat
  BY <1>4
<1>6. Total(lost) \in Nat
  <2> HIDE DEF lost
  <2> QED BY <1>5, TotalType
<1> QED BY <1>1, <1>2, <1>3, <1>6 DEF NL

LEMMA DeepEntry ==
    ASSUME endpoint \in DOMAIN Responses, endpoint # "meters",
           NEW h \in Nat, NEW k \in Nat, NEW w \in Nat, NEW v \in Nat,
           NEW e \in DeepEntries(h, k, w, v)
    PROVE  ParseEanPrices(e)
             = IF e.good THEN Kept([j \in 1..h |-> SurvivingNested(Carried(e)[j])],
                                   Total([j \in 1..h |-> LostNested(Carried(e)[j])]))
               ELSE Refused
<1> DEFINE nested == EachOf(e.nested, ParsePricePeriod)
           lists == [j \in DOMAIN nested |-> ParseItems(nested[j])]
<1>1. /\ e.good \in BOOLEAN /\ Carried(e) = e.nested /\ DOMAIN Carried(e) = 1..h
      /\ \A j \in 1..h : Carried(e)[j] \in NestedLists(k, w, v)
  <2> HIDE DEF nested, lists
  <2>1. /\ e.good \in BOOLEAN /\ Carried(e) = e.nested /\ DOMAIN Carried(e) = 1..h
        /\ \A j \in 1..h : Carried(e)[j] \in NestedLists(k, w, v)
        /\ Total([j \in 1..h |-> LostNested(Carried(e)[j])]) \in Nat
    BY DeepIs
  <2> QED BY <2>1
<1>2. ParseEanPrices(e)
        = IF e.good THEN Kept([j \in DOMAIN lists |-> lists[j].items],
                              Total([j \in DOMAIN lists |-> lists[j].recorded]))
          ELSE Refused
  BY DEF ParseEanPrices, ParseWithNested
<1>3. nested = [j \in 1..h |-> Each(Carried(e)[j], ParsePricePeriod)]
  BY <1>1 DEF EachOf
<1>4. ASSUME NEW j \in 1..h
      PROVE  lists[j].items = SurvivingNested(Carried(e)[j]) /\ lists[j].recorded = LostNested(Carried(e)[j])
  <2> DEFINE list == ParseNested(Carried(e)[j])
  <2>1. list.skipped + list.recorded = LostNested(Carried(e)[j]) /\ list.items = SurvivingNested(Carried(e)[j])
    <3> DEFINE c == Carried(e)[j]
    <3>1. c \in ListsOf(EntriesWith(k, ListsOf(Leaves, w)), v)
      BY <1>1 DEF NestedLists
    <3> HIDE DEF c, lists, nested
    <3>2. /\ ParseNested(c).skipped + ParseNested(c).recorded = LostNested(c)
          /\ ParseNested(c).items = SurvivingNested(c)
      BY <3>1, NestedParsed
    <3> QED BY <3>2 DEF c
  <2>2. ParseItemsCounted(nested[j]) = list
    <3>1. nested[j] = Each(Carried(e)[j], ParsePricePeriod)
      BY <1>3
    <3>2. nested[j] = Each(Carried(e)[j], ParseAccountRelation)
      BY <3>1 DEF Each, ParsePricePeriod, ParseAccountRelation
    <3> QED BY <3>2 DEF ParseNested
  <2>3. lists[j] = ParseItems(nested[j])
    BY <1>3
  <2>4. lists[j] = [items |-> list.items, recorded |-> list.skipped + list.recorded]
    BY <2>2, <2>3 DEF ParseItems
  <2> HIDE DEF lists, list, nested
  <2> QED BY <2>1, <2>4
<1>5. DOMAIN lists = 1..h
  BY <1>3
<1> HIDE DEF lists, nested
<1>6. [j \in DOMAIN lists |-> lists[j].items] = [j \in 1..h |-> SurvivingNested(Carried(e)[j])]
  BY <1>4, <1>5
<1>7. [j \in DOMAIN lists |-> lists[j].recorded] = [j \in 1..h |-> LostNested(Carried(e)[j])]
  BY <1>4, <1>5
<1> QED BY <1>2, <1>6, <1>7

ParseDeep(l) == ParseItemsCounted(Each(l, ParseEanPrices))

\* The same of lists that nest three deep.
LEMMA DeepParsed ==
    ASSUME endpoint \in DOMAIN Responses, endpoint # "meters",
           NEW h \in Nat, NEW k \in Nat, NEW w \in Nat, NEW v \in Nat, NEW m \in Nat,
           NEW l \in ListsOf(DeepEntries(h, k, w, v), m)
    PROVE  LET list == ParseDeep(l)
           IN  /\ list.skipped + list.recorded = Lost(l) /\ Lost(l) \in Nat
               /\ list.items = Surviving(l)
<1> DEFINE X == DeepEntries(h, k, w, v)
           E == Listed(l)
           parsed == [i \in DOMAIN E |-> ParseEanPrices(E[i])]
<1> HIDE DEF X
<1>1. PICK n \in Nat : Listed(l) \in [1..n -> X]
  BY ListsAre DEF X
<1>2. ParseDeep(l) = ParseItemsCounted(parsed)
  BY DEF ParseDeep, Each, Listed
<1>3. DOMAIN E = 1..n
  BY <1>1
<1> HIDE DEF E
<1>4. ASSUME NEW i \in 1..n
      PROVE  /\ parsed[i].kept <=> Sound(E[i])
             /\ parsed[i].recorded \in Nat
             /\ ~Sound(E[i]) => parsed[i].recorded = 0
             /\ Sound(E[i]) =>
                   /\ parsed[i].recorded = Total([j \in DOMAIN Carried(E[i]) |-> LostNested(Carried(E[i])[j])])
                   /\ parsed[i].item = [j \in DOMAIN Carried(E[i]) |-> SurvivingNested(Carried(E[i])[j])]
  <2> DEFINE e == E[i]
             lost == [j \in 1..h |-> LostNested(Carried(e)[j])]
             kept == [j \in 1..h |-> SurvivingNested(Carried(e)[j])]
  <2>1. e \in X
    BY <1>1 DEF E
  <2>2. e.good \in BOOLEAN /\ DOMAIN Carried(e) = 1..h /\ Total(lost) \in Nat
    <3> HIDE DEF e
    <3> QED BY <2>1, DeepIs DEF X
  <2>3. parsed[i] = IF e.good THEN Kept(kept, Total(lost)) ELSE Refused
    <3>1. parsed[i] = ParseEanPrices(e)
      BY <1>3
    <3> HIDE DEF e, parsed
    <3> QED BY <2>1, <3>1, DeepEntry DEF X
  <2>4. Sound(e) <=> e.good
    <3> HIDE DEF e
    <3> QED BY CarriedAre
  <2>5. /\ lost = [j \in DOMAIN Carried(E[i]) |-> LostNested(Carried(E[i])[j])]
        /\ kept = [j \in DOMAIN Carried(E[i]) |-> SurvivingNested(Carried(E[i])[j])]
    BY <2>2
  <2> HIDE DEF e, lost, kept, parsed
  <2>6. /\ parsed[i].kept <=> Sound(e)
        /\ parsed[i].recorded \in Nat
        /\ ~Sound(e) => parsed[i].recorded = 0
        /\ Sound(e) => parsed[i].recorded = Total(lost) /\ parsed[i].item = kept
    BY <2>2, <2>3, <2>4 DEF Kept, Refused
  <2> QED BY <2>5, <2>6 DEF e
<1>5. Judged(parsed, E, n)
  <2>1. DOMAIN parsed = 1..n
    BY <1>3
  <2> HIDE DEF parsed
  <2> QED BY <1>4, <2>1 DEF Judged
<1> HIDE DEF parsed
<1>6. DeepMade(parsed, E, n)
  BY <1>4 DEF DeepMade
<1> QED BY <1>1, <1>2, <1>5, <1>6, DeepAlike DEF E

ParseReads(l) == ParseItemsCounted(Each(l, ParseMeterRead))

\* A meter read is dropped with its registers if it lists some and none is good.
LEMMA ReadIs ==
    ASSUME endpoint = "meters", NEW w \in Nat, NEW e \in EntriesWith(1, ListsOf(Leaves, w))
    PROVE  LET lost == [j \in DOMAIN Carried(e) |-> LostLeaves(Carried(e)[j])]
               kept == [j \in DOMAIN Carried(e) |-> SurvivingLeaves(Carried(e)[j])]
           IN  /\ Total(lost) \in Nat
               /\ ParseMeterRead(e) = IF Sound(e) THEN Kept(kept, Total(lost)) ELSE Refused
<1> DEFINE lost == [j \in DOMAIN Carried(e) |-> LostLeaves(Carried(e)[j])]
           kept == [j \in DOMAIN Carried(e) |-> SurvivingLeaves(Carried(e)[j])]
           list == ParseLeaves(e.nested[1])
<1>0. endpoint \in DOMAIN Responses
  BY NoModelOfResponse
<1>1. /\ e.good \in BOOLEAN /\ Carried(e) = e.nested /\ DOMAIN Carried(e) = 1..1
      /\ Carried(e)[1] \in ListsOf(Leaves, w)
  <2> HIDE DEF lost, kept, list
  <2>1. /\ e.good \in BOOLEAN /\ Carried(e) = e.nested /\ DOMAIN Carried(e) = 1..1
        /\ \A j \in 1..1 : Carried(e)[j] \in ListsOf(Leaves, w)
        /\ [j \in 1..1 |-> LostLeaves(Carried(e)[j])] \in [1..1 -> Nat]
        /\ Total([j \in 1..1 |-> LostLeaves(Carried(e)[j])]) \in Nat
    BY <1>0, NestedIs
  <2> QED BY <2>1
<1>2. /\ list.skipped = LostLeaves(e.nested[1]) /\ LostLeaves(e.nested[1]) \in Nat
      /\ list.items = SurvivingLeaves(e.nested[1])
      /\ list.items # <<>> <=> \E i \in DOMAIN Listed(e.nested[1]) : Listed(e.nested[1])[i].good
  BY <1>0, <1>1, LeavesParsed
<1> HIDE DEF list
<1>3. Total(lost) = LostLeaves(e.nested[1]) /\ kept = <<SurvivingLeaves(e.nested[1])>>
  <2>1. lost = <<LostLeaves(e.nested[1])>> /\ kept = <<SurvivingLeaves(e.nested[1])>>
    BY <1>1
  <2>2. LostLeaves(e.nested[1]) \in Int
    BY <1>2
  <2>3. Total(<<LostLeaves(e.nested[1])>>) = LostLeaves(e.nested[1])
    BY <2>2, TotalOfFew
  <2> HIDE DEF lost, kept
  <2> QED BY <2>1, <2>3
<1>4. e.nested # <<>>
  BY <1>1
<1>5. Sound(e) <=>
        /\ e.good
        /\ e.nested[1] \notin {Absent, <<>>}
             => e.nested[1] # NotAList /\ \E i \in DOMAIN e.nested[1] : e.nested[1][i].good
  BY <1>0, <1>4, CarriedAre
<1>6. Sound(e) <=> e.good /\ (e.nested[1] \in {Absent, <<>>} \/ list.items # <<>>)
  <2>1. CASE e.nested[1] \in {Absent, <<>>}
    BY <1>5, <2>1
  <2>2. CASE e.nested[1] \notin {Absent, <<>>} /\ e.nested[1] = NotAList
    <3>1. Listed(e.nested[1]) = <<>>
      BY <2>2 DEF Listed
    <3>2. DOMAIN Listed(e.nested[1]) = {}
      BY <3>1
    <3> QED BY <1>2, <1>5, <2>2, <3>2
  <2>3. CASE e.nested[1] \notin {Absent, <<>>, NotAList}
    <3>1. Listed(e.nested[1]) = e.nested[1]
      BY <2>3 DEF Listed
    <3> QED BY <1>2, <1>5, <2>3, <3>1
  <2> QED BY <2>1, <2>2, <2>3
<1>7. ParseMeterRead(e) = IF e.good /\ (e.nested[1] \in {Absent, <<>>} \/ list.items # <<>>)
                          THEN Kept(<<list.items>>, list.skipped) ELSE Refused
  BY DEF ParseMeterRead, ParseLeaves, list
<1> HIDE DEF lost, kept
<1>8. ParseMeterRead(e) = IF Sound(e) THEN Kept(kept, Total(lost)) ELSE Refused
  BY <1>2, <1>3, <1>6, <1>7
<1> QED BY <1>2, <1>3, <1>8 DEF lost, kept

LEMMA ReadsParsed ==
    ASSUME endpoint = "meters", NEW w \in Nat, NEW m \in Nat,
           NEW l \in ListsOf(EntriesWith(1, ListsOf(Leaves, w)), m)
    PROVE  LET list == ParseReads(l)
           IN  /\ list.skipped + list.recorded = LostNested(l) /\ LostNested(l) \in Nat
               /\ list.items = SurvivingNested(l)
<1> DEFINE X == EntriesWith(1, ListsOf(Leaves, w))
           E == Listed(l)
           parsed == [i \in DOMAIN E |-> ParseMeterRead(E[i])]
<1> HIDE DEF X
<1>1. PICK n \in Nat : Listed(l) \in [1..n -> X]
  BY ListsAre DEF X
<1>2. ParseReads(l) = ParseItemsCounted(parsed)
  BY DEF ParseReads, Each, Listed
<1>3. DOMAIN E = 1..n
  BY <1>1
<1> HIDE DEF E
<1>4. ASSUME NEW i \in 1..n
      PROVE  /\ parsed[i].kept <=> Sound(E[i])
             /\ parsed[i].recorded \in Nat
             /\ ~Sound(E[i]) => parsed[i].recorded = 0
             /\ Sound(E[i]) =>
                   /\ parsed[i].recorded = Total([j \in DOMAIN Carried(E[i]) |-> LostLeaves(Carried(E[i])[j])])
                   /\ parsed[i].item = [j \in DOMAIN Carried(E[i]) |-> SurvivingLeaves(Carried(E[i])[j])]
  <2> DEFINE e == E[i]
             lost == [j \in DOMAIN Carried(e) |-> LostLeaves(Carried(e)[j])]
             kept == [j \in DOMAIN Carried(e) |-> SurvivingLeaves(Carried(e)[j])]
  <2>1. e \in X
    BY <1>1 DEF E
  <2>2. parsed[i] = ParseMeterRead(e)
    BY <1>3
  <2>3. Total(lost) \in Nat /\ ParseMeterRead(e) = IF Sound(e) THEN Kept(kept, Total(lost)) ELSE Refused
    <3> HIDE DEF e
    <3> QED BY <2>1, ReadIs DEF X
  <2> HIDE DEF e, lost, kept, parsed
  <2>4. /\ parsed[i].kept <=> Sound(e)
        /\ parsed[i].recorded \in Nat
        /\ ~Sound(e) => parsed[i].recorded = 0
        /\ Sound(e) => parsed[i].recorded = Total(lost) /\ parsed[i].item = kept
    BY <2>2, <2>3 DEF Kept, Refused
  <2> QED BY <2>4 DEF e, lost, kept
<1>5. Judged(parsed, E, n)
  <2>1. DOMAIN parsed = 1..n
    BY <1>3
  <2> HIDE DEF parsed
  <2> QED BY <1>4, <2>1 DEF Judged
<1> HIDE DEF parsed
<1>6. NestedMade(parsed, E, n)
  BY <1>4 DEF NestedMade
<1> QED BY <1>1, <1>2, <1>5, <1>6, NestedAlike DEF E

ParsePeriods(l) == ParseItemsCounted(Each(l, ParseBbpContractPeriod))

\* A contract period is given up as a whole, or made of its lists with their losses.
LEMMA PeriodIs ==
    ASSUME endpoint = "bbp", NEW k \in Nat, NEW w \in Nat,
           NEW e \in EntriesWith(k, ListsOf(Leaves, w))
    PROVE  /\ Sound(e) <=> e.good
           /\ Total([j \in DOMAIN Carried(e) |-> LostLeaves(Carried(e)[j])]) \in Nat
           /\ ParseBbpContractPeriod(e)
                = IF e.good
                  THEN Kept([lists   |-> [j \in DOMAIN Carried(e) |-> SurvivingLeaves(Carried(e)[j])],
                             skipped |-> Total([j \in DOMAIN Carried(e) |-> LostLeaves(Carried(e)[j])])], 0)
                  ELSE Refused
<1> DEFINE lists == [i \in DOMAIN e.nested |-> ParseItemsCounted(Each(e.nested[i], ParseLeaf))]
           lost == [j \in DOMAIN Carried(e) |-> LostLeaves(Carried(e)[j])]
           kept == [j \in DOMAIN Carried(e) |-> SurvivingLeaves(Carried(e)[j])]
<1>0. endpoint \in DOMAIN Responses
  BY NoModelOfResponse
<1>1. /\ e.good \in BOOLEAN /\ Carried(e) = e.nested /\ DOMAIN Carried(e) = 1..k
      /\ \A j \in 1..k : Carried(e)[j] \in ListsOf(Leaves, w)
      /\ [j \in 1..k |-> LostLeaves(Carried(e)[j])] \in [1..k -> Nat]
      /\ Total([j \in 1..k |-> LostLeaves(Carried(e)[j])]) \in Nat
  <2> HIDE DEF lists, lost, kept
  <2> QED BY <1>0, NestedIs
<1>2. Sound(e) <=> e.good
  BY <1>0, CarriedAre
<1>3. lists = [j \in 1..k |-> ParseLeaves(Carried(e)[j])]
  BY <1>1 DEF ParseLeaves
<1>4. ParseBbpContractPeriod(e)
        = IF e.good
          THEN Kept([lists   |-> [i \in DOMAIN lists |-> lists[i].items],
                     skipped |-> Total([i \in DOMAIN lists |-> lists[i].skipped])], 0)
          ELSE Refused
  BY DEF ParseBbpContractPeriod
<1> HIDE DEF lists
<1>5. DOMAIN lists = 1..k /\ DOMAIN Carried(e) = 1..k
  BY <1>1, <1>3
<1>6. ASSUME NEW j \in 1..k
      PROVE  lists[j].items = SurvivingLeaves(Carried(e)[j]) /\ lists[j].skipped = LostLeaves(Carried(e)[j])
  <2>1. lists[j] = ParseLeaves(Carried(e)[j])
    BY <1>3
  <2>2. Carried(e)[j] \in ListsOf(Leaves, w)
    BY <1>1
  <2> QED BY <1>0, <2>1, <2>2, LeavesParsed
<1>7. [i \in DOMAIN lists |-> lists[i].items] = kept
  BY <1>5, <1>6
<1>8. [i \in DOMAIN lists |-> lists[i].skipped] = lost
  BY <1>5, <1>6
<1>9. Total(lost) \in Nat
  BY <1>1, <1>5
<1> HIDE DEF lost, kept
<1>10. ParseBbpContractPeriod(e)
         = IF e.good THEN Kept([lists |-> kept, skipped |-> Total(lost)], 0) ELSE Refused
  BY <1>4, <1>7, <1>8
<1> QED BY <1>2, <1>9, <1>10 DEF lost, kept

\* Of the periods kept the losses are summed, and the others counted.
LEMMA PeriodsParsed ==
    ASSUME endpoint = "bbp", NEW k \in Nat, NEW w \in Nat, NEW m \in Nat,
           NEW l \in ListsOf(EntriesWith(k, ListsOf(Leaves, w)), m)
    PROVE  LET list == ParsePeriods(l)
               carried == Total([i \in DOMAIN list.items |-> list.items[i].skipped])
           IN  /\ list.skipped + carried = LostNested(l) /\ list.skipped \in Nat /\ carried \in Nat
               /\ [i \in DOMAIN list.items |-> list.items[i].lists] = SurvivingNested(l)
<1> DEFINE X == EntriesWith(k, ListsOf(Leaves, w))
           E == Listed(l)
           parsed == [i \in DOMAIN E |-> ParseBbpContractPeriod(E[i])]
           list == ParseItemsCounted(parsed)
           Lost1(i) == Total([j \in DOMAIN Carried(E[i]) |-> LostLeaves(Carried(E[i])[j])])
           Kept1(i) == [j \in DOMAIN Carried(E[i]) |-> SurvivingLeaves(Carried(E[i])[j])]
<1> HIDE DEF X
<1>1. PICK n \in Nat : Listed(l) \in [1..n -> X]
  BY ListsAre DEF X
<1>2. ParsePeriods(l) = list
  BY DEF ParsePeriods, Each, Listed
<1>3. DOMAIN E = 1..n /\ E \in [1..n -> X] /\ Len(E) = n
  BY <1>1, ListOf
<1> HIDE DEF E
<1>4. ASSUME NEW i \in 1..n
      PROVE  /\ parsed[i].kept <=> Sound(E[i])
             /\ parsed[i].recorded = 0 /\ Lost1(i) \in Nat
             /\ Sound(E[i]) => parsed[i].item.skipped = Lost1(i) /\ parsed[i].item.lists = Kept1(i)
  <2> DEFINE e == E[i]
             lost == Lost1(i)
             kept == Kept1(i)
  <2>1. e \in X
    BY <1>3
  <2>2. parsed[i] = ParseBbpContractPeriod(e)
    BY <1>3
  <2>3. /\ Sound(e) <=> e.good
        /\ lost \in Nat
        /\ ParseBbpContractPeriod(e)
             = IF e.good THEN Kept([lists |-> kept, skipped |-> lost], 0) ELSE Refused
    BY <2>1, PeriodIs DEF X
  <2> HIDE DEF e, lost, kept, parsed
  <2>4. /\ parsed[i].kept <=> Sound(e)
        /\ parsed[i].recorded = 0
        /\ Sound(e) => parsed[i].item.skipped = lost /\ parsed[i].item.lists = kept
    BY <2>2, <2>3 DEF Kept, Refused
  <2> QED BY <2>3, <2>4 DEF e, lost, kept
<1>5. Judged(parsed, E, n)
  <2>1. DOMAIN parsed = 1..n
    BY <1>3
  <2> HIDE DEF parsed, Lost1, Kept1
  <2>2. \A i \in 1..n : /\ parsed[i].kept <=> Sound(E[i])
                        /\ parsed[i].recorded \in Nat
                        /\ ~Sound(E[i]) => parsed[i].recorded = 0
    BY <1>4
  <2> QED BY <2>1, <2>2 DEF Judged
<1> HIDE DEF parsed, list
<1> DEFINE order == Order(E)
           S == SoundOf(l)
<1>6. /\ order \in Seq(SoundIn(E)) /\ list.items = Made(parsed, E)
      /\ Sifted(E) = [j \in DOMAIN order |-> E[order[j]]]
      /\ list.skipped = Total(Skips(E)) /\ list.skipped \in Nat
  BY <1>3, <1>5, ParsedAlike DEF list
<1>7. S = [j \in DOMAIN order |-> E[order[j]]]
  BY <1>6 DEF SoundOf, E
<1>8. list.items = [j \in DOMAIN order |-> parsed[order[j]].item]
  BY <1>6 DEF Made
<1>9. SoundIn(E) \in SUBSET (1..n) /\ order = InOrder(SoundIn(E), n)
  BY <1>3 DEF SoundIn, Order
<1> HIDE DEF order, S
<1>10. \A j \in DOMAIN order : order[j] \in SoundIn(E) /\ order[j] \in 1..n /\ Sound(E[order[j]])
  <2> SUFFICES ASSUME NEW j \in DOMAIN order
               PROVE  order[j] \in SoundIn(E) /\ order[j] \in 1..n /\ Sound(E[order[j]])
    OBVIOUS
  <2>1. order[j] \in SoundIn(E)
    BY <1>6
  <2> QED BY <1>3, <2>1 DEF SoundIn
<1>11. [i \in DOMAIN list.items |-> list.items[i].lists] = SurvivingNested(l)
  <2>1. DOMAIN list.items = DOMAIN S /\ DOMAIN S = DOMAIN order
    BY <1>7, <1>8
  <2>2. ASSUME NEW i \in DOMAIN S
        PROVE  list.items[i].lists = [j \in DOMAIN Carried(S[i]) |-> SurvivingLeaves(Carried(S[i])[j])]
    <3>1. list.items[i].lists = Kept1(order[i]) /\ S[i] = E[order[i]]
      <4>1. list.items[i] = parsed[order[i]].item /\ S[i] = E[order[i]]
        BY <1>7, <1>8, <2>1
      <4>2. order[i] \in 1..n /\ Sound(E[order[i]])
        BY <1>10, <2>1
      <4>3. parsed[order[i]].item.lists = Kept1(order[i])
        BY <1>4, <4>2
      <4> HIDE DEF Kept1
      <4> QED BY <4>1, <4>3
    <3> QED BY <3>1
  <2>3. [i \in DOMAIN list.items |-> list.items[i].lists]
          = [i \in DOMAIN S |-> [j \in DOMAIN Carried(S[i]) |-> SurvivingLeaves(Carried(S[i])[j])]]
    BY <2>1, <2>2
  <2> QED BY <2>3, SurvivorsAre DEF S
<1> DEFINE masked == [i \in 1..n |-> IF i \in SoundIn(E) THEN Lost1(i) ELSE 0]
           picked == [j \in DOMAIN order |-> masked[order[j]]]
           skips == Skips(E)
           both == NestedLosses(l, 1)
<1>12. [i \in DOMAIN list.items |-> list.items[i].skipped] = picked
  <2>1. DOMAIN list.items = DOMAIN order
    BY <1>8
  <2>2. ASSUME NEW j \in DOMAIN order PROVE list.items[j].skipped = masked[order[j]]
    <3>1. list.items[j] = parsed[order[j]].item
      BY <1>8
    <3>2. order[j] \in 1..n /\ Sound(E[order[j]]) /\ order[j] \in SoundIn(E)
      BY <1>10
    <3>3. parsed[order[j]].item.skipped = Lost1(order[j])
      BY <1>4, <3>2
    <3>4. masked[order[j]] = Lost1(order[j])
      BY <3>2
    <3> HIDE DEF masked, Lost1
    <3> QED BY <3>1, <3>3, <3>4
  <2> HIDE DEF masked
  <2> QED BY <2>1, <2>2
<1>13. masked \in [1..n -> Int] /\ (\A i \in 1..n : masked[i] \in Nat)
       /\ \A i \in 1..n : masked[i] = IF i \in SoundIn(E) THEN masked[i] ELSE 0
  <2>1. \A i \in 1..n : Lost1(i) \in Nat
    BY <1>4
  <2> HIDE DEF Lost1
  <2>2. \A i \in 1..n : masked[i] \in Nat
    BY <2>1
  <2>3. \A i \in 1..n : masked[i] = IF i \in SoundIn(E) THEN masked[i] ELSE 0
    OBVIOUS
  <2>4. masked \in [1..n -> Int]
    BY <2>1
  <2> QED BY <2>2, <2>3, <2>4
<1>14. skips \in [1..n -> Int] /\ both \in [1..n -> Int] /\ \A i \in 1..n : both[i] = skips[i] + masked[i]
  <2>1. skips = [i \in 1..n |-> IF Sound(E[i]) THEN 0 ELSE 1]
    BY <1>3 DEF Skips
  <2>2. both = [i \in 1..n |-> IF Sound(E[i]) THEN Lost1(i) ELSE 1]
    BY <1>3 DEF NestedLosses, E
  <2>3. \A i \in 1..n : i \in SoundIn(E) <=> Sound(E[i])
    BY <1>3 DEF SoundIn
  <2>4. \A i \in 1..n : Lost1(i) \in Nat
    BY <1>4
  <2> HIDE DEF skips, both, Lost1
  <2> QED BY <2>1, <2>2, <2>3, <2>4
<1> HIDE DEF masked
<1>15. Total(picked) = Total(masked)
  <2> DEFINE P == SoundIn(E)
  <2> HIDE DEF P
  <2>1. P \in SUBSET (1..n) /\ order = InOrder(P, n)
        /\ \A i \in 1..n : masked[i] = IF i \in P THEN masked[i] ELSE 0
    BY <1>9, <1>13 DEF P
  <2>2. Total([j \in DOMAIN InOrder(P, n) |-> masked[InOrder(P, n)[j]]]) = Total(masked)
    BY <1>13, <2>1, TotalOfPicked
  <2> QED BY <2>1, <2>2
<1> HIDE DEF picked, skips, both
<1>16. Total(both) = Total(skips) + Total(masked)
  <2>1. \A u, v, x \in [1..n -> Int] :
           (\A i \in 1..n : x[i] = u[i] + v[i]) => Total(x) = Total(u) + Total(v)
    BY TotalAdds
  <2> QED BY <1>13, <1>14, <2>1
<1>17. Total(masked) \in Nat
  BY <1>13, TotalType
<1>18. list.skipped + Total(picked) = LostNested(l)
  <2>1. LostNested(l) = Total(both)
    BY LossesAre DEF both
  <2>2. list.skipped = Total(skips)
    BY <1>6 DEF skips
  <2> QED BY <1>15, <1>16, <2>1, <2>2
<1> QED BY <1>2, <1>6, <1>11, <1>12, <1>15, <1>17, <1>18

-----------------------------------------------------------------------------
(* The answers of the parsers of responses.                                *)

\* Contracts: one level.
LEMMA ContractsAnswered ==
    ASSUME endpoint = "contracts", raw \in Responses[endpoint]
    PROVE  /\ raw = <<raw[1]>>
           /\ Parsing = Answer(<<Surviving(raw[1])>>, Lost(raw[1])) /\ Lost(raw[1]) \in Nat
<1> DEFINE l == raw[1]
<1>0. endpoint \in DOMAIN Responses
  BY NoModelOfResponse
<1>1. raw = <<l>> /\ l \in ListsOf(Leaves, MaxEntries)
  BY DEF Responses
<1> HIDE DEF l
<1>2. Parsing = Answer(<<ParseLeaves(l).items>>, ParseLeaves(l).skipped)
  BY DEF Parsing, ParseEnergyContracts, ParseLeaves, l
<1>3. /\ ParseLeaves(l).skipped = LostLeaves(l) /\ LostLeaves(l) \in Nat
      /\ Lost(l) = LostLeaves(l)
      /\ ParseLeaves(l).items = Surviving(l)
  BY <1>0, <1>1, SkippedAssumption, LeavesParsed
<1> QED BY <1>1, <1>2, <1>3 DEF l

\* Accounts and solar days: two levels.
LEMMA NestedAnswered ==
    ASSUME endpoint \in {"accounts", "solar"}, raw \in Responses[endpoint]
    PROVE  /\ raw = <<raw[1]>>
           /\ Parsing = Answer(<<Surviving(raw[1])>>, Lost(raw[1])) /\ Lost(raw[1]) \in Nat
<1> DEFINE l == raw[1]
<1>0. endpoint \in DOMAIN Responses /\ endpoint # "meters"
  BY NoModelOfResponse
<1>1. raw = <<l>> /\ l \in ListsOf(EntriesWith(1, ListsOf(Leaves, MaxNested)), MaxEntries)
  BY DEF Responses, OneList
<1>2. Parsing = Tallied(ParseNested(l))
  <2>1. CASE endpoint = "accounts"
    BY <2>1 DEF Parsing, ParseCustomerAccountRelations, ParseNested
  <2>2. CASE endpoint = "solar"
    <3>1. Each(l, ParseSolarSurplusDay) = Each(l, ParseAccountRelation)
      BY SameParsers DEF Each
    <3> QED BY <2>2, <3>1 DEF Parsing, ParseSolarSurplusForecasts, ParseNested
  <2> QED BY <2>1, <2>2
<1> HIDE DEF l
<1>3. /\ ParseNested(l).skipped + ParseNested(l).recorded = LostNested(l) /\ LostNested(l) \in Nat
      /\ ParseNested(l).items = SurvivingNested(l)
  BY <1>0, <1>1, SkippedAssumption, NestedParsed
<1>4. Lost(l) = LostNested(l) /\ Surviving(l) = SurvivingNested(l)
  BY <1>0, <1>1, SkippedAssumption, NestedNoDeeper
<1> QED BY <1>1, <1>2, <1>3, <1>4 DEF l, Tallied

\* Prices and time-of-use schedules: three levels.
LEMMA DeepAnswered ==
    ASSUME endpoint \in {"prices", "tou"}, raw \in Responses[endpoint]
    PROVE  /\ raw = <<raw[1]>>
           /\ Parsing = Answer(<<Surviving(raw[1])>>, Lost(raw[1])) /\ Lost(raw[1]) \in Nat
<1> DEFINE l == raw[1]
<1>0. endpoint \in DOMAIN Responses /\ endpoint # "meters"
  BY NoModelOfResponse
<1>1. raw = <<l>> /\ l \in ListsOf(DeepEntries(1, 2, MaxLeaves, MaxLeaves), MaxEntries)
  BY DEF Responses, TwoLevels, DeepEntries, NestedLists
<1>2. Parsing = Tallied(ParseDeep(l))
  <2>1. CASE endpoint = "prices"
    BY <2>1 DEF Parsing, ParsePrices, ParseDeep
  <2>2. CASE endpoint = "tou"
    <3>1. Each(l, ParseTouScheduleItem) = Each(l, ParseEanPrices)
      BY SameParsers DEF Each
    <3> QED BY <2>2, <3>1 DEF Parsing, ParseTouSchedules, ParseDeep
  <2> QED BY <2>1, <2>2
<1> HIDE DEF l
<1>3. /\ ParseDeep(l).skipped + ParseDeep(l).recorded = Lost(l) /\ Lost(l) \in Nat
      /\ ParseDeep(l).items = Surviving(l)
  BY <1>0, <1>1, SkippedAssumption, DeepParsed
<1> QED BY <1>1, <1>2, <1>3 DEF l, Tallied

\* Meter reads.
LEMMA ReadsAnswered ==
    ASSUME endpoint = "meters", raw \in Responses[endpoint]
    PROVE  /\ raw = <<raw[1]>>
           /\ Parsing = Answer(<<Surviving(raw[1])>>, Lost(raw[1])) /\ Lost(raw[1]) \in Nat
<1> DEFINE l == raw[1]
<1>0. endpoint \in DOMAIN Responses
  BY NoModelOfResponse
<1>1. raw = <<l>> /\ l \in ListsOf(EntriesWith(1, ListsOf(Leaves, MaxNested)), MaxEntries)
  BY DEF Responses, OneList
<1>2. Parsing = Tallied(ParseReads(l))
  BY DEF Parsing, ParseMeterReads, ParseReads
<1> HIDE DEF l
<1>3. /\ ParseReads(l).skipped + ParseReads(l).recorded = LostNested(l) /\ LostNested(l) \in Nat
      /\ ParseReads(l).items = SurvivingNested(l)
  BY <1>0, <1>1, SkippedAssumption, ReadsParsed
<1>4. Lost(l) = LostNested(l) /\ Surviving(l) = SurvivingNested(l)
  BY <1>0, <1>1, SkippedAssumption, NestedNoDeeper
<1> QED BY <1>1, <1>2, <1>3, <1>4 DEF l, Tallied

\* Usage: the items, and the total, of which only what its lists lost is counted.
LEMMA UsageAnswered ==
    ASSUME endpoint = "usage", raw \in Responses[endpoint]
    PROVE  /\ raw = <<raw[1], raw[2]>>
           /\ Parsing = Answer(<<Surviving(raw[1]), Surviving(raw[2])>>,
                               Lost(raw[1]) + Losses(raw[2], 0, LostLeaves))
<1> DEFINE l == raw[1]
           t == raw[2]
<1>0. endpoint \in DOMAIN Responses /\ endpoint # "meters"
  BY NoModelOfResponse
<1>1. raw = <<l, t>> /\ l \in ListsOf(EntriesWith(2, ListsOf(Leaves, MaxLeaves)), MaxEntries)
      /\ t \in ListsOf(EntriesWith(2, ListsOf(Leaves, MaxLeaves)), 1)
  BY DEF Responses, OneList
<1>2. Parsing = Answer(<<ParseNested(l).items, ParseNested(t).items>>,
                       ParseNested(l).skipped + ParseNested(l).recorded + ParseNested(t).recorded)
  <2>1. Each(l, ParseUsageItem) = Each(l, ParseAccountRelation)
        /\ Each(t, ParseUsageItem) = Each(t, ParseAccountRelation)
    BY SameParsers DEF Each
  <2> QED BY <2>1 DEF Parsing, ParseUsageDetails, ParseNested
<1> HIDE DEF l, t
<1>3. /\ ParseNested(l).skipped + ParseNested(l).recorded = LostNested(l) /\ LostNested(l) \in Nat
      /\ ParseNested(l).items = SurvivingNested(l)
  BY <1>0, <1>1, SkippedAssumption, NestedParsed
<1>4. /\ ParseNested(t).recorded = Losses(t, 0, LostLeaves)
      /\ ParseNested(t).items = SurvivingNested(t)
  BY <1>0, <1>1, SkippedAssumption, NestedParsed
<1>5. /\ Lost(l) = LostNested(l) /\ Surviving(l) = SurvivingNested(l)
      /\ Surviving(t) = SurvivingNested(t)
  BY <1>0, <1>1, SkippedAssumption, NestedNoDeeper
<1> QED BY <1>1, <1>2, <1>3, <1>4, <1>5 DEF l, t

\* Budget billing plans: slices, factors, and the same in every contract period.
LEMMA PlansAnswered ==
    ASSUME endpoint = "bbp", raw \in Responses[endpoint]
    PROVE  /\ raw = <<raw[1], raw[2], raw[3]>>
           /\ Parsing = Answer(<<Surviving(raw[1]), Surviving(raw[2]), Surviving(raw[3])>>,
                               Lost(raw[1]) + Lost(raw[2]) + Lost(raw[3]))
           /\ Lost(raw[1]) \in Nat /\ Lost(raw[2]) \in Nat /\ Lost(raw[3]) \in Nat
<1> DEFINE s == raw[1]
           f == raw[2]
           l == raw[3]
           periods == ParsePeriods(l)
           carried == Total([i \in DOMAIN periods.items |-> periods.items[i].skipped])
           lists == [i \in DOMAIN periods.items |-> periods.items[i].lists]
<1>0. endpoint \in DOMAIN Responses /\ endpoint # "meters"
  BY NoModelOfResponse
<1>1. raw = <<s, f, l>> /\ s \in ListsOf(Leaves, MaxLeaves) /\ f \in ListsOf(Leaves, MaxLeaves)
      /\ l \in ListsOf(EntriesWith(2, ListsOf(Leaves, MaxLeaves)), MaxEntries)
  BY DEF Responses, OneList
<1>2. Parsing = Answer(<<ParseLeaves(s).items, ParseLeaves(f).items, lists>>,
                       ParseLeaves(s).skipped + ParseLeaves(f).skipped + periods.skipped + carried)
  BY DEF Parsing, ParseBudgetBillingPlanDetails, ParsePeriods, ParseLeaves
<1> HIDE DEF l, s, f
<1>3. /\ periods.skipped + carried = LostNested(l) /\ periods.skipped \in Nat /\ carried \in Nat
      /\ lists = SurvivingNested(l)
  BY <1>0, <1>1, SkippedAssumption, PeriodsParsed
<1> HIDE DEF periods, carried, lists
<1>4. /\ ParseLeaves(s).skipped = LostLeaves(s) /\ LostLeaves(s) \in Nat
      /\ Lost(s) = LostLeaves(s)
      /\ ParseLeaves(s).items = Surviving(s)
  BY <1>0, <1>1, SkippedAssumption, LeavesParsed
<1>5. /\ ParseLeaves(f).skipped = LostLeaves(f) /\ LostLeaves(f) \in Nat
      /\ Lost(f) = LostLeaves(f)
      /\ ParseLeaves(f).items = Surviving(f)
  BY <1>0, <1>1, SkippedAssumption, LeavesParsed
<1>6. Lost(l) = LostNested(l) /\ Surviving(l) = SurvivingNested(l)
  BY <1>0, <1>1, SkippedAssumption, NestedNoDeeper
<1>7. ParseLeaves(s).skipped + ParseLeaves(f).skipped + periods.skipped + carried
        = Lost(s) + Lost(f) + Lost(l)
  BY <1>3, <1>4, <1>5, <1>6
<1>8. <<ParseLeaves(s).items, ParseLeaves(f).items, lists>> = <<Surviving(s), Surviving(f), Surviving(l)>>
  BY <1>3, <1>4, <1>5, <1>6
<1>9. Lost(s) \in Nat /\ Lost(f) \in Nat /\ Lost(l) \in Nat
  BY <1>3, <1>4, <1>5, <1>6
<1> QED BY <1>1, <1>2, <1>7, <1>8, <1>9 DEF l, s, f

\* The answer to a response counts each loss once and keeps what is sound.
LEMMA ResponsesAnswered ==
    ASSUME endpoint \in DOMAIN Responses, raw \in Responses[endpoint], answer = Parsing
    PROVE  SkippedCountsOnce /\ KeepsEverySound
<1>0. endpoint \notin DOMAIN Models
      /\ endpoint \in {"contracts", "accounts", "prices", "solar", "tou", "usage", "meters", "bbp"}
  BY NoModelOfResponse
<1> DEFINE losses == [i \in DOMAIN raw |-> Lost(raw[i])]
           left == [i \in DOMAIN raw |-> Surviving(raw[i])]
<1>few. \A x, y, z \in Nat : Total(<<x>>) = x /\ Total(<<x, y, z>>) = x + y + z
  <2> SUFFICES ASSUME NEW x \in Nat, NEW y \in Nat, NEW z \in Nat
               PROVE  Total(<<x>>) = x /\ Total(<<x, y, z>>) = x + y + z
    OBVIOUS
  <2>1. x \in Int /\ y \in Int /\ z \in Int
    OBVIOUS
  <2> QED BY <2>1, TotalOfFew
<1>1. CASE endpoint \notin {"usage", "bbp"}
  <2>1. /\ raw = <<raw[1]>>
        /\ Parsing = Answer(<<Surviving(raw[1])>>, Lost(raw[1])) /\ Lost(raw[1]) \in Nat
    BY <1>0, <1>1, ContractsAnswered, NestedAnswered, DeepAnswered, ReadsAnswered
  <2>2. losses = <<Lost(raw[1])>> /\ left = <<Surviving(raw[1])>>
    BY <2>1
  <2>3. Total(<<Lost(raw[1])>>) = Lost(raw[1])
    BY <2>1, <1>few
  <2>4. answer.items = left /\ answer.skipped_entries = Total(losses)
    <3> HIDE DEF losses, left
    <3> QED BY <2>1, <2>2, <2>3 DEF Answer
  <2> HIDE DEF Models, ListedModels
  <2> QED BY <1>0, <1>1, <2>4 DEF SkippedCountsOnce, KeepsEverySound
<1>2. CASE endpoint = "usage"
  <2>1. /\ raw = <<raw[1], raw[2]>>
        /\ Parsing = Answer(<<Surviving(raw[1]), Surviving(raw[2])>>,
                            Lost(raw[1]) + Losses(raw[2], 0, LostLeaves))
    BY <1>2, UsageAnswered
  <2>2. left = <<Surviving(raw[1]), Surviving(raw[2])>>
    BY <2>1
  <2>3. /\ answer.items = left
        /\ answer.skipped_entries = Lost(raw[1]) + Losses(raw[2], 0, LostLeaves)
    <3> HIDE DEF left
    <3> QED BY <2>1, <2>2 DEF Answer
  <2>4. SkippedCountsOnce
    BY <1>2, <2>3 DEF SkippedCountsOnce
  <2>5. KeepsEverySound
    BY <1>0, <2>3 DEF KeepsEverySound
  <2> QED BY <2>4, <2>5
<1>3. CASE endpoint = "bbp"
  <2>1. /\ raw = <<raw[1], raw[2], raw[3]>>
        /\ Parsing = Answer(<<Surviving(raw[1]), Surviving(raw[2]), Surviving(raw[3])>>,
                            Lost(raw[1]) + Lost(raw[2]) + Lost(raw[3]))
        /\ Lost(raw[1]) \in Nat /\ Lost(raw[2]) \in Nat /\ Lost(raw[3]) \in Nat
    BY <1>3, PlansAnswered
  <2>2. /\ losses = <<Lost(raw[1]), Lost(raw[2]), Lost(raw[3])>>
        /\ left = <<Surviving(raw[1]), Surviving(raw[2]), Surviving(raw[3])>>
    BY <2>1
  <2>3. Total(<<Lost(raw[1]), Lost(raw[2]), Lost(raw[3])>>) = Lost(raw[1]) + Lost(raw[2]) + Lost(raw[3])
    BY <2>1, <1>few
  <2>4. answer.items = left /\ answer.skipped_entries = Total(losses)
    <3> HIDE DEF losses, left
    <3> QED BY <2>1, <2>2, <2>3 DEF Answer
  <2> HIDE DEF Models, ListedModels
  <2> QED BY <1>0, <1>3, <2>4 DEF SkippedCountsOnce, KeepsEverySound
<1> QED BY <1>1, <1>2, <1>3

\* What the parser has answered is its parsing of the response.
SkipInv ==
    /\ endpoint \in DOMAIN Responses =>
          raw \in Responses[endpoint] /\ answer \in {Unparsed, Parsing}
    /\ endpoint \in DOMAIN Models =>
          /\ raw \in Objects(endpoint)
          /\ answer \in {Unparsed, IF endpoint \in ListedModels THEN ParseModelList ELSE ParseModelObject}
    /\ endpoint \notin DOMAIN Responses \cup DOMAIN Models => answer = Unparsed

LEMMA SkipInvHolds == ResponseSpec => []SkipInv
<1> USE DEF SkipInv
<1>1. ResponseInit => SkipInv
  <2> SUFFICES ASSUME ResponseInit PROVE SkipInv
    OBVIOUS
  <2>1. answer = Unparsed
    BY DEF ResponseInit, SkipInit, QueryInit
  <2>2. CASE SkipInit
    BY <2>1, <2>2, NoModelOfResponse DEF SkipInit
  <2>3. CASE QueryInit
    BY <2>1, <2>3, QueriedApart DEF QueryInit
  <2> QED BY <2>2, <2>3 DEF ResponseInit
<1>2. SkipInv /\ [ResponseNext]_queryVars => SkipInv'
  <2> SUFFICES ASSUME SkipInv, [ResponseNext]_queryVars PROVE SkipInv'
    OBVIOUS
  <2> DEFINE made == IF endpoint \in ListedModels THEN ParseModelList ELSE ParseModelObject
  <2>1. /\ Responses' = Responses /\ Models' = Models /\ ListedModels' = ListedModels
        /\ Unparsed' = Unparsed
    BY DEF Responses, Unparsed
  <2>2. endpoint' = endpoint /\ raw' = raw
    BY DEF ResponseNext, ParseModel, SkipNext, Parse, ParseFields, queryVars, skipVars
  <2>3. Parsing' = Parsing
    <3>1. /\ ParseEnergyContracts' = ParseEnergyContracts
          /\ ParseCustomerAccountRelations' = ParseCustomerAccountRelations
          /\ ParsePrices' = ParsePrices
          /\ ParseSolarSurplusForecasts' = ParseSolarSurplusForecasts
      BY <2>2 DEF ParseEnergyContracts, ParseCustomerAccountRelations, ParsePrices,
                  ParseSolarSurplusForecasts
    <3>2. /\ ParseTouSchedules' = ParseTouSchedules
          /\ ParseUsageDetails' = ParseUsageDetails
          /\ ParseMeterReads' = ParseMeterReads
          /\ ParseBudgetBillingPlanDetails' = ParseBudgetBillingPlanDetails
      BY <2>2 DEF ParseTouSchedules, ParseUsageDetails, ParseMeterReads,
                  ParseBudgetBillingPlanDetails
    <3> QED BY <2>2, <3>1, <3>2 DEF Parsing
  <2>5. made' = made
    <3>1. ParseModelList' = ParseModelList /\ ParseModelObject' = ParseModelObject
      BY <2>2 DEF ParseModelList, ParseModelObject, ParseEntry, Each
    <3> HIDE DEF ListedModels
    <3> QED BY <2>1, <2>2, <3>1
  <2>6. Objects(endpoint)' = Objects(endpoint)
    BY <2>2
  <2>4. \/ answer' = answer
        \/ endpoint \in DOMAIN Responses /\ answer' = Parsing
        \/ endpoint \in DOMAIN Models /\ answer' = made
    BY DEF ResponseNext, ParseModel, SkipNext, Parse, ParseFields, queryVars, skipVars
  <2> HIDE DEF made
  <2> QED BY <2>1, <2>2, <2>3, <2>4, <2>5, <2>6, NoModelOfResponse DEF made
<1> QED BY <1>1, <1>2, PTL DEF ResponseSpec

-----------------------------------------------------------------------------
(* The fields of the models.                                               *)

\* How a parser makes a field of a type that it must have, and gives the entry up
\* without; that has a neutral value; that may be None.
MustBy ==
    {<<"AsAwareDatetime", "datetime">>, <<"AsDate", "date">>, <<"AsId", "int">>,
     <<"AsNumber", "float">>, <<"AsStrOrNone", "name">>, <<"AsYearMonth", "month">>,
     <<"IsStr", "str">>, <<"Parsed", "object">>}
HasBy ==
    {<<"AsFloat", "float">>, <<"AsInt", "int">>, <<"AsStr", "str">>, <<"Truthy", "bool">>}
OptionalBy ==
    {<<"AsAwareDatetime", "datetime">>, <<"AsBoolOrNone", "bool">>, <<"AsDate", "date">>,
     <<"AsFloatOrNone", "float">>, <<"AsId", "int">>, <<"AsIntOrNone", "int">>,
     <<"AsStrOrNone", "str">>, <<"AsWallTime", "time">>, <<"IsStr", "str">>,
     <<"NormalizeVocab", "str">>, <<"Parsed", "object">>, <<"TryFloat", "float">>}

\* The parser makes the field as the model declares it, or copies it unchecked.
Fits(field, declared) ==
    \/ /\ declared.presence = "must" /\ field.needed
       /\ <<field.how, declared.type>> \in MustBy
    \/ /\ declared.presence = "has" /\ ~field.needed
       /\ <<field.how, declared.type>> \in HasBy
    \/ /\ declared.presence = "optional" /\ ~field.needed
       /\ <<field.how, declared.type>> \in OptionalBy
    \/ /\ declared.presence = "unchecked" /\ ~field.needed
       /\ field.how = "Copied" /\ declared.type = "str"
Agree(parser, declared) ==
    DOMAIN parser = DOMAIN declared /\ \A f \in DOMAIN declared : Fits(parser[f], declared[f])

\* Accounts and agreements.
LEMMA AccountsAgree ==
    \A m \in {"BusinessAgreement", "ConsumptionAddress", "ContractInfo",
        "AccountRelation"} :
        Agree(Parsers[m], Models[m])
<1> USE DEF Agree, Fits, MustBy, HasBy, OptionalBy, Needs, Reads, Must, Has, Optional, Unchecked
<1>1. Agree(BusinessAgreementFields, BusinessAgreementModel)
  BY DEF BusinessAgreementFields, BusinessAgreementModel
<1>2. Agree(ConsumptionAddressFields, ConsumptionAddressModel)
  BY DEF ConsumptionAddressFields, ConsumptionAddressModel
<1>3. Agree(ContractInfoFields, ContractInfoModel)
  BY DEF ContractInfoFields, ContractInfoModel
<1>4. Agree(AccountRelationFields, AccountRelationModel)
  BY DEF AccountRelationFields, AccountRelationModel
<1> HIDE DEF Agree
<1> QED BY <1>1, <1>2, <1>3, <1>4 DEF Parsers, Models

\* Prices and energy contracts.
LEMMA PricesAgree ==
    \A m \in {"PriceSlot", "PricePeriod", "EanPrices", "EnergyContract",
        "ProductConfiguration"} :
        Agree(Parsers[m], Models[m])
<1> USE DEF Agree, Fits, MustBy, HasBy, OptionalBy, Needs, Reads, Must, Has, Optional, Unchecked
<1>1. Agree(PriceSlotFields, PriceSlotModel)
  BY DEF PriceSlotFields, PriceSlotModel
<1>2. Agree(PricePeriodFields, PricePeriodModel)
  BY DEF PricePeriodFields, PricePeriodModel
<1>3. Agree(EanPricesFields, EanPricesModel)
  BY DEF EanPricesFields, EanPricesModel
<1>4. Agree(EnergyContractFields, EnergyContractModel)
  BY DEF EnergyContractFields, EnergyContractModel
<1>5. Agree(ProductConfigurationFields, ProductConfigurationModel)
  BY DEF ProductConfigurationFields, ProductConfigurationModel
<1> HIDE DEF Agree
<1> QED BY <1>1, <1>2, <1>3, <1>4, <1>5 DEF Parsers, Models

\* Peaks and the account balance.
LEMMA BalanceAgree ==
    \A m \in {"Peak", "MonthlyPeaks", "FinancialTransaction", "AccountBalance",
        "BillingOverview", "BillingDetails"} :
        Agree(Parsers[m], Models[m])
<1> USE DEF Agree, Fits, MustBy, HasBy, OptionalBy, Needs, Reads, Must, Has, Optional, Unchecked
<1>1. Agree(PeakFields, PeakModel)
  BY DEF PeakFields, PeakModel
<1>2. Agree(MonthlyPeaksFields, MonthlyPeaksModel)
  BY DEF MonthlyPeaksFields, MonthlyPeaksModel
<1>3. Agree(FinancialTransactionFields, FinancialTransactionModel)
  BY DEF FinancialTransactionFields, FinancialTransactionModel
<1>4. Agree(AccountBalanceFields, AccountBalanceModel)
  BY DEF AccountBalanceFields, AccountBalanceModel
<1>5. Agree(BillingOverviewFields, BillingOverviewModel)
  BY DEF BillingOverviewFields, BillingOverviewModel
<1>6. Agree(BillingDetailsFields, BillingDetailsModel)
  BY DEF BillingDetailsFields, BillingDetailsModel
<1> HIDE DEF Agree
<1> QED BY <1>1, <1>2, <1>3, <1>4, <1>5, <1>6 DEF Parsers, Models

\* Happy hours and feature flags.
LEMMA HappyHoursAgree ==
    \A m \in {"HappyHourMonthData", "HappyHourComparison", "EnergyCostPair",
        "MonthReportHistoryEntry", "SimulatedEnergyFlow", "SimulatedEnergy",
        "SimulatedCostFlow", "SimulatedCost", "HappyHourMonthReport", "FeatureFlag"} :
        Agree(Parsers[m], Models[m])
<1> USE DEF Agree, Fits, MustBy, HasBy, OptionalBy, Needs, Reads, Must, Has, Optional, Unchecked
<1>1. Agree(HappyHourMonthDataFields, HappyHourMonthDataModel)
  BY DEF HappyHourMonthDataFields, HappyHourMonthDataModel
<1>2. Agree(HappyHourComparisonFields, HappyHourComparisonModel)
  BY DEF HappyHourComparisonFields, HappyHourComparisonModel
<1>3. Agree(EnergyCostPairFields, EnergyCostPairModel)
  BY DEF EnergyCostPairFields, EnergyCostPairModel
<1>4. Agree(MonthReportHistoryEntryFields, MonthReportHistoryEntryModel)
  BY DEF MonthReportHistoryEntryFields, MonthReportHistoryEntryModel
<1>5. Agree(SimulatedEnergyFlowFields, SimulatedEnergyFlowModel)
  BY DEF SimulatedEnergyFlowFields, SimulatedEnergyFlowModel
<1>6. Agree(SimulatedEnergyFields, SimulatedEnergyModel)
  BY DEF SimulatedEnergyFields, SimulatedEnergyModel
<1>7. Agree(SimulatedCostFlowFields, SimulatedCostFlowModel)
  BY DEF SimulatedCostFlowFields, SimulatedCostFlowModel
<1>8. Agree(SimulatedCostFields, SimulatedCostModel)
  BY DEF SimulatedCostFields, SimulatedCostModel
<1>9. Agree(HappyHourMonthReportFields, HappyHourMonthReportModel)
  BY DEF HappyHourMonthReportFields, HappyHourMonthReportModel
<1>10. Agree(FeatureFlagFields, FeatureFlagModel)
  BY DEF FeatureFlagFields, FeatureFlagModel
<1> HIDE DEF Agree
<1> QED BY <1>1, <1>2, <1>3, <1>4, <1>5, <1>6, <1>7, <1>8, <1>9, <1>10 DEF Parsers, Models

\* Solar surplus.
LEMMA SolarAgree ==
    \A m \in {"SolarSurplusSlot", "SolarSurplusDay"} :
        Agree(Parsers[m], Models[m])
<1> USE DEF Agree, Fits, MustBy, HasBy, OptionalBy, Needs, Reads, Must, Has, Optional, Unchecked
<1>1. Agree(SolarSurplusSlotFields, SolarSurplusSlotModel)
  BY DEF SolarSurplusSlotFields, SolarSurplusSlotModel
<1>2. Agree(SolarSurplusDayFields, SolarSurplusDayModel)
  BY DEF SolarSurplusDayFields, SolarSurplusDayModel
<1> HIDE DEF Agree
<1> QED BY <1>1, <1>2 DEF Parsers, Models

\* Time of use.
LEMMA TimeOfUseAgree ==
    \A m \in {"TouSlot", "TouCombinedSlot", "TouCombinedSchedule", "TouSchedule",
        "TouGridMeterSchedule", "TouScheduleItem"} :
        Agree(Parsers[m], Models[m])
<1> USE DEF Agree, Fits, MustBy, HasBy, OptionalBy, Needs, Reads, Must, Has, Optional, Unchecked
<1>1. Agree(TouSlotFields, TouSlotModel)
  BY DEF TouSlotFields, TouSlotModel
<1>2. Agree(TouCombinedSlotFields, TouCombinedSlotModel)
  BY DEF TouCombinedSlotFields, TouCombinedSlotModel
<1>3. Agree(TouCombinedScheduleFields, TouCombinedScheduleModel)
  BY DEF TouCombinedScheduleFields, TouCombinedScheduleModel
<1>4. Agree(TouScheduleFields, TouScheduleModel)
  BY DEF TouScheduleFields, TouScheduleModel
<1>5. Agree(TouGridMeterScheduleFields, TouGridMeterScheduleModel)
  BY DEF TouGridMeterScheduleFields, TouGridMeterScheduleModel
<1>6. Agree(TouScheduleItemFields, TouScheduleItemModel)
  BY DEF TouScheduleItemFields, TouScheduleItemModel
<1> HIDE DEF Agree
<1> QED BY <1>1, <1>2, <1>3, <1>4, <1>5, <1>6 DEF Parsers, Models

\* Usage.
LEMMA UsageAgree ==
    \A m \in {"UsageTouPart", "UsageTouCrossPart", "UsageDirectionBreakdown",
        "UsageElectricityBreakdown", "GasUsage", "UsageItem", "ElectricityUsage",
        "UsageDetailsResponse"} :
        Agree(Parsers[m], Models[m])
<1> USE DEF Agree, Fits, MustBy, HasBy, OptionalBy, Needs, Reads, Must, Has, Optional, Unchecked
<1>1. Agree(UsageTouPartFields, UsageTouPartModel)
  BY DEF UsageTouPartFields, UsageTouPartModel
<1>2. Agree(UsageTouCrossPartFields, UsageTouCrossPartModel)
  BY DEF UsageTouCrossPartFields, UsageTouCrossPartModel
<1>3. Agree(UsageDirectionBreakdownFields, UsageDirectionBreakdownModel)
  BY DEF UsageDirectionBreakdownFields, UsageDirectionBreakdownModel
<1>4. Agree(UsageElectricityBreakdownFields, UsageElectricityBreakdownModel)
  BY DEF UsageElectricityBreakdownFields, UsageElectricityBreakdownModel
<1>5. Agree(GasUsageFields, GasUsageModel)
  BY DEF GasUsageFields, GasUsageModel
<1>6. Agree(UsageItemFields, UsageItemModel)
  BY DEF UsageItemFields, UsageItemModel
<1>7. Agree(ElectricityUsageFields, ElectricityUsageModel)
  BY DEF ElectricityUsageFields, ElectricityUsageModel
<1>8. Agree(UsageDetailsResponseFields, UsageDetailsResponseModel)
  BY DEF UsageDetailsResponseFields, UsageDetailsResponseModel
<1> HIDE DEF Agree
<1> QED BY <1>1, <1>2, <1>3, <1>4, <1>5, <1>6, <1>7, <1>8 DEF Parsers, Models

\* Service points and meters.
LEMMA MetersAgree ==
    \A m \in {"MeteringConfiguration", "ServicePointInstallation",
        "ServicePointMarketDetails", "ServicePoint", "MeasuredDataWindow",
        "DataAvailability", "MeteringDataSource", "MeteringDataSources",
        "MeteringServicePoint", "MeterRegisterRead", "MeterRead"} :
        Agree(Parsers[m], Models[m])
<1> USE DEF Agree, Fits, MustBy, HasBy, OptionalBy, Needs, Reads, Must, Has, Optional, Unchecked
<1>1. Agree(MeteringConfigurationFields, MeteringConfigurationModel)
  BY DEF MeteringConfigurationFields, MeteringConfigurationModel
<1>2. Agree(ServicePointInstallationFields, ServicePointInstallationModel)
  BY DEF ServicePointInstallationFields, ServicePointInstallationModel
<1>3. Agree(ServicePointMarketDetailsFields, ServicePointMarketDetailsModel)
  BY DEF ServicePointMarketDetailsFields, ServicePointMarketDetailsModel
<1>4. Agree(ServicePointFields, ServicePointModel)
  BY DEF ServicePointFields, ServicePointModel
<1>5. Agree(MeasuredDataWindowFields, MeasuredDataWindowModel)
  BY DEF MeasuredDataWindowFields, MeasuredDataWindowModel
<1>6. Agree(DataAvailabilityFields, DataAvailabilityModel)
  BY DEF DataAvailabilityFields, DataAvailabilityModel
<1>7. Agree(MeteringDataSourceFields, MeteringDataSourceModel)
  BY DEF MeteringDataSourceFields, MeteringDataSourceModel
<1>8. Agree(MeteringDataSourcesFields, MeteringDataSourcesModel)
  BY DEF MeteringDataSourcesFields, MeteringDataSourcesModel
<1>9. Agree(MeteringServicePointFields, MeteringServicePointModel)
  BY DEF MeteringServicePointFields, MeteringServicePointModel
<1>10. Agree(MeterRegisterReadFields, MeterRegisterReadModel)
  BY DEF MeterRegisterReadFields, MeterRegisterReadModel
<1>11. Agree(MeterReadFields, MeterReadModel)
  BY DEF MeterReadFields, MeterReadModel
<1> HIDE DEF Agree
<1> QED BY <1>1, <1>2, <1>3, <1>4, <1>5, <1>6, <1>7, <1>8, <1>9, <1>10, <1>11 DEF Parsers, Models

\* Budget billing.
LEMMA BudgetAgree ==
    \A m \in {"PaymentSlice", "MonthlyBilledBudget", "BillingPeriodUsage",
        "BudgetBillingPlanProposalFactor", "BudgetBillingPlanProposal",
        "BudgetBillingPlanLimits", "BudgetBillingPlan",
        "BudgetBillingPlanContractPeriod", "BudgetBillingPlanDetails",
        "HappyHourEligibility"} :
        Agree(Parsers[m], Models[m])
<1> USE DEF Agree, Fits, MustBy, HasBy, OptionalBy, Needs, Reads, Must, Has, Optional, Unchecked
<1>1. Agree(PaymentSliceFields, PaymentSliceModel)
  BY DEF PaymentSliceFields, PaymentSliceModel
<1>2. Agree(MonthlyBilledBudgetFields, MonthlyBilledBudgetModel)
  BY DEF MonthlyBilledBudgetFields, MonthlyBilledBudgetModel
<1>3. Agree(BillingPeriodUsageFields, BillingPeriodUsageModel)
  BY DEF BillingPeriodUsageFields, BillingPeriodUsageModel
<1>4.
      /\ Agree(BudgetBillingPlanProposalFactorFields, BudgetBillingPlanProposalFactorModel)
  BY DEF BudgetBillingPlanProposalFactorFields, BudgetBillingPlanProposalFactorModel
<1>5. Agree(BudgetBillingPlanProposalFields, BudgetBillingPlanProposalModel)
  BY DEF BudgetBillingPlanProposalFields, BudgetBillingPlanProposalModel
<1>6. Agree(BudgetBillingPlanLimitsFields, BudgetBillingPlanLimitsModel)
  BY DEF BudgetBillingPlanLimitsFields, BudgetBillingPlanLimitsModel
<1>7. Agree(BudgetBillingPlanFields, BudgetBillingPlanModel)
  BY DEF BudgetBillingPlanFields, BudgetBillingPlanModel
<1>8.
      /\ Agree(BudgetBillingPlanContractPeriodFields, BudgetBillingPlanContractPeriodModel)
  BY DEF BudgetBillingPlanContractPeriodFields, BudgetBillingPlanContractPeriodModel
<1>9. Agree(BudgetBillingPlanDetailsFields, BudgetBillingPlanDetailsModel)
  BY DEF BudgetBillingPlanDetailsFields, BudgetBillingPlanDetailsModel
<1>10. Agree(HappyHourEligibilityFields, HappyHourEligibilityModel)
  BY DEF HappyHourEligibilityFields, HappyHourEligibilityModel
<1> HIDE DEF Agree
<1> QED BY <1>1, <1>2, <1>3, <1>4, <1>5, <1>6, <1>7, <1>8, <1>9, <1>10 DEF Parsers, Models

\* Happy-hour status and energy score.
LEMMA ScoresAgree ==
    \A m \in {"HappyHourServiceStatus", "EnergyScoreDataAvailability",
        "EnergyScoreQuestionAnswer", "EnergyScoreCriteria", "EnergyScoreActions",
        "EnergyScoreDetails", "EnergyScore"} :
        Agree(Parsers[m], Models[m])
<1> USE DEF Agree, Fits, MustBy, HasBy, OptionalBy, Needs, Reads, Must, Has, Optional, Unchecked
<1>1. Agree(HappyHourServiceStatusFields, HappyHourServiceStatusModel)
  BY DEF HappyHourServiceStatusFields, HappyHourServiceStatusModel
<1>2. Agree(EnergyScoreDataAvailabilityFields, EnergyScoreDataAvailabilityModel)
  BY DEF EnergyScoreDataAvailabilityFields, EnergyScoreDataAvailabilityModel
<1>3. Agree(EnergyScoreQuestionAnswerFields, EnergyScoreQuestionAnswerModel)
  BY DEF EnergyScoreQuestionAnswerFields, EnergyScoreQuestionAnswerModel
<1>4. Agree(EnergyScoreCriteriaFields, EnergyScoreCriteriaModel)
  BY DEF EnergyScoreCriteriaFields, EnergyScoreCriteriaModel
<1>5. Agree(EnergyScoreActionsFields, EnergyScoreActionsModel)
  BY DEF EnergyScoreActionsFields, EnergyScoreActionsModel
<1>6. Agree(EnergyScoreDetailsFields, EnergyScoreDetailsModel)
  BY DEF EnergyScoreDetailsFields, EnergyScoreDetailsModel
<1>7. Agree(EnergyScoreFields, EnergyScoreModel)
  BY DEF EnergyScoreFields, EnergyScoreModel
<1> HIDE DEF Agree
<1> QED BY <1>1, <1>2, <1>3, <1>4, <1>5, <1>6, <1>7 DEF Parsers, Models

\* Vehicles.
LEMMA VehiclesAgree ==
    \A m \in {"EvService", "EvServiceInfo", "VehicleCapabilities", "VehicleChargeState",
        "ElectricVehicle", "DepartureTimes", "ChargeSettingValue",
        "VehicleChargeSettings"} :
        Agree(Parsers[m], Models[m])
<1> USE DEF Agree, Fits, MustBy, HasBy, OptionalBy, Needs, Reads, Must, Has, Optional, Unchecked
<1>1. Agree(EvServiceFields, EvServiceModel)
  BY DEF EvServiceFields, EvServiceModel
<1>2. Agree(EvServiceInfoFields, EvServiceInfoModel)
  BY DEF EvServiceInfoFields, EvServiceInfoModel
<1>3. Agree(VehicleCapabilitiesFields, VehicleCapabilitiesModel)
  BY DEF VehicleCapabilitiesFields, VehicleCapabilitiesModel
<1>4. Agree(VehicleChargeStateFields, VehicleChargeStateModel)
  BY DEF VehicleChargeStateFields, VehicleChargeStateModel
<1>5. Agree(ElectricVehicleFields, ElectricVehicleModel)
  BY DEF ElectricVehicleFields, ElectricVehicleModel
<1>6. Agree(DepartureTimesFields, DepartureTimesModel)
  BY DEF DepartureTimesFields, DepartureTimesModel
<1>7. Agree(ChargeSettingValueFields, ChargeSettingValueModel)
  BY DEF ChargeSettingValueFields, ChargeSettingValueModel
<1>8. Agree(VehicleChargeSettingsFields, VehicleChargeSettingsModel)
  BY DEF VehicleChargeSettingsFields, VehicleChargeSettingsModel
<1> HIDE DEF Agree
<1> QED BY <1>1, <1>2, <1>3, <1>4, <1>5, <1>6, <1>7, <1>8 DEF Parsers, Models

\* Charging sessions.
LEMMA SessionsAgree ==
    \A m \in {"SmartChargeOutcome", "ChargingSession", "ChargingSessionConsumption",
        "ChargingSessionDetails", "ChargingSessionChargeSettings",
        "ChargingSessionsPage", "ChargingSessionsSummaryEntry",
        "ChargingSessionsSummary"} :
        Agree(Parsers[m], Models[m])
<1> USE DEF Agree, Fits, MustBy, HasBy, OptionalBy, Needs, Reads, Must, Has, Optional, Unchecked
<1>1. Agree(SmartChargeOutcomeFields, SmartChargeOutcomeModel)
  BY DEF SmartChargeOutcomeFields, SmartChargeOutcomeModel
<1>2. Agree(ChargingSessionFields, ChargingSessionModel)
  BY DEF ChargingSessionFields, ChargingSessionModel
<1>3. Agree(ChargingSessionConsumptionFields, ChargingSessionConsumptionModel)
  BY DEF ChargingSessionConsumptionFields, ChargingSessionConsumptionModel
<1>4. Agree(ChargingSessionDetailsFields, ChargingSessionDetailsModel)
  BY DEF ChargingSessionDetailsFields, ChargingSessionDetailsModel
<1>5. Agree(ChargingSessionChargeSettingsFields, ChargingSessionChargeSettingsModel)
  BY DEF ChargingSessionChargeSettingsFields, ChargingSessionChargeSettingsModel
<1>6. Agree(ChargingSessionsPageFields, ChargingSessionsPageModel)
  BY DEF ChargingSessionsPageFields, ChargingSessionsPageModel
<1>7. Agree(ChargingSessionsSummaryEntryFields, ChargingSessionsSummaryEntryModel)
  BY DEF ChargingSessionsSummaryEntryFields, ChargingSessionsSummaryEntryModel
<1>8. Agree(ChargingSessionsSummaryFields, ChargingSessionsSummaryModel)
  BY DEF ChargingSessionsSummaryFields, ChargingSessionsSummaryModel
<1> HIDE DEF Agree
<1> QED BY <1>1, <1>2, <1>3, <1>4, <1>5, <1>6, <1>7, <1>8 DEF Parsers, Models

\* The reasons of an eligibility are strings, and no objects.
LEMMA ReasonsAgree ==
    \A m \in {"HappyHourReason"} :
        Agree(Parsers[m], Models[m])
<1> USE DEF Agree, Fits, MustBy, HasBy, OptionalBy, Needs, Reads, Must, Has, Optional, Unchecked
<1>1. Agree(HappyHourReasonFields, HappyHourReasonModel)
  BY DEF HappyHourReasonFields, HappyHourReasonModel
<1> HIDE DEF Agree
<1> QED BY <1>1 DEF Parsers, Models

\* So do they all.
LEMMA TablesAgree == \A m \in DOMAIN Models : Agree(Parsers[m], Models[m])
BY AccountsAgree, PricesAgree, BalanceAgree, HappyHoursAgree, SolarAgree, TimeOfUseAgree,
   UsageAgree, MetersAgree, BudgetAgree, ScoresAgree, VehiclesAgree, SessionsAgree,
   ReasonsAgree DEF Models

\* Where the field must be there, nothing is made of what denotes no value of the type.
LEMMA MustMade ==
    ASSUME NEW how, NEW type, <<how, type>> \in MustBy, NEW v \in Kinds
    PROVE  /\ Convert(how, v) = "null" <=> v \notin Denotes[type]
           /\ v \in Denotes[type] => Convert(how, v) = Meaning(type, v)
<1>1. v \in {"aware", "naive", "date", "month", "time", "digits", "decimal", "text", "empty",
             "integer", "fraction", "boolean", "object", "null"}
  BY DEF Kinds, Strings
<1> USE DEF Convert, Denotes, Meaning, Values, Strings, Kinds
<1>2. CASE how = "AsAwareDatetime" /\ type = "datetime"
  BY <1>1, <1>2 DEF AsAwareDatetime
<1>3. CASE how = "AsDate" /\ type = "date"
  BY <1>1, <1>3 DEF AsDate
<1>4. CASE how = "AsId" /\ type = "int"
  BY <1>1, <1>4 DEF AsId
<1>5. CASE how = "AsNumber" /\ type = "float"
  BY <1>1, <1>5 DEF AsNumber
<1>6. CASE how = "AsStrOrNone" /\ type = "name"
  BY <1>1, <1>6 DEF AsStrOrNone
<1>7. CASE how = "AsYearMonth" /\ type = "month"
  BY <1>1, <1>7 DEF AsYearMonth
<1>8. CASE how = "IsStr" /\ type = "str"
  BY <1>1, <1>8 DEF IsStr
<1>9. CASE how = "Parsed" /\ type = "object"
  BY <1>1, <1>9 DEF Parsed
<1> HIDE DEF Convert, Denotes, Meaning, Values, Strings, Kinds
<1> QED BY <1>2, <1>3, <1>4, <1>5, <1>6, <1>7, <1>8, <1>9 DEF MustBy

\* Where it has a neutral value, a value of the type is made of anything.
LEMMA HasMade ==
    ASSUME NEW how, NEW type, <<how, type>> \in HasBy, NEW v \in Kinds
    PROVE  /\ Convert(how, v) \in Values(type)
           /\ v \in Denotes[type] \ {"empty"} => Convert(how, v) = Meaning(type, v)
<1>1. v \in {"aware", "naive", "date", "month", "time", "digits", "decimal", "text", "empty",
             "integer", "fraction", "boolean", "object", "null"}
  BY DEF Kinds, Strings
<1> USE DEF Convert, Denotes, Meaning, Values, Strings, Kinds
<1>2. CASE how = "AsFloat" /\ type = "float"
  BY <1>1, <1>2 DEF AsFloat
<1>3. CASE how = "AsInt" /\ type = "int"
  BY <1>1, <1>3 DEF AsInt
<1>4. CASE how = "AsStr" /\ type = "str"
  BY <1>1, <1>4 DEF AsStr
<1>5. CASE how = "Truthy" /\ type = "bool"
  BY <1>1, <1>5 DEF Truthy
<1> HIDE DEF Convert, Denotes, Meaning, Values, Strings, Kinds
<1> QED BY <1>2, <1>3, <1>4, <1>5 DEF HasBy

\* Where it may be None, a value of the type or None.
LEMMA OptionalMade ==
    ASSUME NEW how, NEW type, <<how, type>> \in OptionalBy, NEW v \in Kinds
    PROVE  /\ Convert(how, v) \in Values(type) \cup {"null"}
           /\ v \in Denotes[type] \ {"empty"} => Convert(how, v) = Meaning(type, v)
<1>1. v \in {"aware", "naive", "date", "month", "time", "digits", "decimal", "text", "empty",
             "integer", "fraction", "boolean", "object", "null"}
  BY DEF Kinds, Strings
<1> USE DEF Convert, Denotes, Meaning, Values, Strings, Kinds
<1>2. CASE how = "AsAwareDatetime" /\ type = "datetime"
  BY <1>1, <1>2 DEF AsAwareDatetime
<1>3. CASE how = "AsBoolOrNone" /\ type = "bool"
  BY <1>1, <1>3 DEF AsBoolOrNone
<1>4. CASE how = "AsDate" /\ type = "date"
  BY <1>1, <1>4 DEF AsDate
<1>5. CASE how = "AsFloatOrNone" /\ type = "float"
  BY <1>1, <1>5 DEF AsFloatOrNone, AsFloat
<1>6. CASE how = "AsId" /\ type = "int"
  BY <1>1, <1>6 DEF AsId
<1>7. CASE how = "AsIntOrNone" /\ type = "int"
  BY <1>1, <1>7 DEF AsIntOrNone, AsInt
<1>8. CASE how = "AsStrOrNone" /\ type = "str"
  BY <1>1, <1>8 DEF AsStrOrNone
<1>9. CASE how = "AsWallTime" /\ type = "time"
  BY <1>1, <1>9 DEF AsWallTime
<1>11. CASE how = "IsStr" /\ type = "str"
  BY <1>1, <1>11 DEF IsStr
<1>12. CASE how = "NormalizeVocab" /\ type = "str"
  BY <1>1, <1>12 DEF NormalizeVocab
<1>13. CASE how = "Parsed" /\ type = "object"
  BY <1>1, <1>13 DEF Parsed
<1>14. CASE how = "TryFloat" /\ type = "float"
  BY <1>1, <1>14 DEF TryFloat, AsFloat
<1> HIDE DEF Convert, Denotes, Meaning, Values, Strings, Kinds
<1> QED BY <1>2, <1>3, <1>4, <1>5, <1>6, <1>7, <1>8, <1>9, <1>11, <1>12, <1>13, <1>14 DEF OptionalBy

\* A field made as declared is given up only if it must be there and is not;
\* otherwise it has a value of its type, or None where it may, or is copied.
LEMMA FieldMade ==
    ASSUME NEW p, NEW d, Fits(p, d), NEW v \in Kinds
    PROVE  LET x == Convert(p.how, v)
           IN  /\ p.needed <=> d.presence = "must"
               /\ p.needed => (x = "null" <=> v \notin Denotes[d.type])
               /\ ~(p.needed /\ x = "null") =>
                     /\ \/ x \in Values(d.type)
                        \/ d.presence = "optional" /\ x = "null"
                        \/ d.presence = "unchecked" /\ x = v
                     /\ v \in Denotes[d.type] \ {"empty"} => x = Meaning(d.type, v)
<1> DEFINE how == p.how
           type == d.type
           x == Convert(how, v)
<1>1. CASE d.presence = "must" /\ p.needed /\ <<how, type>> \in MustBy
  <2>1. /\ x = "null" <=> v \notin Denotes[type]
        /\ v \in Denotes[type] => x = Meaning(type, v)
    BY <1>1, MustMade
  <2>2. v \in Denotes[type] => Meaning(type, v) \in Values(type)
    BY DEF Values
  <2> HIDE DEF how, type, x
  <2> QED BY <1>1, <2>1, <2>2 DEF how, type, x
<1>2. CASE d.presence = "has" /\ ~p.needed /\ <<how, type>> \in HasBy
  BY <1>2, HasMade
<1>3. CASE d.presence = "optional" /\ ~p.needed /\ <<how, type>> \in OptionalBy
  BY <1>3, OptionalMade
<1>4. CASE d.presence = "unchecked" /\ ~p.needed /\ how = "Copied" /\ type = "str"
  <2>1. x = v /\ Meaning(type, v) = v
    BY <1>4 DEF Convert, Copied, Meaning
  <2> QED BY <1>4, <2>1
<1> QED BY <1>1, <1>2, <1>3, <1>4 DEF Fits

\* An entry is any object with the fields of the model, or no object.
Entries(m) == {NoObject} \cup [DOMAIN Models[m] -> Kinds]

\* What is made of an entry that is sound is true to it, and the others are refused.
LEMMA EntryMade ==
    ASSUME endpoint \in DOMAIN Models, NEW e \in Entries(endpoint)
    PROVE  /\ ParseEntry(e).kept <=> Sound(e)
           /\ ParseEntry(e).recorded = 0
           /\ Sound(e) => TrueTo(endpoint, e, ParseEntry(e).item)
<1> DEFINE P == Parsers[endpoint]
           M == Models[endpoint]
           object == [f \in DOMAIN P |-> Convert(P[f].how, e[f])]
<1> HIDE DEF Parsers, Models
<1>1. DOMAIN P = DOMAIN M /\ \A f \in DOMAIN M : Fits(P[f], M[f])
  BY TablesAgree DEF Agree
<1>2. ParseEntry(e) = IF e = NoObject \/ \E f \in DOMAIN P : P[f].needed /\ object[f] = "null"
                      THEN Refused ELSE Kept(object, 0)
  BY DEF ParseEntry
<1>3. Sound(e) <=> e # NoObject /\ \A f \in DOMAIN M : M[f].presence = "must" => e[f] \in Denotes[M[f].type]
  BY DEF Sound, WellFormed
<1>4. CASE e = NoObject
  BY <1>2, <1>3, <1>4 DEF Refused
<1>5. CASE e # NoObject
  <2>1. \A f \in DOMAIN M : e[f] \in Kinds
    BY <1>5 DEF Entries
  <2>2. DOMAIN object = DOMAIN M /\ \A f \in DOMAIN M : object[f] = Convert(P[f].how, e[f])
    BY <1>1
  <2> HIDE DEF P, M, object
  <2>3. ASSUME NEW f \in DOMAIN M
        PROVE  /\ P[f].needed <=> M[f].presence = "must"
               /\ P[f].needed => (object[f] = "null" <=> e[f] \notin Denotes[M[f].type])
               /\ ~(P[f].needed /\ object[f] = "null") =>
                     /\ \/ object[f] \in Values(M[f].type)
                        \/ M[f].presence = "optional" /\ object[f] = "null"
                        \/ M[f].presence = "unchecked" /\ object[f] = e[f]
                     /\ e[f] \in Denotes[M[f].type] \ {"empty"} => object[f] = Meaning(M[f].type, e[f])
    BY <1>1, <2>1, <2>2, FieldMade
  <2>4. Sound(e) <=> ~ \E f \in DOMAIN P : P[f].needed /\ object[f] = "null"
    BY <1>1, <1>3, <1>5, <2>3
  <2>5. Sound(e) => TrueTo(endpoint, e, object)
    <3> SUFFICES ASSUME Sound(e) PROVE TrueTo(endpoint, e, object)
      OBVIOUS
    <3>1. \A f \in DOMAIN M : ~(P[f].needed /\ object[f] = "null")
      BY <1>1, <2>4
    <3> QED BY <2>2, <2>3, <3>1 DEF TrueTo, M
  <2> QED BY <1>2, <1>5, <2>4, <2>5 DEF Refused, Kept
<1> QED BY <1>4, <1>5

\* What models.py declares of the unchecked fields, a string or None, does hold
\* only as long as the wire keeps to it: anything else is kept, in a model that is
\* made all the same.
THEOREM CopiesBreakTypes ==
    ASSUME endpoint \in DOMAIN Models, NEW f \in DOMAIN Models[endpoint],
           Models[endpoint][f].presence = "unchecked",
           NEW e \in [DOMAIN Models[endpoint] -> Kinds], e # NoObject, WellFormed(endpoint, e),
           e[f] \notin Strings \cup {"null"}
    PROVE  LET made == ParseEntry(e)
           IN  /\ made.kept
               /\ made.item[f] \notin Values(Models[endpoint][f].type) \cup {"null"}
<1> DEFINE P == Parsers[endpoint]
           M == Models[endpoint]
           object == [g \in DOMAIN P |-> Convert(P[g].how, e[g])]
<1> HIDE DEF Parsers, Models
<1>1. ParseEntry(e).kept
  BY EntryMade DEF Entries, Sound
<1>2. ParseEntry(e).item = object
  BY <1>1 DEF ParseEntry, Kept, Refused
<1>3. DOMAIN P = DOMAIN M /\ P[f].how = "Copied" /\ M[f].type = "str"
  BY TablesAgree DEF Agree, Fits
<1>4. object[f] = e[f]
  BY <1>3 DEF Convert, Copied
<1>5. Values("str") = Strings
  BY DEF Values, Denotes, Meaning
<1> QED BY <1>1, <1>2, <1>3, <1>4, <1>5

\* So that a list is kept and counted entry by entry.
LEMMA EntriesMade ==
    ASSUME endpoint \in DOMAIN Models, NEW n \in Nat, NEW E \in [1..n -> Entries(endpoint)]
    PROVE  LET list == ParseItemsCounted([i \in 1..n |-> ParseEntry(E[i])])
           IN  AllTrue(list.items, Sifted(E)) /\ list.skipped = Total(Skips(E))
<1> DEFINE X == Entries(endpoint)
           parsed == [i \in 1..n |-> ParseEntry(E[i])]
           list == ParseItemsCounted(parsed)
           order == Order(E)
<1>1. ASSUME NEW i \in 1..n
      PROVE  /\ parsed[i].kept <=> Sound(E[i])
             /\ parsed[i].recorded = 0
             /\ Sound(E[i]) => TrueTo(endpoint, E[i], parsed[i].item)
  BY EntryMade
<1>2. Judged(parsed, E, n)
  <2>1. DOMAIN parsed = 1..n
    OBVIOUS
  <2> HIDE DEF parsed
  <2> QED BY <1>1, <2>1 DEF Judged
<1> HIDE DEF X, parsed, list
<1>3. /\ order \in Seq(SoundIn(E)) /\ list.items = Made(parsed, E)
      /\ Sifted(E) = [k \in DOMAIN order |-> E[order[k]]]
      /\ list.skipped = Total(Skips(E))
  BY <1>2, ParsedAlike DEF list, X
<1>4. list.items = [k \in DOMAIN order |-> parsed[order[k]].item]
  BY <1>3 DEF Made
<1> HIDE DEF order
<1>5. \A k \in DOMAIN order : order[k] \in 1..n /\ Sound(E[order[k]])
  <2>1. DOMAIN E = 1..n
    OBVIOUS
  <2> SUFFICES ASSUME NEW k \in DOMAIN order PROVE order[k] \in 1..n /\ Sound(E[order[k]])
    OBVIOUS
  <2>2. order[k] \in SoundIn(E)
    BY <1>3
  <2> QED BY <2>1, <2>2 DEF SoundIn
<1>6. DOMAIN order = 1..Len(order) /\ Len(order) \in Nat
  BY <1>3
<1>7. Len(list.items) = Len(order) /\ Len(Sifted(E)) = Len(order)
  BY <1>3, <1>4, <1>6
<1>8. \A k \in DOMAIN list.items : TrueTo(endpoint, Sifted(E)[k], list.items[k])
  BY <1>1, <1>3, <1>4, <1>5
<1> QED BY <1>3, <1>7, <1>8 DEF AllTrue, list, parsed

\* The objects that come are entries, and of nothing declared is the example odd.
LEMMA GoodIsEntry ==
    ASSUME NEW m \in DOMAIN Models
    PROVE  MayBeRefused(m) \subseteq Entries(m) /\ OneOdd(m) \subseteq Entries(m)
<1> DEFINE M == Models[m]
<1> HIDE DEF Models, Parsers
<1>1. ASSUME NEW f \in DOMAIN M PROVE Exemplar[M[f].type] \in Kinds
  <2>1. Fits(Parsers[m][f], M[f])
    BY TablesAgree DEF Agree
  <2>2. M[f].type \in {"datetime", "date", "int", "float", "name", "month", "str", "object",
                       "bool", "time"}
    BY <2>1 DEF Fits, MustBy, HasBy, OptionalBy
  <2> HIDE DEF M
  <2> QED BY <2>2 DEF Exemplar, Kinds, Strings
<1>2. Good(m) \in [DOMAIN M -> Kinds]
  BY <1>1 DEF Good
<1>3. ASSUME NEW F \in SUBSET DOMAIN M PROVE WithOneOdd(m, F) \subseteq [DOMAIN M -> Kinds]
  BY <1>2 DEF WithOneOdd
<1>4. MustFields(m) \in SUBSET DOMAIN M
  BY DEF MustFields
<1> HIDE DEF Entries, M
<1>5. WithOneOdd(m, MustFields(m)) \subseteq [DOMAIN M -> Kinds]
      /\ WithOneOdd(m, DOMAIN M) \subseteq [DOMAIN M -> Kinds]
  BY <1>3, <1>4
<1> QED BY <1>2, <1>5 DEF MayBeRefused, OneOdd, Entries, M

\* Of an entry without lists nothing is lost but the entry.
LEMMA NothingCarried ==
    ASSUME endpoint \in DOMAIN Models, NEW l, NEW n \in Nat, NEW X, Listed(l) \in [1..n -> X]
    PROVE  Lost(l) = Total(Skips(Listed(l))) /\ Lost(l) \in Int
<1> DEFINE E == Listed(l)
<1> HIDE DEF Models
<1>1. DOMAIN E = 1..n
  OBVIOUS
<1>2. \A i \in 1..n : Carried(E[i]) = <<>>
  BY DEF Carried
<1>3. ASSUME NEW i \in 1..n
      PROVE  Total([j \in DOMAIN Carried(E[i]) |-> LostNested(Carried(E[i])[j])]) = 0
  <2> DEFINE c == Carried(E[i])
  <2>1. c = <<>>
    BY <1>2
  <2> HIDE DEF c
  <2>2. [j \in DOMAIN c |-> LostNested(c[j])] = <<>>
    BY <2>1
  <2> QED BY <2>2, TotalOfNothing DEF c
<1>4. DeepLosses(l) = [i \in 1..n |-> IF Sound(E[i]) THEN 0 ELSE 1]
  BY <1>1, <1>3 DEF DeepLosses
<1>5. Skips(E) = [i \in 1..n |-> IF Sound(E[i]) THEN 0 ELSE 1]
  BY <1>1 DEF Skips
<1>6. Skips(E) \in [1..n -> Int]
  BY <1>5
<1>7. Total(Skips(E)) \in Int
  <2> DEFINE skips == Skips(E)
  <2>1. skips \in [1..n -> Int]
    BY <1>6
  <2> HIDE DEF skips
  <2>2. Total(skips) \in Int
    BY <2>1, TotalType
  <2> QED BY <2>2 DEF skips
<1> QED BY <1>4, <1>5, <1>7, LossesAre

\* The answer to objects of a model counts each that is refused and keeps the others.
LEMMA ObjectsAnswered ==
    ASSUME endpoint \in DOMAIN Models, raw \in Objects(endpoint),
           answer = IF endpoint \in ListedModels THEN ParseModelList ELSE ParseModelObject
    PROVE  SkippedCountsOnce /\ KeepsEverySound
<1> DEFINE l == raw[1]
           X == Entries(endpoint)
<1>0. MayBeRefused(endpoint) \subseteq X /\ OneOdd(endpoint) \subseteq X /\ NoObject \in X
  BY GoodIsEntry DEF Entries
<1>usage. endpoint # "usage"
  BY NoModelOfResponse DEF Responses
<1> HIDE DEF Models, ListedModels, X
<1>1. CASE endpoint \in ListedModels
  <2>1. raw = <<l>> /\ \E m \in Nat : l \in ListsOf(X, m)
    <3>1. CASE \E k \in ListsOf(MayBeRefused(endpoint), MaxEntries) : raw = <<k>>
      <4>1. raw = <<l>> /\ l \in ListsOf(MayBeRefused(endpoint), MaxEntries)
        BY <3>1
      <4>2. l \in ListsOf(X, MaxEntries)
        BY <1>0, <4>1, SkippedAssumption DEF ListsOf, SeqOf
      <4> QED BY <4>1, <4>2, SkippedAssumption
    <3>2. CASE \E e \in OneOdd(endpoint) : raw = <<<<e>>>>
      <4>1. PICK e \in OneOdd(endpoint) : raw = <<<<e>>>>
        BY <3>2
      <4>2. l = <<e>> /\ e \in X
        BY <1>0, <4>1
      <4>3. l \in [1..1 -> X] /\ 1 \in 0..1
        BY <4>2
      <4>4. l \in ListsOf(X, 1)
        BY <4>3 DEF ListsOf, SeqOf
      <4> QED BY <4>1, <4>4
    <3> QED BY <1>1, <3>1, <3>2 DEF Objects
  <2>2. PICK n \in Nat : Listed(l) \in [1..n -> X]
    BY <2>1, ListsAre
  <2> DEFINE E == Listed(l)
             list == ParseItemsCounted([i \in 1..n |-> ParseEntry(E[i])])
  <2>3. Each(l, ParseEntry) = [i \in 1..n |-> ParseEntry(E[i])]
    <3>1. DOMAIN E = 1..n
      BY <2>2
    <3>2. CASE l \in {Absent, NotAList}
      <4>1. E = <<>>
        BY <3>2 DEF Listed
      <4>2. 1..n = {}
        BY <3>1, <4>1
      <4> QED BY <3>2, <4>2 DEF Each
    <3>3. CASE l \notin {Absent, NotAList}
      BY <3>1, <3>3 DEF Each, Listed
    <3> QED BY <3>2, <3>3
  <2>4. answer = Answer(<<list.items>>, list.skipped)
    BY <1>1, <2>3 DEF ParseModelList
  <2> HIDE DEF list, l
  <2>5. AllTrue(list.items, Sifted(E)) /\ list.skipped = Total(Skips(E))
    <3> HIDE DEF E
    <3> QED BY <2>2, EntriesMade DEF X, list, E
  <2>6. Lost(l) = Total(Skips(E)) /\ Lost(l) \in Int
    BY <2>2, NothingCarried
  <2>7. Total([i \in DOMAIN raw |-> Lost(raw[i])]) = Lost(l)
    <3>1. [i \in DOMAIN raw |-> Lost(raw[i])] = <<Lost(l)>>
      BY <2>1
    <3>2. \A x \in Int : Total(<<x>>) = x
      BY TotalOfFew
    <3> QED BY <2>6, <3>1, <3>2
  <2>8. SkippedCountsOnce
    BY <1>1, <1>usage, <2>4, <2>5, <2>6, <2>7 DEF SkippedCountsOnce, Answer
  <2>9. KeepsEverySound
    BY <1>1, <2>4, <2>5 DEF KeepsEverySound, Answer, SoundOf, l
  <2> QED BY <2>8, <2>9
<1>2. CASE endpoint \notin ListedModels
  <2>1. PICK e \in X : raw = <<e>>
    BY <1>0, <1>2 DEF Objects
  <2>2. raw \in [1..1 -> X] /\ raw[1] = e
    BY <2>1
  <2> DEFINE list == ParseItemsCounted([i \in 1..1 |-> ParseEntry(raw[i])])
  <2>3. <<ParseEntry(raw[1])>> = [i \in 1..1 |-> ParseEntry(raw[i])]
    BY <2>2
  <2>4. answer = Answer(<<list.items>>, 0)
    BY <1>2, <2>3 DEF ParseModelObject
  <2> HIDE DEF list
  <2>5. AllTrue(list.items, Sifted(raw))
    BY <2>2, EntriesMade DEF X, list
  <2>6. SkippedCountsOnce
    BY <1>2, <1>usage, <2>4 DEF SkippedCountsOnce, Answer
  <2>7. KeepsEverySound
    BY <1>2, <2>4, <2>5 DEF KeepsEverySound, Answer
  <2> QED BY <2>6, <2>7
<1> QED BY <1>1, <1>2

LEMMA AnsweredRight == SkipInv => SkippedCountsOnce /\ KeepsEverySound
<1> SUFFICES ASSUME SkipInv PROVE SkippedCountsOnce /\ KeepsEverySound
  OBVIOUS
<1>1. CASE answer = Unparsed
  BY <1>1 DEF Unparsed, SkippedCountsOnce, KeepsEverySound
<1>2. CASE endpoint \in DOMAIN Responses /\ answer # Unparsed
  <2>1. raw \in Responses[endpoint] /\ answer = Parsing
    BY <1>2 DEF SkipInv
  <2> QED BY <1>2, <2>1, ResponsesAnswered
<1>3. CASE endpoint \in DOMAIN Models /\ answer # Unparsed
  <2> HIDE DEF Models, ListedModels
  <2>1. raw \in Objects(endpoint)
        /\ answer = IF endpoint \in ListedModels THEN ParseModelList ELSE ParseModelObject
    BY <1>3 DEF SkipInv
  <2> QED BY <1>3, <2>1, ObjectsAnswered
<1> QED BY <1>1, <1>2, <1>3 DEF SkipInv

\* skipped_entries counts every malformed entry of a response once, and none that
\* went under with its parent: for every response, however long its lists are.
THEOREM EachLossCounted == ResponseSpec => []SkippedCountsOnce
BY SkipInvHolds, AnsweredRight, PTL

\* A malformed entry costs itself and what it carries, and never a sibling; what
\* is made of the others has in every field but the unchecked ones a value of the
\* declared type, and in all of them the one that the wire denotes.
THEOREM SiblingsSurvive == ResponseSpec => []KeepsEverySound
BY SkipInvHolds, AnsweredRight, PTL
=============================================================================
