-------------------------- MODULE EpexPricesProofs --------------------------
(***************************************************************************)
(* What is proved of the day-ahead prices, for feeds of any length: the slots  *)
(* that parse_epex_prices makes are sound, and the consumer that sleeps from  *)
(* boundary to boundary misses nothing and does not spin.                     *)
(*                                                                         *)
(* Each loop of the parser is unfolded once (it is a function of how many     *)
(* items it has read) and then carries an invariant from item to item.        *)
(***************************************************************************)
EXTENDS EpexPrices, BoundedRecursion, FiniteSetTheorems

Entry == [start : Nat, price : Nat]
Feed == Seq(Nat \cup {Malformed})

\* How the three loops of parse_epex_prices go on from one item to the next.
ParsedRuns(f, g) ==
    /\ g[0] = <<>>
    /\ \A k \in 1..Len(f) :
          g[k] = IF f[k] = Malformed THEN g[k - 1]
                 ELSE Append(g[k - 1], [start |-> f[k], price |-> k])

SortRuns(entries, g) ==
    /\ g[0] = <<>>
    /\ \A k \in 1..Len(entries) :
          g[k] = InsertAt(g[k - 1], Place(g[k - 1], entries[k]), entries[k])

DropRuns(entries, g) ==
    /\ g[0] = <<>>
    /\ \A k \in 1..Len(entries) :
          g[k] = IF g[k - 1] # <<>> /\ Last(g[k - 1]).start = entries[k].start THEN g[k - 1]
                 ELSE Append(g[k - 1], entries[k])

LEMMA ParsedUnfolds ==
    ASSUME NEW f \in Feed
    PROVE  \E g : ParsedRuns(f, g) /\ Parsed(f) = g[Len(f)]
<1> DEFINE V == Seq(Entry)
           base == <<>>
           step(s, i) == IF f[i] = Malformed THEN s
                         ELSE Append(s, [start |-> f[i], price |-> i])
           Step == [p \in V \X (1..Len(f)) |-> step(p[1], p[2])]
           body(g) == [n \in 0..Len(f) |->
                        IF n = 0 THEN <<>>
                        ELSE IF f[n] = Malformed THEN g[n - 1]
                        ELSE Append(g[n - 1], [start |-> f[n], price |-> n])]
           run == CHOOSE g : g = body(g)
<1>1. Len(f) \in Nat /\ base \in V
  BY DEF Feed
<1>2. ASSUME NEW s \in V, NEW i \in 1..Len(f) PROVE step(s, i) \in V
  <2>1. f[i] = Malformed \/ f[i] \in Nat
    BY DEF Feed
  <2>2. CASE f[i] \in Nat /\ f[i] # Malformed
    <3>1. [start |-> f[i], price |-> i] \in Entry
      BY <2>2 DEF Entry
    <3> QED BY <2>2, <3>1
  <2> QED BY <2>1, <2>2
<1>3. Step \in [V \X (1..Len(f)) -> V]
  <2> HIDE DEF V, step
  <2> QED BY <1>2
<1>4. PICK g : Runs(g, Len(f), V, base, Step)
  <2> HIDE DEF Step, V, base
  <2> QED BY <1>1, <1>3, RecursionExists
<1>5. \A k \in 1..Len(f) : g[k] = step(g[k - 1], k)
  <2> HIDE DEF V, step
  <2>1. \A k \in 1..Len(f) : k - 1 \in 0..Len(f)
    BY <1>1
  <2> QED BY <1>4, <2>1 DEF Runs
<1>6. g = body(g)
  <2> HIDE DEF V
  <2>1. ASSUME NEW n \in 0..Len(f) PROVE g[n] = body(g)[n]
    <3>1. n = 0 \/ n \in 1..Len(f)
      BY <1>1
    <3> QED BY <1>4, <1>5, <3>1 DEF Runs
  <2> HIDE DEF step
  <2> QED BY <1>4, <2>1 DEF Runs
<1>7. run = body(run)
  <2> HIDE DEF body
  <2> QED BY <1>6
<1>8. ParsedRuns(f, run)
  <2> HIDE DEF run
  <2>1. run[0] = <<>>
    BY <1>7, <1>1
  <2>2. ASSUME NEW k \in 1..Len(f)
        PROVE  run[k] = step(run[k - 1], k)
    <3>1. k \in 0..Len(f) /\ k # 0 BY <1>1
    <3> QED BY <1>7, <3>1
  <2> QED BY <2>1, <2>2 DEF ParsedRuns
<1>9. Parsed(f) = run[Len(f)]
  BY DEF Parsed
<1> QED BY <1>8, <1>9


\* The entries read so far from a feed f: those of its first n that are usable,
\* in order, the unusable ones only counted.
Usable(f, n, p) ==
    /\ p \in Seq(Entry)
    /\ \A i \in DOMAIN p : p[i].price \in 1..n /\ p[i].start = f[p[i].price]
    /\ \A i, j \in DOMAIN p : i < j => p[i].price < p[j].price
    /\ \A k \in 1..n : f[k] # Malformed => \E i \in DOMAIN p : p[i].price = k
    /\ n - Len(p) = Cardinality({k \in 1..n : f[k] = Malformed})

LEMMA UsableNext ==
    ASSUME NEW f \in Feed, NEW k \in 1..Len(f), NEW p, Usable(f, k - 1, p)
    PROVE  Usable(f, k, IF f[k] = Malformed THEN p
                        ELSE Append(p, [start |-> f[k], price |-> k]))
<1> DEFINE bad(n) == {m \in 1..n : f[m] = Malformed}
<1>1. Len(f) \in Nat /\ k \in Nat /\ (f[k] = Malformed \/ f[k] \in Nat)
  BY DEF Feed
<1>2. IsFiniteSet(bad(k - 1)) /\ k \notin bad(k - 1)
  <2>1. IsFiniteSet(1..(k - 1)) /\ bad(k - 1) \subseteq 1..(k - 1)
    BY <1>1, FS_Interval
  <2> QED BY <2>1, <1>1, FS_Subset
<1>3. CASE f[k] = Malformed
  <2>1. bad(k) = bad(k - 1) \cup {k}
    BY <1>1, <1>3
  <2> HIDE DEF bad
  <2>2. Cardinality(bad(k)) = Cardinality(bad(k - 1)) + 1
    BY <1>2, <2>1, FS_AddElement
  <2>3. k - Len(p) = Cardinality(bad(k))
    BY <1>1, <2>2 DEF Usable, bad
  <2>4. \A m \in 1..k : m \in 1..(k - 1) \/ m = k
    BY <1>1
  <2>5. \A m \in 1..(k - 1) : m \in 1..k
    BY <1>1
  <2> QED BY <1>3, <2>3, <2>4, <2>5 DEF Usable, bad
<1>4. CASE f[k] # Malformed
  <2> DEFINE e == [start |-> f[k], price |-> k]
             q == Append(p, e)
  <2>1. e \in Entry /\ e.price = k /\ e.start = f[k]
    BY <1>1, <1>4 DEF Entry
  <2> HIDE DEF e
  <2>2. p \in Seq(Entry)
    BY DEF Usable
  <2>3. /\ q \in Seq(Entry) /\ Len(q) = Len(p) + 1 /\ q[Len(p) + 1] = e
        /\ \A i \in DOMAIN p : i \in DOMAIN q /\ q[i] = p[i]
        /\ \A i \in DOMAIN q : i \in DOMAIN p \/ i = Len(p) + 1
    BY <2>1, <2>2
  <2> HIDE DEF q
  <2>4. \A i \in DOMAIN q : q[i].price \in 1..k /\ q[i].start = f[q[i].price]
    BY <1>1, <2>1, <2>3 DEF Usable
  <2>5. ASSUME NEW i \in DOMAIN q, NEW j \in DOMAIN q, i < j PROVE q[i].price < q[j].price
    <3>1. i \in DOMAIN p /\ q[i].price = p[i].price /\ p[i].price \in 1..(k - 1)
      BY <2>2, <2>3, <2>5 DEF Usable
    <3>2. CASE j \in DOMAIN p
      BY <2>3, <2>5, <3>1, <3>2 DEF Usable
    <3>3. CASE j = Len(p) + 1
      BY <1>1, <2>1, <2>3, <3>1, <3>3
    <3> QED BY <2>3, <3>2, <3>3
  <2>6. ASSUME NEW m \in 1..k, f[m] # Malformed PROVE \E i \in DOMAIN q : q[i].price = m
    <3>1. CASE m = k
      <4>1. Len(p) + 1 \in DOMAIN q
        BY <2>2, <2>3
      <4> QED BY <2>1, <2>3, <3>1, <4>1
    <3>2. CASE m # k
      <4>1. m \in 1..(k - 1)
        BY <1>1, <3>2
      <4>2. PICK i \in DOMAIN p : p[i].price = m
        BY <2>6, <4>1 DEF Usable
      <4> QED BY <2>3, <4>2
    <3> QED BY <3>1, <3>2
  <2>7. bad(k) = bad(k - 1)
    BY <1>1, <1>4
  <2>8. k - Len(q) = Cardinality({m \in 1..k : f[m] = Malformed})
    <3>1. k - 1 - Len(p) = Cardinality(bad(k - 1))
      BY DEF Usable
    <3>2. Cardinality(bad(k - 1)) \in Nat
      BY <1>2, FS_CardinalityType
    <3>3. k - Len(q) = Cardinality(bad(k - 1))
      <4> HIDE DEF bad
      <4> QED BY <1>1, <2>2, <2>3, <3>1, <3>2
    <3> QED BY <2>7, <3>3
  <2>9. Usable(f, k, q)
    BY <2>3, <2>4, <2>5, <2>6, <2>8 DEF Usable
  <2> QED BY <1>4, <2>9 DEF q, e
<1> QED BY <1>3, <1>4

\* The first loop of parse_epex_prices.
LEMMA ParsedIsUsable ==
    ASSUME NEW f \in Feed
    PROVE  Usable(f, Len(f), Parsed(f))
<1>1. PICK g : ParsedRuns(f, g) /\ Parsed(f) = g[Len(f)]
  BY ParsedUnfolds
<1> DEFINE S == {n \in 0..Len(f) : Usable(f, n, g[n])}
<1>2. Len(f) \in Nat
  BY DEF Feed
<1>3. 0 \in S
  <2>1. g[0] = <<>>
    BY <1>1 DEF ParsedRuns
  <2>2. {k \in 1..0 : f[k] = Malformed} = {}
    OBVIOUS
  <2>3. Usable(f, 0, <<>>)
    <3>1. Cardinality({k \in 1..0 : f[k] = Malformed}) = 0
      BY <2>2, FS_EmptySet
    <3> QED BY <3>1 DEF Usable
  <2> QED BY <1>2, <2>1, <2>3
<1>4. ASSUME NEW k \in 1..Len(f), k - 1 \in S PROVE k \in S
  <2>1. Usable(f, k, g[k])
    BY <1>1, <1>4, UsableNext DEF ParsedRuns
  <2> QED BY <1>2, <2>1
<1>5. \A k \in 0..Len(f) : k \in S
  <2> HIDE DEF S
  <2> QED BY <1>2, <1>3, <1>4, InductionUpTo
<1>6. Len(f) \in S
  BY <1>2, <1>5
<1> QED BY <1>1, <1>6

-----------------------------------------------------------------------------
(* Sorting. *)

\* list.insert keeps what is there, in its order.
LEMMA InsertAtPlaces ==
    ASSUME NEW S, NEW s \in Seq(S), NEW i \in 1..(Len(s) + 1), NEW e \in S
    PROVE  /\ InsertAt(s, i, e) \in Seq(S) /\ Len(InsertAt(s, i, e)) = Len(s) + 1
           /\ \A j \in 1..(Len(s) + 1) :
                 InsertAt(s, i, e)[j] = IF j < i THEN s[j] ELSE IF j = i THEN e ELSE s[j - 1]
<1> DEFINE front == SubSeq(s, 1, i - 1)
           back == SubSeq(s, i, Len(s))
<1>1. /\ front \in Seq(S) /\ Len(front) = i - 1
      /\ \A j \in 1..(i - 1) : front[j] = s[j]
  OBVIOUS
<1>2. /\ back \in Seq(S) /\ Len(back) = Len(s) - i + 1
      /\ \A j \in 1..(Len(s) - i + 1) : back[j] = s[i + j - 1]
  OBVIOUS
<1> HIDE DEF front, back
<1> DEFINE left == front \o <<e>>
<1>3. /\ left \in Seq(S) /\ Len(left) = i
      /\ \A j \in 1..(i - 1) : left[j] = s[j]
      /\ left[i] = e
  BY <1>1
<1> HIDE DEF left
<1> DEFINE all == left \o back
<1>4. /\ all \in Seq(S) /\ Len(all) = Len(s) + 1
      /\ \A j \in 1..i : all[j] = left[j]
      /\ \A j \in (i + 1)..(Len(s) + 1) : all[j] = back[j - i]
  BY <1>2, <1>3
<1>5. InsertAt(s, i, e) = all
  BY DEF InsertAt, front, back, left
<1> HIDE DEF all
<1>6. ASSUME NEW j \in 1..(Len(s) + 1)
      PROVE  all[j] = IF j < i THEN s[j] ELSE IF j = i THEN e ELSE s[j - 1]
  <2>1. CASE j <= i
    BY <1>3, <1>4, <2>1
  <2>2. CASE j > i
    <3>1. j - i \in 1..(Len(s) - i + 1) /\ i + (j - i) - 1 = j - 1
      BY <2>2
    <3>2. back[j - i] = s[j - 1]
      BY <1>2, <3>1
    <3> QED BY <1>4, <2>2, <3>2
  <2> QED BY <2>1, <2>2
<1> QED BY <1>4, <1>5, <1>6

\* The place exists, and everything before it starts no later.
LEMMA PlaceExists ==
    ASSUME NEW s \in Seq(Entry), NEW e \in Entry
    PROVE  /\ Place(s, e) \in 1..(Len(s) + 1)
           /\ \A j \in DOMAIN s : j < Place(s, e) => s[j].start <= e.start
           /\ Place(s, e) \in DOMAIN s => s[Place(s, e)].start > e.start
<1> DEFINE later == {i \in DOMAIN s : s[i].start > e.start}
           C == later \cup {Len(s) + 1}
<1>1. C \subseteq 1..(Len(s) + 1) /\ Len(s) + 1 \in C
  OBVIOUS
<1>2. Place(s, e) \in C /\ \A n \in C : Place(s, e) <= n
  <2>1. Place(s, e) = Min(C)
    BY DEF Place
  <2>2. C \in SUBSET Nat /\ C # {}
    BY <1>1
  <2> HIDE DEF C
  <2> QED BY <2>1, <2>2, MinOfNaturals
<1>3. e.start \in Nat /\ \A j \in DOMAIN s : s[j].start \in Nat
  <2>1. \A x \in Entry : x.start \in Nat
    BY DEF Entry
  <2>2. \A j \in DOMAIN s : s[j] \in Entry
    OBVIOUS
  <2> QED BY <2>1, <2>2
<1>4. ASSUME NEW j \in DOMAIN s, j < Place(s, e) PROVE s[j].start <= e.start
  <2>1. j \notin later
    BY <1>1, <1>2, <1>4
  <2> QED BY <1>3, <2>1
<1>5. Place(s, e) \in DOMAIN s => Place(s, e) \in later
  BY <1>2
<1> HIDE DEF C
<1> QED BY <1>1, <1>2, <1>4, <1>5

LEMMA SortUnfolds ==
    ASSUME NEW entries \in Seq(Entry)
    PROVE  \E g : SortRuns(entries, g) /\ SortByStart(entries) = g[Len(entries)]
<1> DEFINE V == Seq(Entry)
           base == <<>>
           step(s, i) == InsertAt(s, Place(s, entries[i]), entries[i])
           Step == [p \in V \X (1..Len(entries)) |-> step(p[1], p[2])]
           body(g) == [n \in 0..Len(entries) |->
                        IF n = 0 THEN <<>>
                        ELSE InsertAt(g[n - 1], Place(g[n - 1], entries[n]), entries[n])]
           run == CHOOSE g : g = body(g)
<1>1. Len(entries) \in Nat /\ base \in V
  OBVIOUS
<1>2. ASSUME NEW s \in V, NEW i \in 1..Len(entries) PROVE step(s, i) \in V
  <2>1. entries[i] \in Entry
    OBVIOUS
  <2>2. Place(s, entries[i]) \in 1..(Len(s) + 1)
    BY <2>1, PlaceExists
  <2> QED BY <2>1, <2>2, InsertAtPlaces
<1>3. Step \in [V \X (1..Len(entries)) -> V]
  <2> HIDE DEF V, step
  <2> QED BY <1>2
<1>4. PICK g : Runs(g, Len(entries), V, base, Step)
  <2> HIDE DEF Step, V, base
  <2> QED BY <1>1, <1>3, RecursionExists
<1>5. \A k \in 1..Len(entries) : g[k] = step(g[k - 1], k)
  <2> HIDE DEF V, step
  <2>1. \A k \in 1..Len(entries) : k - 1 \in 0..Len(entries)
    BY <1>1
  <2> QED BY <1>4, <2>1 DEF Runs
<1>6. g = body(g)
  <2> HIDE DEF V
  <2>1. ASSUME NEW n \in 0..Len(entries) PROVE g[n] = body(g)[n]
    <3>1. n = 0 \/ n \in 1..Len(entries)
      BY <1>1
    <3> QED BY <1>4, <1>5, <3>1 DEF Runs
  <2> HIDE DEF step
  <2> QED BY <1>4, <2>1 DEF Runs
<1>7. run = body(run)
  <2> HIDE DEF body
  <2> QED BY <1>6
<1>8. SortRuns(entries, run)
  <2> HIDE DEF run
  <2>1. run[0] = <<>>
    BY <1>7, <1>1
  <2>2. ASSUME NEW k \in 1..Len(entries)
        PROVE  run[k] = step(run[k - 1], k)
    <3>1. k \in 0..Len(entries) /\ k # 0 BY <1>1
    <3> QED BY <1>7, <3>1
  <2> QED BY <2>1, <2>2 DEF SortRuns
<1>9. SortByStart(entries) = run[Len(entries)]
  BY DEF SortByStart
<1> QED BY <1>8, <1>9


\* What list.sort leaves of the first k entries: the same, in order of their
\* start, and of the feed among equal starts.
Before(d, e) == d.start < e.start \/ (d.start = e.start /\ d.price < e.price)

Sorted(entries, k, s) ==
    /\ s \in Seq(Entry) /\ Len(s) = k
    /\ \A i, j \in DOMAIN s : i < j => Before(s[i], s[j])
    /\ \A i \in DOMAIN s : \E m \in 1..k : s[i] = entries[m]
    /\ \A m \in 1..k : \E i \in DOMAIN s : s[i] = entries[m]

LEMMA SortedNext ==
    ASSUME NEW entries \in Seq(Entry),
           \A i, j \in DOMAIN entries : i < j => entries[i].price < entries[j].price,
           NEW k \in 1..Len(entries), NEW s, Sorted(entries, k - 1, s)
    PROVE  Sorted(entries, k, InsertAt(s, Place(s, entries[k]), entries[k]))
<1> DEFINE e == entries[k]
           at == Place(s, e)
           t == InsertAt(s, at, e)
<1>1. s \in Seq(Entry) /\ Len(s) = k - 1 /\ e \in Entry /\ Len(entries) \in Nat /\ k \in Nat
  BY DEF Sorted
<1>2. \A x \in Entry : x.start \in Nat /\ x.price \in Nat
  BY DEF Entry
<1>3. \A i \in DOMAIN s : s[i] \in Entry /\ s[i].price < e.price
  <2> TAKE i \in DOMAIN s
  <2>1. PICK m \in 1..(k - 1) : s[i] = entries[m]
    BY DEF Sorted
  <2>2. m \in DOMAIN entries /\ k \in DOMAIN entries /\ m < k
    BY <1>1
  <2> QED BY <1>1, <2>1, <2>2
<1>4. /\ at \in 1..k
      /\ \A j \in DOMAIN s : j < at => s[j].start <= e.start
      /\ at \in DOMAIN s => s[at].start > e.start
  <2> HIDE DEF e
  <2>1. Len(s) + 1 = k
    BY <1>1
  <2> QED BY <1>1, <2>1, PlaceExists
<1> HIDE DEF at
<1>5. /\ t \in Seq(Entry) /\ Len(t) = k
      /\ \A j \in 1..k : t[j] = IF j < at THEN s[j] ELSE IF j = at THEN e ELSE s[j - 1]
  <2>1. at \in 1..(Len(s) + 1) /\ Len(s) + 1 = k
    BY <1>1, <1>4
  <2> HIDE DEF e
  <2>2. /\ InsertAt(s, at, e) \in Seq(Entry) /\ Len(InsertAt(s, at, e)) = Len(s) + 1
        /\ \A j \in 1..(Len(s) + 1) : InsertAt(s, at, e)[j] =
              IF j < at THEN s[j] ELSE IF j = at THEN e ELSE s[j - 1]
    BY <1>1, <2>1, InsertAtPlaces
  <2> QED BY <2>1, <2>2
<1> HIDE DEF t
<1>6. \A j \in DOMAIN s : j >= at => s[j].start > e.start
  <2> TAKE j \in DOMAIN s
  <2> HAVE j >= at
  <2>1. at \in DOMAIN s
    BY <1>1, <1>4
  <2>2. at = j \/ Before(s[at], s[j])
    BY <1>1, <1>4, <2>1 DEF Sorted
  <2>3. s[at].start \in Nat /\ s[j].start \in Nat /\ e.start \in Nat
    BY <1>1, <1>2, <1>3, <2>1
  <2> QED BY <1>4, <2>1, <2>2, <2>3 DEF Before
<1>7. ASSUME NEW i \in DOMAIN t, NEW j \in DOMAIN t, i < j PROVE Before(t[i], t[j])
  <2>1. i \in 1..k /\ j \in 1..k
    BY <1>5
  <2>2. \A x, y \in DOMAIN s : x < y => Before(s[x], s[y])
    BY DEF Sorted
  <2>3. \A x \in 1..(k - 1) : x \in DOMAIN s
    BY <1>1
  <2>4. CASE j < at
    BY <1>1, <1>4, <1>5, <1>7, <2>1, <2>2, <2>3, <2>4
  <2>5. CASE j = at
    <3>1. i \in DOMAIN s /\ t[i] = s[i] /\ t[j] = e /\ s[i].start <= e.start
      BY <1>1, <1>4, <1>5, <1>7, <2>1, <2>3, <2>5
    <3> QED BY <1>1, <1>2, <1>3, <3>1 DEF Before
  <2>6. CASE j > at /\ i = at
    <3>1. j - 1 \in DOMAIN s /\ t[i] = e /\ t[j] = s[j - 1] /\ j - 1 >= at
      BY <1>1, <1>4, <1>5, <2>1, <2>3, <2>6
    <3> QED BY <1>6, <3>1 DEF Before
  <2>7. CASE j > at /\ i > at
    <3>1. j - 1 \in DOMAIN s /\ i - 1 \in DOMAIN s /\ t[i] = s[i - 1] /\ t[j] = s[j - 1]
      BY <1>1, <1>4, <1>5, <2>1, <2>3, <2>7
    <3>2. i - 1 < j - 1
      BY <1>7, <2>1
    <3> QED BY <2>2, <3>1, <3>2
  <2>8. CASE j > at /\ i < at
    <3>1. j - 1 \in DOMAIN s /\ i \in DOMAIN s /\ t[i] = s[i] /\ t[j] = s[j - 1] /\ i < j - 1
      BY <1>1, <1>4, <1>5, <2>1, <2>3, <2>8
    <3> QED BY <2>2, <3>1
  <2> QED BY <1>4, <2>1, <2>4, <2>5, <2>6, <2>7, <2>8
<1>8. ASSUME NEW i \in DOMAIN t PROVE \E m \in 1..k : t[i] = entries[m]
  <2>1. i \in 1..k
    BY <1>5
  <2>2. t[i] = e \/ \E j \in DOMAIN s : t[i] = s[j]
    BY <1>1, <1>4, <1>5, <2>1
  <2>3. CASE t[i] = e
    BY <1>1, <2>3
  <2>4. ASSUME NEW j \in DOMAIN s, t[i] = s[j] PROVE \E m \in 1..k : t[i] = entries[m]
    <3>1. PICK m \in 1..(k - 1) : s[j] = entries[m]
      BY DEF Sorted
    <3>2. m \in 1..k
      BY <1>1
    <3> QED BY <2>4, <3>1, <3>2
  <2> QED BY <2>2, <2>3, <2>4
<1>9. ASSUME NEW m \in 1..k PROVE \E i \in DOMAIN t : t[i] = entries[m]
  <2>1. DOMAIN t = 1..k
    BY <1>5
  <2>2. CASE m = k
    <3>1. at \in DOMAIN t /\ t[at] = e
      BY <1>4, <1>5, <2>1
    <3> QED BY <2>2, <3>1
  <2>3. CASE m # k
    <3>1. m \in 1..(k - 1)
      BY <1>1, <2>3
    <3>2. PICK j \in DOMAIN s : s[j] = entries[m]
      BY <3>1 DEF Sorted
    <3>3. j \in 1..(k - 1)
      BY <1>1
    <3>4. CASE j < at
      BY <1>1, <1>4, <1>5, <2>1, <3>2, <3>3, <3>4
    <3>5. CASE j >= at
      <4>1. j + 1 \in 1..k /\ t[j + 1] = s[j]
        BY <1>1, <1>4, <1>5, <3>3, <3>5
      <4> QED BY <2>1, <3>2, <4>1
    <3> QED BY <1>4, <3>3, <3>4, <3>5
  <2> QED BY <2>2, <2>3
<1>10. Sorted(entries, k, t)
  BY <1>5, <1>7, <1>8, <1>9 DEF Sorted
<1> QED BY <1>10 DEF t, at

\* payload.sort(key=...) of the parsed entries.
LEMMA SortByStartSorts ==
    ASSUME NEW entries \in Seq(Entry),
           \A i, j \in DOMAIN entries : i < j => entries[i].price < entries[j].price
    PROVE  Sorted(entries, Len(entries), SortByStart(entries))
<1>1. PICK g : SortRuns(entries, g) /\ SortByStart(entries) = g[Len(entries)]
  BY SortUnfolds
<1> DEFINE S == {n \in 0..Len(entries) : Sorted(entries, n, g[n])}
<1>2. Len(entries) \in Nat
  OBVIOUS
<1>3. 0 \in S
  <2>1. Sorted(entries, 0, <<>>)
    BY DEF Sorted
  <2> QED BY <1>1, <1>2, <2>1 DEF SortRuns
<1>4. ASSUME NEW k \in 1..Len(entries), k - 1 \in S PROVE k \in S
  <2>1. Sorted(entries, k, g[k])
    BY <1>1, <1>4, SortedNext DEF SortRuns
  <2> QED BY <1>2, <2>1
<1>5. \A k \in 0..Len(entries) : k \in S
  <2> HIDE DEF S
  <2> QED BY <1>2, <1>3, <1>4, InductionUpTo
<1>6. Len(entries) \in S
  BY <1>2, <1>5
<1> QED BY <1>1, <1>6

-----------------------------------------------------------------------------

LEMMA DropUnfolds ==
    ASSUME NEW entries \in Seq(Entry)
    PROVE  \E g : DropRuns(entries, g) /\ DropDuplicates(entries) = g[Len(entries)]
<1> DEFINE V == Seq(Entry)
           base == <<>>
           step(s, i) == IF s # <<>> /\ Last(s).start = entries[i].start THEN s
                         ELSE Append(s, entries[i])
           Step == [p \in V \X (1..Len(entries)) |-> step(p[1], p[2])]
           body(g) == [n \in 0..Len(entries) |->
                        IF n = 0 THEN <<>>
                        ELSE IF g[n - 1] # <<>> /\ Last(g[n - 1]).start = entries[n].start THEN g[n - 1]
                        ELSE Append(g[n - 1], entries[n])]
           run == CHOOSE g : g = body(g)
<1>1. Len(entries) \in Nat /\ base \in V
  OBVIOUS
<1>2. ASSUME NEW s \in V, NEW i \in 1..Len(entries) PROVE step(s, i) \in V
  <2>1. entries[i] \in Entry
    OBVIOUS
  <2> QED BY <2>1
<1>3. Step \in [V \X (1..Len(entries)) -> V]
  <2> HIDE DEF V, step
  <2> QED BY <1>2
<1>4. PICK g : Runs(g, Len(entries), V, base, Step)
  <2> HIDE DEF Step, V, base
  <2> QED BY <1>1, <1>3, RecursionExists
<1>5. \A k \in 1..Len(entries) : g[k] = step(g[k - 1], k)
  <2> HIDE DEF V, step
  <2>1. \A k \in 1..Len(entries) : k - 1 \in 0..Len(entries)
    BY <1>1
  <2> QED BY <1>4, <2>1 DEF Runs
<1>6. g = body(g)
  <2> HIDE DEF V
  <2>1. ASSUME NEW n \in 0..Len(entries) PROVE g[n] = body(g)[n]
    <3>1. n = 0 \/ n \in 1..Len(entries)
      BY <1>1
    <3> QED BY <1>4, <1>5, <3>1 DEF Runs
  <2> HIDE DEF step
  <2> QED BY <1>4, <2>1 DEF Runs
<1>7. run = body(run)
  <2> HIDE DEF body
  <2> QED BY <1>6
<1>8. DropRuns(entries, run)
  <2> HIDE DEF run
  <2>1. run[0] = <<>>
    BY <1>7, <1>1
  <2>2. ASSUME NEW k \in 1..Len(entries)
        PROVE  run[k] = step(run[k - 1], k)
    <3>1. k \in 0..Len(entries) /\ k # 0 BY <1>1
    <3> QED BY <1>7, <3>1
  <2> QED BY <2>1, <2>2 DEF DropRuns
<1>9. DropDuplicates(entries) = run[Len(entries)]
  BY DEF DropDuplicates
<1> QED BY <1>8, <1>9

\* What the last loop keeps of the first k of the sorted entries: one of each
\* start, the first.
Kept(entries, k, d) ==
    /\ d \in Seq(Entry)
    /\ \A i, j \in DOMAIN d : i < j => d[i].start < d[j].start
    /\ \A i \in DOMAIN d : \E m \in 1..k : d[i] = entries[m]
    /\ \A m \in 1..k : \E i \in DOMAIN d :
          d[i].start = entries[m].start /\ d[i].price <= entries[m].price
    /\ k > 0 => d # <<>> /\ Last(d).start = entries[k].start

LEMMA KeptNext ==
    ASSUME NEW entries \in Seq(Entry),
           \A i, j \in DOMAIN entries : i < j => Before(entries[i], entries[j]),
           NEW k \in 1..Len(entries), NEW d, Kept(entries, k - 1, d)
    PROVE  Kept(entries, k, IF d # <<>> /\ Last(d).start = entries[k].start THEN d
                            ELSE Append(d, entries[k]))
<1> DEFINE e == entries[k]
<1>1. /\ d \in Seq(Entry) /\ Len(d) \in Nat /\ e \in Entry /\ Len(entries) \in Nat /\ k \in Nat
      /\ \A m \in 1..k : m \in DOMAIN entries /\ entries[m] \in Entry
  BY DEF Kept
<1>2. \A x \in Entry : x.start \in Nat /\ x.price \in Nat
  BY DEF Entry
<1>3. \A m \in 1..k : m \in 1..(k - 1) \/ m = k
  BY <1>1
<1>4. \A m \in 1..(k - 1) : m \in 1..k /\ Before(entries[m], e)
  BY <1>1
<1>5. d # <<>> => Len(d) \in DOMAIN d /\ d[Len(d)] = Last(d)
  BY <1>1 DEF Last
<1>6. CASE d # <<>> /\ Last(d).start = e.start
  <2>1. PICK m \in 1..(k - 1) : Last(d) = entries[m]
    BY <1>5, <1>6 DEF Kept
  <2>2. Last(d).price <= e.price
    BY <1>1, <1>2, <1>4, <1>6, <2>1 DEF Before
  <2>3. \A n \in 1..k : \E i \in DOMAIN d :
          d[i].start = entries[n].start /\ d[i].price <= entries[n].price
    BY <1>3, <1>5, <1>6, <2>2 DEF Kept
  <2>4. \A i \in DOMAIN d : \E n \in 1..k : d[i] = entries[n]
    BY <1>4 DEF Kept
  <2>5. Kept(entries, k, d)
    BY <1>6, <2>3, <2>4 DEF Kept
  <2> QED BY <1>6, <2>5
<1>7. CASE ~(d # <<>> /\ Last(d).start = e.start)
  <2> DEFINE q == Append(d, e)
  <2>1. /\ q \in Seq(Entry) /\ Len(q) = Len(d) + 1 /\ q[Len(d) + 1] = e
        /\ \A i \in DOMAIN d : i \in DOMAIN q /\ q[i] = d[i]
        /\ \A i \in DOMAIN q : i \in DOMAIN d \/ i = Len(d) + 1
        /\ Len(d) + 1 \in DOMAIN q
    <3> HIDE DEF e
    <3> QED BY <1>1
  <2> HIDE DEF q
  <2>2. ASSUME NEW i \in DOMAIN d PROVE d[i].start < e.start
    <3>1. Last(d).start = entries[k - 1].start /\ k - 1 \in 1..(k - 1)
      <4>1. PICK m \in 1..(k - 1) : d[i] = entries[m]
        BY DEF Kept
      <4>2. k - 1 > 0
        BY <1>1
      <4> QED BY <1>1, <4>2 DEF Kept
    <3>2. Before(entries[k - 1], e) /\ entries[k - 1] \in Entry
      BY <1>1, <1>4, <3>1
    <3>3. d # <<>> /\ i \in 1..Len(d)
      BY <1>1
    <3>4. Last(d).start # e.start /\ Last(d).start < e.start
      BY <1>2, <1>7, <3>1, <3>2, <3>3 DEF Before
    <3>5. i = Len(d) \/ d[i].start < d[Len(d)].start
      <4>1. \A m, n \in DOMAIN d : m < n => d[m].start < d[n].start
        BY DEF Kept
      <4>2. Len(d) \in DOMAIN d /\ (i = Len(d) \/ i < Len(d))
        BY <1>1, <1>5, <3>3
      <4> QED BY <4>1, <4>2
    <3>6. d[i].start \in Nat /\ Last(d).start \in Nat /\ e.start \in Nat
      BY <1>1, <1>2, <1>5, <3>3
    <3> QED BY <1>5, <3>3, <3>4, <3>5, <3>6
  <2>3. ASSUME NEW i \in DOMAIN q, NEW j \in DOMAIN q, i < j PROVE q[i].start < q[j].start
    <3>1. i \in DOMAIN d
      BY <1>1, <2>1, <2>3
    <3>2. CASE j \in DOMAIN d
      BY <2>1, <2>3, <3>1, <3>2 DEF Kept
    <3>3. CASE j = Len(d) + 1
      BY <2>1, <2>2, <3>1, <3>3
    <3> QED BY <2>1, <3>2, <3>3
  <2>4. \A i \in DOMAIN q : \E m \in 1..k : q[i] = entries[m]
    <3> TAKE i \in DOMAIN q
    <3>1. CASE i \in DOMAIN d
      <4>1. PICK m \in 1..(k - 1) : d[i] = entries[m]
        BY <3>1 DEF Kept
      <4> QED BY <1>4, <2>1, <3>1, <4>1
    <3>2. CASE i = Len(d) + 1
      BY <1>1, <2>1, <3>2
    <3> QED BY <2>1, <3>1, <3>2
  <2>5. ASSUME NEW m \in 1..k
        PROVE  \E i \in DOMAIN q : q[i].start = entries[m].start /\ q[i].price <= entries[m].price
    <3>1. CASE m = k
      BY <1>1, <1>2, <2>1, <3>1
    <3>2. CASE m \in 1..(k - 1)
      BY <2>1, <3>2 DEF Kept
    <3> QED BY <1>3, <3>1, <3>2
  <2>6. q # <<>> /\ Last(q).start = entries[k].start
    BY <1>1, <2>1 DEF Last
  <2>7. Kept(entries, k, q)
    BY <2>1, <2>3, <2>4, <2>5, <2>6 DEF Kept
  <2> QED BY <1>7, <2>7 DEF q
<1> QED BY <1>6, <1>7

\* The loop that drops entries whose start has been seen.
LEMMA DropDuplicatesKeepsFirst ==
    ASSUME NEW entries \in Seq(Entry),
           \A i, j \in DOMAIN entries : i < j => Before(entries[i], entries[j])
    PROVE  Kept(entries, Len(entries), DropDuplicates(entries))
<1>1. PICK g : DropRuns(entries, g) /\ DropDuplicates(entries) = g[Len(entries)]
  BY DropUnfolds
<1> DEFINE S == {n \in 0..Len(entries) : Kept(entries, n, g[n])}
<1>2. Len(entries) \in Nat
  OBVIOUS
<1>3. 0 \in S
  <2>1. Kept(entries, 0, <<>>)
    BY DEF Kept
  <2> QED BY <1>1, <1>2, <2>1 DEF DropRuns
<1>4. ASSUME NEW k \in 1..Len(entries), k - 1 \in S PROVE k \in S
  <2>1. Kept(entries, k, g[k])
    BY <1>1, <1>4, KeptNext DEF DropRuns
  <2> QED BY <1>2, <2>1
<1>5. \A k \in 0..Len(entries) : k \in S
  <2> HIDE DEF S
  <2> QED BY <1>2, <1>3, <1>4, InductionUpTo
<1>6. Len(entries) \in S
  BY <1>2, <1>5
<1> QED BY <1>1, <1>6

-----------------------------------------------------------------------------
(* The spacing and the ends.                                               *)

\* Counter.most_common(1) of a list that is not empty is a value of the list, and
\* none of the list is more frequent: some value is the most frequent, since none
\* occurs more often than the list is long.
LEMMA MostCommonIsListed ==
    ASSUME NEW s \in Seq(Nat), s # <<>>
    PROVE  \E i \in DOMAIN s :
              /\ MostCommon(s) = s[i]
              /\ \A j \in DOMAIN s : Cardinality({k \in DOMAIN s : s[k] = s[j]})
                                       <= Cardinality({k \in DOMAIN s : s[k] = s[i]})
<1> DEFINE Count(v) == Cardinality({i \in DOMAIN s : s[i] = v})
           counts == {Count(s[i]) : i \in DOMAIN s}
           best == {i \in DOMAIN s : \A j \in DOMAIN s : Count(s[j]) <= Count(s[i])}
<1>1. Len(s) \in Nat /\ DOMAIN s = 1..Len(s) /\ 1 \in DOMAIN s
  OBVIOUS
<1>2. \A v : Count(v) \in 0..Len(s)
  <2> TAKE v
  <2>1. IsFiniteSet(1..Len(s)) /\ Cardinality(1..Len(s)) = Len(s)
    BY <1>1, FS_Interval
  <2>2. {i \in DOMAIN s : s[i] = v} \subseteq 1..Len(s)
    BY <1>1
  <2>3. /\ IsFiniteSet({i \in DOMAIN s : s[i] = v})
        /\ Cardinality({i \in DOMAIN s : s[i] = v}) <= Cardinality(1..Len(s))
    BY <2>1, <2>2, FS_Subset
  <2>4. Count(v) \in Nat
    BY <2>3, FS_CardinalityType
  <2> QED BY <1>1, <2>1, <2>3, <2>4
<1> HIDE DEF Count
<1>3. counts \in SUBSET (0..Len(s)) /\ counts # {} /\ \A i \in DOMAIN s : Count(s[i]) \in counts
  BY <1>1, <1>2
<1>4. PICK c \in counts : \A n \in counts : n <= c
  <2> HIDE DEF counts
  <2> QED BY <1>1, <1>3, GreatestNatural
<1>5. PICK i \in DOMAIN s : Count(s[i]) = c
  BY <1>4
<1>6. best \in SUBSET Nat /\ best # {}
  <2>1. i \in best
    BY <1>3, <1>4, <1>5
  <2> QED BY <1>1, <2>1
<1>7. Min(best) \in best
  <2> HIDE DEF best
  <2> QED BY <1>6, MinOfNaturals
<1>8. MostCommon(s) = s[Min(best)]
  BY DEF MostCommon, Count
<1> QED BY <1>7, <1>8 DEF Count

\* Slots between instants, each with a length.
Slot == {s \in [start : Nat, end : Nat, price : Nat] : s.start < s.end}

\* Neighbouring entries are some length apart.
LEMMA GapsAreLengths ==
    ASSUME NEW entries \in Seq(Entry), ~(Len(entries) < 2),
           \A i, j \in DOMAIN entries : i < j => entries[i].start < entries[j].start
    PROVE  LET gaps == [i \in 1..(Len(entries) - 1) |-> entries[i + 1].start - entries[i].start]
           IN  gaps \in Seq(Nat) /\ gaps # <<>> /\ \A i \in DOMAIN gaps : gaps[i] \in Nat \ {0}
<1> DEFINE gaps == [i \in 1..(Len(entries) - 1) |-> entries[i + 1].start - entries[i].start]
<1>1. \A i \in 1..(Len(entries) - 1) : gaps[i] \in Nat \ {0}
  <2> TAKE i \in 1..(Len(entries) - 1)
  <2>1. i \in DOMAIN entries /\ i + 1 \in DOMAIN entries /\ i < i + 1
    OBVIOUS
  <2>2. entries[i] \in Entry /\ entries[i + 1] \in Entry
    BY <2>1
  <2>3. entries[i].start \in Nat /\ entries[i + 1].start \in Nat
    BY <2>2 DEF Entry
  <2> QED BY <2>1, <2>3
<1>2. Len(entries) - 1 \in Nat /\ 1 \in 1..(Len(entries) - 1)
  OBVIOUS
<1>3. DOMAIN gaps = 1..(Len(entries) - 1) /\ gaps = [i \in 1..(Len(entries) - 1) |-> gaps[i]]
  OBVIOUS
<1> HIDE DEF gaps
<1>4. gaps \in Seq(Nat)
  BY <1>1, <1>2, <1>3
<1>5. gaps # <<>>
  <2>1. 1 \in DOMAIN gaps
    BY <1>2, <1>3
  <2> QED BY <2>1
<1>6. gaps \in Seq(Nat) /\ gaps # <<>> /\ \A i \in DOMAIN gaps : gaps[i] \in Nat \ {0}
  BY <1>1, <1>3, <1>4, <1>5
<1> QED BY <1>6 DEF gaps

\* The spacing is a length, whether the feed shows it or the caller asked for it.
LEMMA ObservedIsALength ==
    ASSUME NEW entries \in Seq(Entry), NEW granularity \in Nat \ {0},
           \A i, j \in DOMAIN entries : i < j => entries[i].start < entries[j].start
    PROVE  Observed(entries, granularity) \in Nat \ {0}
<1> DEFINE gaps == [i \in 1..(Len(entries) - 1) |-> entries[i + 1].start - entries[i].start]
<1>1. CASE Len(entries) < 2
  BY <1>1 DEF Observed
<1>2. CASE ~(Len(entries) < 2)
  <2>1. gaps \in Seq(Nat) /\ gaps # <<>> /\ \A i \in DOMAIN gaps : gaps[i] \in Nat \ {0}
    BY <1>2, GapsAreLengths
  <2>2. Observed(entries, granularity) = MostCommon(gaps)
    BY <1>2 DEF Observed
  <2> HIDE DEF gaps
  <2>3. PICK i \in DOMAIN gaps : MostCommon(gaps) = gaps[i]
    BY <2>1, MostCommonIsListed
  <2> QED BY <2>1, <2>2, <2>3
<1> QED BY <1>1, <1>2

\* Every slot ends after it starts and not after the next one starts.
LEMMA EndOfIsBetween ==
    ASSUME NEW entries \in Seq(Entry), NEW observed \in Nat \ {0},
           \A i, j \in DOMAIN entries : i < j => entries[i].start < entries[j].start,
           NEW i \in DOMAIN entries
    PROVE  /\ EndOf(entries, observed, i) \in Nat
           /\ entries[i].start < EndOf(entries, observed, i)
           /\ i < Len(entries) => EndOf(entries, observed, i) <= entries[i + 1].start
           /\ EndOf(entries, observed, i) =
                 IF i < Len(entries) /\ entries[i + 1].start < entries[i].start + observed
                 THEN entries[i + 1].start ELSE entries[i].start + observed
<1>1. entries[i].start \in Nat
  <2>1. entries[i] \in Entry
    OBVIOUS
  <2> QED BY <2>1 DEF Entry
<1>2. CASE i < Len(entries)
  <2> DEFINE ends == {entries[i + 1].start, entries[i].start + observed}
  <2>1. i + 1 \in DOMAIN entries /\ i < i + 1
    BY <1>2
  <2>2. entries[i + 1].start \in Nat /\ entries[i].start < entries[i + 1].start
    <3>1. entries[i + 1] \in Entry
      BY <2>1
    <3> QED BY <2>1, <3>1 DEF Entry
  <2>3. ends \in SUBSET Nat /\ ends # {}
    BY <1>1, <2>2
  <2>4. Min(ends) \in ends /\ \A n \in ends : Min(ends) <= n
    <3> HIDE DEF ends
    <3> QED BY <2>3, MinOfNaturals
  <2>5. EndOf(entries, observed, i) = Min(ends)
    BY <1>2 DEF EndOf
  <2>6. /\ Min(ends) \in {entries[i + 1].start, entries[i].start + observed}
        /\ Min(ends) <= entries[i + 1].start
        /\ Min(ends) <= entries[i].start + observed
    <3>1. entries[i + 1].start \in ends /\ entries[i].start + observed \in ends
      OBVIOUS
    <3> QED BY <2>4, <3>1
  <2> HIDE DEF ends
  <2>7. CASE entries[i + 1].start < entries[i].start + observed
    <3>1. Min(ends) = entries[i + 1].start
      BY <1>1, <2>2, <2>6, <2>7
    <3> QED BY <1>1, <1>2, <2>2, <2>5, <2>7, <3>1
  <2>8. CASE ~(entries[i + 1].start < entries[i].start + observed)
    <3>1. Min(ends) = entries[i].start + observed
      BY <1>1, <2>2, <2>6, <2>8
    <3> QED BY <1>1, <1>2, <2>2, <2>5, <2>8, <3>1
  <2> QED BY <2>7, <2>8
<1>3. CASE ~(i < Len(entries))
  BY <1>1, <1>3 DEF EndOf
<1> QED BY <1>2, <1>3

\* The spacing is one that no other between neighbours occurs more often than, told
\* from the slots, which start where the entries do.
LEMMA ObservedIsCommon ==
    ASSUME NEW entries \in Seq(Entry), NEW granularity \in Nat \ {0},
           \A i, j \in DOMAIN entries : i < j => entries[i].start < entries[j].start,
           NEW slots \in Seq(Slot), Len(slots) = Len(entries),
           \A i \in 1..Len(entries) : slots[i].start = entries[i].start
    PROVE  Observed(entries, granularity) \in CommonSpacings(slots, granularity)
<1> DEFINE pairs == 1..(Len(slots) - 1)
           gaps == [i \in 1..(Len(entries) - 1) |-> entries[i + 1].start - entries[i].start]
           Gap(i) == slots[i + 1].start - slots[i].start
           Often(i) == Cardinality({j \in pairs : Gap(j) = Gap(i)})
<1>1. CASE Len(entries) < 2
  BY <1>1 DEF Observed, CommonSpacings
<1>2. CASE ~(Len(entries) < 2)
  <2>1. DOMAIN gaps = pairs /\ \A i \in pairs : gaps[i] = Gap(i)
    OBVIOUS
  <2>2. gaps \in Seq(Nat) /\ gaps # <<>>
    BY <1>2, GapsAreLengths
  <2>3. Observed(entries, granularity) = MostCommon(gaps)
    BY <1>2 DEF Observed
  <2> HIDE DEF gaps
  <2>4. PICK i \in DOMAIN gaps :
           /\ MostCommon(gaps) = gaps[i]
           /\ \A j \in DOMAIN gaps : Cardinality({k \in DOMAIN gaps : gaps[k] = gaps[j]})
                                       <= Cardinality({k \in DOMAIN gaps : gaps[k] = gaps[i]})
    BY <2>2, MostCommonIsListed
  <2>5. ASSUME NEW j \in pairs
        PROVE  Cardinality({k \in DOMAIN gaps : gaps[k] = gaps[j]}) = Often(j)
    <3>1. {k \in DOMAIN gaps : gaps[k] = gaps[j]} = {k \in pairs : Gap(k) = Gap(j)}
      <4> HIDE DEF pairs, Gap
      <4> QED BY <2>1
    <3> QED BY <3>1
  <2> HIDE DEF pairs, Gap, Often
  <2>6. i \in pairs /\ \A k \in pairs : Often(k) <= Often(i)
    BY <2>1, <2>4, <2>5
  <2>7. CommonSpacings(slots, granularity) =
           {Gap(j) : j \in {l \in pairs : \A k \in pairs : Often(k) <= Often(l)}}
    BY <1>2 DEF CommonSpacings, pairs, Gap, Often
  <2> QED BY <2>1, <2>3, <2>4, <2>6, <2>7
<1> QED BY <1>1, <1>2

\* What SlotsAreSound says of a feed f and the payload p parsed from it.
Sound(f, granularity, p) ==
    /\ \A i \in DOMAIN p.slots : p.slots[i].start < p.slots[i].end
    /\ \A i \in 1..(Len(p.slots) - 1) : p.slots[i].end <= p.slots[i + 1].start
    /\ {p.slots[i].start : i \in DOMAIN p.slots} = ToSet(f) \ {Malformed}
    /\ \A i \in DOMAIN p.slots :
          p.slots[i].price = Min({k \in DOMAIN f : f[k] = p.slots[i].start})
    /\ \E length \in CommonSpacings(p.slots, granularity) : \A i \in DOMAIN p.slots :
          p.slots[i].end =
              IF i < Len(p.slots) /\ p.slots[i + 1].start < p.slots[i].start + length
              THEN p.slots[i + 1].start ELSE p.slots[i].start + length
    /\ p.skipped = Cardinality({k \in DOMAIN f : f[k] = Malformed})

\* parse_epex_prices, whatever the order, the gaps and the repetitions of the
\* feed: the slots have a length, follow each other and do not overlap; there is
\* one for every start that the feed names usably, with the price the feed lists
\* first for it; and every entry that cannot be used is counted.
THEOREM ParsedSlotsAreSound ==
    ASSUME NEW f \in Feed, NEW granularity \in Nat \ {0}
    PROVE  /\ ParseEpexPrices(f, granularity).slots \in Seq(Slot)
           /\ Sound(f, granularity, ParseEpexPrices(f, granularity))
<1> DEFINE parsed == Parsed(f)
           sorted == SortByStart(parsed)
           entries == DropDuplicates(sorted)
           observed == Observed(entries, granularity)
           slots == [i \in DOMAIN entries |->
                       [start |-> entries[i].start, end |-> EndOf(entries, observed, i),
                        price |-> entries[i].price]]
<1>1. Usable(f, Len(f), parsed)
  BY ParsedIsUsable
<1>2. ParseEpexPrices(f, granularity) = [slots |-> slots, skipped |-> Len(f) - Len(parsed)]
  BY DEF ParseEpexPrices
<1> HIDE DEF parsed
<1>3. Sorted(parsed, Len(parsed), sorted)
  BY <1>1, SortByStartSorts DEF Usable
<1> HIDE DEF sorted
<1>4. Kept(sorted, Len(sorted), entries)
  BY <1>3, DropDuplicatesKeepsFirst DEF Sorted
<1> HIDE DEF entries
<1>5. /\ entries \in Seq(Entry) /\ DOMAIN entries = 1..Len(entries) /\ Len(entries) \in Nat
      /\ \A i, j \in DOMAIN entries : i < j => entries[i].start < entries[j].start
  BY <1>4 DEF Kept
<1>6. observed \in Nat \ {0}
  BY <1>5, ObservedIsALength
<1> HIDE DEF observed
<1>7. \A i \in DOMAIN entries : /\ EndOf(entries, observed, i) \in Nat
                                /\ entries[i].start < EndOf(entries, observed, i)
                                /\ i < Len(entries) => EndOf(entries, observed, i) <= entries[i + 1].start
                                /\ EndOf(entries, observed, i) =
                                      IF i < Len(entries) /\ entries[i + 1].start < entries[i].start + observed
                                      THEN entries[i + 1].start ELSE entries[i].start + observed
  BY <1>5, <1>6, EndOfIsBetween
<1>8. \A i \in DOMAIN entries : entries[i].start \in Nat /\ entries[i].price \in Nat
  <2>1. \A x \in Entry : x.start \in Nat /\ x.price \in Nat
    BY DEF Entry
  <2>2. \A i \in DOMAIN entries : entries[i] \in Entry
    BY <1>5
  <2> QED BY <2>1, <2>2
<1>9. /\ DOMAIN slots = DOMAIN entries
      /\ \A i \in DOMAIN entries : /\ slots[i].start = entries[i].start
                                   /\ slots[i].price = entries[i].price
                                   /\ slots[i].end = EndOf(entries, observed, i)
                                   /\ slots[i] \in Slot
  BY <1>7, <1>8 DEF Slot
<1> HIDE DEF slots
<1>10. slots \in Seq(Slot) /\ Len(slots) = Len(entries)
  <2>1. slots = [i \in 1..Len(entries) |-> slots[i]]
    BY <1>5, <1>9 DEF slots
  <2>2. \A i \in 1..Len(entries) : slots[i] \in Slot
    BY <1>5, <1>9
  <2> QED BY <1>5, <2>1, <2>2
<1>11. \A i \in 1..(Len(slots) - 1) : slots[i].end <= slots[i + 1].start
  <2> TAKE i \in 1..(Len(slots) - 1)
  <2>1. i \in DOMAIN entries /\ i + 1 \in DOMAIN entries /\ i < Len(entries)
    BY <1>5, <1>10
  <2> QED BY <1>7, <1>9, <2>1
\* Where an entry that is kept comes from, and what becomes of one that is read.
<1>12. \A i \in DOMAIN entries :
          /\ entries[i].price \in DOMAIN f
          /\ entries[i].start = f[entries[i].price]
  <2> TAKE i \in DOMAIN entries
  <2>1. PICK m \in 1..Len(sorted) : entries[i] = sorted[m]
    BY <1>4 DEF Kept
  <2>2. m \in DOMAIN sorted
    BY <1>3 DEF Sorted
  <2>3. PICK k \in 1..Len(parsed) : sorted[m] = parsed[k]
    BY <1>3, <2>2 DEF Sorted
  <2>4. k \in DOMAIN parsed /\ DOMAIN f = 1..Len(f)
    BY <1>1 DEF Usable, Feed
  <2> QED BY <1>1, <2>1, <2>3, <2>4 DEF Usable
<1>13. \A k \in DOMAIN f : f[k] # Malformed =>
          \E i \in DOMAIN entries : entries[i].start = f[k] /\ entries[i].price <= k
  <2> TAKE k \in DOMAIN f
  <2> HAVE f[k] # Malformed
  <2>1. PICK l \in DOMAIN parsed : parsed[l].price = k /\ parsed[l].start = f[k]
    <3>1. DOMAIN f = 1..Len(f)
      BY DEF Feed
    <3> QED BY <1>1, <3>1 DEF Usable
  <2>2. PICK m \in DOMAIN sorted : sorted[m] = parsed[l]
    <3>1. l \in 1..Len(parsed)
      BY <1>1 DEF Usable
    <3> QED BY <1>3, <3>1 DEF Sorted
  <2>3. m \in 1..Len(sorted)
    <3>1. sorted \in Seq(Entry)
      BY <1>3 DEF Sorted
    <3> QED BY <3>1
  <2>4. PICK i \in DOMAIN entries :
           entries[i].start = sorted[m].start /\ entries[i].price <= sorted[m].price
    BY <1>4, <2>3 DEF Kept
  <2> QED BY <2>1, <2>2, <2>4
<1>14. {slots[i].start : i \in DOMAIN slots} = ToSet(f) \ {Malformed}
  <2>1. ASSUME NEW x \in {slots[i].start : i \in DOMAIN slots}
        PROVE  x \in ToSet(f) \ {Malformed}
    <3>1. PICK i \in DOMAIN entries : x = entries[i].start
      BY <1>9
    <3>2. x \in Nat /\ x # Malformed
      BY <1>8, <3>1 DEF Malformed
    <3> QED BY <1>12, <3>1, <3>2 DEF ToSet
  <2>2. ASSUME NEW x \in ToSet(f) \ {Malformed}
        PROVE  x \in {slots[i].start : i \in DOMAIN slots}
    <3>1. PICK k \in DOMAIN f : f[k] = x
      BY DEF ToSet
    <3>2. PICK i \in DOMAIN entries : entries[i].start = x
      BY <1>13, <3>1
    <3> QED BY <1>9, <3>2
  <2> QED BY <2>1, <2>2
<1>15. \A i \in DOMAIN slots : slots[i].price = Min({k \in DOMAIN f : f[k] = slots[i].start})
  <2> TAKE i \in DOMAIN slots
  <2> DEFINE listed == {k \in DOMAIN f : f[k] = slots[i].start}
  <2>1. i \in DOMAIN entries /\ slots[i].start = entries[i].start /\ slots[i].price = entries[i].price
    BY <1>9
  <2>2. slots[i].price \in listed
    BY <1>12, <2>1
  <2>3. \A k \in listed : slots[i].price <= k
    <3> TAKE k \in listed
    <3>1. f[k] # Malformed
      BY <1>8, <2>1 DEF Malformed
    <3>2. PICK j \in DOMAIN entries : entries[j].start = f[k] /\ entries[j].price <= k
      BY <1>13, <3>1
    <3>3. entries[j].start = entries[i].start
      BY <2>1, <3>2
    <3>4. i = j
      BY <1>5, <1>8, <2>1, <3>3
    <3> QED BY <2>1, <3>2, <3>4
  <2>4. listed \in SUBSET Nat
    BY DEF Feed
  <2>5. Min(listed) \in listed /\ \A n \in listed : Min(listed) <= n
    <3> HIDE DEF listed
    <3> QED BY <2>2, <2>4, MinOfNaturals
  <2>6. Min(listed) <= slots[i].price /\ slots[i].price <= Min(listed)
    BY <2>2, <2>3, <2>5
  <2>7. Min(listed) \in Nat /\ slots[i].price \in Nat
    BY <2>2, <2>4, <2>5
  <2> QED BY <2>6, <2>7
<1>16. Len(f) - Len(parsed) = Cardinality({k \in DOMAIN f : f[k] = Malformed})
  <2>1. DOMAIN f = 1..Len(f)
    BY DEF Feed
  <2> QED BY <1>1, <2>1 DEF Usable
<1>17. \A i \in DOMAIN slots : slots[i].start < slots[i].end
  BY <1>7, <1>9
<1>20. observed \in CommonSpacings(slots, granularity)
  BY <1>5, <1>9, <1>10, ObservedIsCommon DEF observed
<1>21. \A i \in DOMAIN slots :
          slots[i].end = IF i < Len(slots) /\ slots[i + 1].start < slots[i].start + observed
                         THEN slots[i + 1].start ELSE slots[i].start + observed
  <2> TAKE i \in DOMAIN slots
  <2>1. i \in DOMAIN entries /\ slots[i].end = EndOf(entries, observed, i)
    BY <1>9
  <2>2. i < Len(slots) => slots[i + 1].start = entries[i + 1].start
    <3>1. i < Len(slots) => i + 1 \in DOMAIN entries
      BY <1>5, <1>10, <2>1
    <3> QED BY <1>9, <3>1
  <2>3. slots[i].start = entries[i].start
    BY <1>9, <2>1
  <2> QED BY <1>7, <1>10, <2>1, <2>2, <2>3
<1> DEFINE p == [slots |-> slots, skipped |-> Len(f) - Len(parsed)]
<1>18. p.slots = slots /\ p.skipped = Len(f) - Len(parsed)
  OBVIOUS
<1> HIDE DEF p
<1>19. Sound(f, granularity, p)
  BY <1>11, <1>14, <1>15, <1>16, <1>17, <1>18, <1>20, <1>21 DEF Sound
<1> QED BY <1>2, <1>10, <1>18, <1>19 DEF p

-----------------------------------------------------------------------------
(* The boundary.                                                           *)

\* The slots of a sequence that hold at an instant.
Holding(slots, t) == {i \in DOMAIN slots : slots[i].start <= t /\ t < slots[i].end}

\* EpexPayload.next_slot_boundary: the instant lies ahead, until then nothing
\* changes, and then something does.
THEOREM BoundaryIsTheNextChange ==
    ASSUME NEW slots \in Seq(Slot), NEW t \in Nat,
           NextSlotBoundary(slots, t) # Asleep
    PROVE  LET b == NextSlotBoundary(slots, t)
           IN  /\ b \in Nat /\ t < b
               /\ \A u \in t..(b - 1) : Holding(slots, u) = Holding(slots, t)
               /\ Holding(slots, b) # Holding(slots, t)
<1> DEFINE Ends == {slots[i].end : i \in {j \in DOMAIN slots : slots[j].start <= t /\ t < slots[j].end}}
           Starts == {slots[i].start : i \in {j \in DOMAIN slots : slots[j].start > t}}
           b == NextSlotBoundary(slots, t)
<1>1. \A i \in DOMAIN slots : slots[i].start \in Nat /\ slots[i].end \in Nat /\ slots[i].start < slots[i].end
  BY DEF Slot
<1>2. Ends \cup Starts \in SUBSET Nat /\ Ends \cup Starts # {} /\ b = Min(Ends \cup Starts)
  BY <1>1 DEF NextSlotBoundary, Asleep
<1>3. b \in Ends \cup Starts /\ \A n \in Ends \cup Starts : b <= n
  BY <1>2, MinOfNaturals
<1>4. b \in Nat /\ t < b
  BY <1>1, <1>3
<1>5. \A i \in DOMAIN slots : /\ slots[i].start <= t /\ t < slots[i].end => b <= slots[i].end
                              /\ slots[i].start > t => b <= slots[i].start
  BY <1>3
<1> HIDE DEF b
<1>6. \A u \in t..(b - 1) : Holding(slots, u) = Holding(slots, t)
  BY <1>1, <1>4, <1>5 DEF Holding
<1>7. Holding(slots, b) # Holding(slots, t)
  <2>1. CASE b \in Ends
    <3>1. PICK i \in DOMAIN slots : slots[i].start <= t /\ t < slots[i].end /\ b = slots[i].end
      BY <2>1
    <3>2. i \in Holding(slots, t) /\ i \notin Holding(slots, b)
      BY <3>1, <1>1 DEF Holding
    <3> QED BY <3>2
  <2>2. CASE b \in Starts
    <3>1. PICK i \in DOMAIN slots : slots[i].start > t /\ b = slots[i].start
      BY <2>2
    <3>2. i \notin Holding(slots, t) /\ i \in Holding(slots, b)
      BY <3>1, <1>1 DEF Holding
    <3> QED BY <3>2
  <2> QED BY <1>3, <2>1, <2>2
<1> QED BY <1>4, <1>6, <1>7 DEF b

\* It is None only when every slot is over.
THEOREM NoBoundaryIsTheEnd ==
    ASSUME NEW slots \in Seq(Slot), NEW t \in Nat,
           NextSlotBoundary(slots, t) = Asleep
    PROVE  \A i \in DOMAIN slots : slots[i].end <= t
<1> DEFINE Ends == {slots[i].end : i \in {j \in DOMAIN slots : slots[j].start <= t /\ t < slots[j].end}}
           Starts == {slots[i].start : i \in {j \in DOMAIN slots : slots[j].start > t}}
<1>1. \A i \in DOMAIN slots : slots[i].start \in Nat /\ slots[i].end \in Nat /\ slots[i].start < slots[i].end
  BY DEF Slot
<1>2. Ends \cup Starts \in SUBSET Nat
  BY <1>1
<1>3. Ends \cup Starts = {}
  <2>1. SUFFICES ASSUME Ends \cup Starts # {} PROVE FALSE
    OBVIOUS
  <2>2. NextSlotBoundary(slots, t) = Min(Ends \cup Starts)
    BY <2>1 DEF NextSlotBoundary
  <2>3. Min(Ends \cup Starts) \in Nat
    BY <1>2, <2>1, MinOfNaturals
  <2> QED BY <2>2, <2>3 DEF Asleep
<1>4. \A i \in DOMAIN slots : /\ ~(slots[i].start <= t /\ t < slots[i].end)
                              /\ ~(slots[i].start > t)
  BY <1>3
<1> HIDE DEF Ends, Starts
<1> QED BY <1>1, <1>4

-----------------------------------------------------------------------------
(* The consumer.                                                           *)

\* What holds throughout: the feed is one, the payload is what the parser makes
\* of it, and the clock shows an instant or nothing is left to wait for.
EpexInv ==
    /\ feed \in Feed /\ requested \in Nat \ {0} /\ now \in Nat \cup {Asleep}
    /\ fetched => payload = ParseEpexPrices(feed, requested)
    /\ ~fetched => payload = NoPayload /\ now = Asleep

LEMMA PayloadOfSlots ==
    ASSUME EpexInv
    PROVE  payload.slots \in Seq(Slot)
<1>1. CASE fetched
  <2>1. feed \in Feed /\ requested \in Nat \ {0} /\ payload = ParseEpexPrices(feed, requested)
    BY <1>1 DEF EpexInv
  <2> QED BY <2>1, ParsedSlotsAreSound
<1>2. CASE ~fetched
  <2>1. payload.slots = <<>>
    BY <1>2 DEF EpexInv, NoPayload
  <2> QED BY <2>1
<1> QED BY <1>1, <1>2

LEMMA EpexRuns == EpexSpec => []EpexInv
<1>1. EpexInit => EpexInv
  <2> SUFFICES ASSUME EpexInit PROVE EpexInv
    OBVIOUS
  <2>1. feed \in Feed
    <3>1. PICK m \in 0..MaxEntries : feed \in [1..m -> Instants \cup {Malformed}]
      BY DEF EpexInit, SeqOf
    <3>2. Instants \cup {Malformed} \subseteq Nat \cup {Malformed} /\ m \in Nat
      BY EpexAssumption DEF Instants
    <3> QED BY <3>1, <3>2 DEF Feed
  <2>2. requested \in Nat \ {0}
    BY EpexAssumption DEF EpexInit
  <2> QED BY <2>1, <2>2 DEF EpexInit, EpexInv
<1>2. EpexInv /\ [EpexNext]_epexVars => EpexInv'
  <2> SUFFICES ASSUME EpexInv, [EpexNext]_epexVars PROVE EpexInv'
    OBVIOUS
  <2>1. CASE Fetch
    <3>1. now' \in Nat
      BY <2>1, EpexAssumption DEF Fetch, Instants
    <3> QED BY <2>1, <3>1 DEF Fetch, EpexInv
  <2>2. CASE SleepToBoundary
    <3>1. now \in Nat /\ fetched
      BY <2>2 DEF SleepToBoundary, EpexInv
    <3>2. now' \in Nat \cup {Asleep}
      BY <2>2, <3>1, PayloadOfSlots, BoundaryIsTheNextChange DEF SleepToBoundary
    <3> QED BY <2>2, <3>1, <3>2 DEF SleepToBoundary, EpexInv
  <2>3. CASE UNCHANGED epexVars
    BY <2>3 DEF epexVars, EpexInv
  <2> QED BY <2>1, <2>2, <2>3 DEF EpexNext
<1> QED BY <1>1, <1>2, PTL DEF EpexSpec

\* What a feed of any length and order yields is sound (SlotsAreSound).
THEOREM SlotsSound == EpexSpec => []SlotsAreSound
<1>1. EpexInv => SlotsAreSound
  <2> SUFFICES ASSUME EpexInv, fetched PROVE SlotsAreSound
    BY DEF SlotsAreSound
  <2>1. feed \in Feed /\ requested \in Nat \ {0} /\ payload = ParseEpexPrices(feed, requested)
    BY DEF EpexInv
  <2>2. Sound(feed, requested, payload)
    BY <2>1, ParsedSlotsAreSound
  <2> QED BY <2>2 DEF Sound, SlotsAreSound
<1> QED BY <1>1, EpexRuns, PTL

\* The consumer misses nothing and does not spin (BoundaryIsNextChange), and
\* stops only when every slot is over (SleepsToTheEnd).
LEMMA Sleeps == EpexSpec => BoundaryIsNextChange /\ SleepsToTheEnd
<1> DEFINE Wakes == now # Asleep /\ now' # Asleep =>
                       /\ now < now'
                       /\ \A t \in now..(now' - 1) : SlotsAt(t) = SlotsAt(now)
                       /\ SlotsAt(now') # SlotsAt(now)
           Stops == now # Asleep /\ now' = Asleep =>
                       \A i \in DOMAIN payload.slots : payload.slots[i].end <= now
<1>1. ASSUME EpexInv, [EpexNext]_epexVars
      PROVE  [Wakes]_epexVars /\ [Stops]_epexVars
  <2>1. CASE Fetch
    BY <1>1, <2>1 DEF Fetch, EpexInv
  <2>2. CASE SleepToBoundary
    <3>1. now \in Nat /\ payload.slots \in Seq(Slot) /\ now' = NextSlotBoundary(payload.slots, now)
      BY <1>1, <2>2, PayloadOfSlots DEF SleepToBoundary, EpexInv
    <3>2. payload' = payload
      BY <2>2 DEF SleepToBoundary
    <3>3. Wakes
      BY <3>1, <3>2, BoundaryIsTheNextChange DEF Holding, SlotsAt
    <3>4. Stops
      BY <3>1, NoBoundaryIsTheEnd
    <3> QED BY <3>3, <3>4
  <2>3. CASE UNCHANGED epexVars
    BY <2>3
  <2> QED BY <1>1, <2>1, <2>2, <2>3 DEF EpexNext
<1>2. BoundaryIsNextChange <=> [][Wakes]_epexVars
  BY DEF BoundaryIsNextChange
<1>3. SleepsToTheEnd <=> [][Stops]_epexVars
  BY DEF SleepsToTheEnd
<1> HIDE DEF Wakes, Stops
<1> QED BY <1>1, <1>2, <1>3, EpexRuns, PTL DEF EpexSpec

\* A consumer that sleeps from boundary to boundary misses no change of the slot
\* that holds, and never spins.
THEOREM SleepsSoundly == EpexSpec => BoundaryIsNextChange
  BY Sleeps

\* EpexPayload.next_slot_boundary is None only when nothing is to come.
THEOREM StopsAtTheEnd == EpexSpec => SleepsToTheEnd
  BY Sleeps
=============================================================================
