---------------------------- MODULE TicksProofs ----------------------------
(***************************************************************************)
(* What an environment tells its consumers is true at every time, for any  *)
(* length of time, grain, size of batch and lookback, whatever fails or is *)
(* killed in between, and with a restate anywhere.  The induction follows  *)
(* an operation: what is not done by its time is in a batch still to be    *)
(* loaded or in the one under way, so that a parent whose batches are gone *)
(* is complete when its child reads it, and nothing is left when the       *)
(* operation is through.  That a plan's batches are just what is missing   *)
(* is proved first.                                                        *)
(***************************************************************************)
EXTENDS Ticks, FiniteSetTheorems, WellFoundedInduction, TLAPS

-----------------------------------------------------------------------------
(* What a plan computes with (core/interval.ts), for every unit, size and  *)
(* finite set of intervals: the batches of the merged missing intervals    *)
(* are made of those intervals, every one is in a batch and in one only.   *)
(* A set of intervals of one unit is a set of slots, that is of numbers of *)
(* units since the origin.                                                 *)

Slot(u, k) == Interval(k * u, k * u + u)
Slots(u, K) == {Slot(u, k) : k \in K}

\* The range from one slot to before another.
Part(u, c, d) == Interval(c * u, d * u)

\* A batch of such a range, the number q of size n.
Batch(u, n, a, e, q) == Part(u, a + q * n, Least(a + q * n + n, e))

\* The slots a..b are a run of K: none is missing, none touches it.
Run(K, a, b) == /\ a <= b /\ a .. b \subseteq K
                /\ a - 1 \notin K /\ b + 1 \notin K

\* A range that is made of slots of K.
MadeOf(u, K, x) == \E c, d \in Nat : c < d /\ x = Part(u, c, d) /\ c .. d - 1 \subseteq K

BatchesOf(intervals, u, n) ==
    UNION {SplitIntoBatches(r, u, n) : r \in MergeIntervals(intervals)}

-----------------------------------------------------------------------------
\* A set of numbers that is not empty has a least one.
LEMMA LeastNumber ==
    ASSUME NEW T, T \subseteq Nat, T # {}
    PROVE  \E x \in T : \A y \in T : x <= y
  <1> DEFINE R == {ss \in Nat \X Nat : ss[1] < ss[2]}
  <1>1. IsWellFoundedOn(R, Nat)
    BY Zenon, NatLessThanWellFounded DEF OpToRel
  <1>2. \E x \in T : \A y \in T : ~(<<y, x>> \in R)
    <2> HIDE DEF R
    <2> QED
      BY <1>1, WFMin, Zenon
  <1>3. PICK x \in T : \A y \in T : ~(<<y, x>> \in R)
    BY <1>2, Zenon
  <1>4. ASSUME NEW y \in T
        PROVE  x <= y
    <2>1. x \in Nat /\ y \in Nat
      BY <1>3
    <2>2. y < x => <<y, x>> \in R
      BY <2>1
    <2>3. ~(y < x)
      BY <1>3, <2>2, Zenon
    <2> QED
      BY <2>1, <2>3
  <1> QED
    BY <1>4

\* Multiples of a unit are ordered like their factors.
LEMMA Multiples ==
    ASSUME NEW u \in Nat \ {0}, NEW x \in Int, NEW y \in Int
    PROVE  /\ x < y <=> x * u < y * u
           /\ x = y <=> x * u = y * u
           /\ x * u + u = (x + 1) * u
           /\ x * u \in Int
           /\ x \in Nat => x * u \in Nat
OBVIOUS

LEMMA Quotient ==
    ASSUME NEW d \in Nat \ {0}, NEW x \in Nat
    PROVE  \E q \in Nat : q * d <= x /\ x < q * d + d /\ (x % d = 0 => x = q * d)
  <1>1. /\ x \div d \in Nat /\ x % d \in 0 .. d - 1
        /\ x = ((x \div d) * d) + (x % d)
    OBVIOUS
  <1> DEFINE q == x \div d
             r == x % d
  <1>2. q \in Nat /\ r \in 0 .. d - 1 /\ x = (q * d) + r
    BY <1>1
  <1> HIDE DEF q, r
  <1>3. q * d \in Nat
    BY <1>2
  <1>4. q * d <= x /\ x < q * d + d /\ (r = 0 => x = q * d)
    BY <1>2, <1>3
  <1> QED
    BY <1>2, <1>4 DEF r

\* Two runs that share a slot are the same.
LEMMA RunsApart ==
    ASSUME NEW K \in SUBSET Nat,
           NEW a \in Nat, NEW b \in Nat, NEW c \in Nat, NEW d \in Nat,
           Run(K, a, b), Run(K, c, d), NEW k \in (a .. b) \cap (c .. d)
    PROVE  a = c /\ b = d
  <1>1. a \in K /\ b \in K /\ c \in K /\ d \in K
    BY DEF Run
  <1>2. ~(a < c) /\ ~(c < a)
    <2>1. a < c => c - 1 \in a .. b
      OBVIOUS
    <2>2. c < a => a - 1 \in c .. d
      OBVIOUS
    <2> QED
      BY <2>1, <2>2 DEF Run
  <1>3. ~(b < d) /\ ~(d < b)
    <2>1. b < d => b + 1 \in c .. d
      OBVIOUS
    <2>2. d < b => d + 1 \in a .. b
      OBVIOUS
    <2> QED
      BY <2>1, <2>2 DEF Run
  <1> QED
    BY <1>2, <1>3

\* Every slot is in a run.
LEMMA RunOf ==
    ASSUME NEW M \in Nat, NEW K \in SUBSET (0 .. M), NEW k \in K
    PROVE  \E a, b \in K : Run(K, a, b) /\ k \in a .. b
  <1> DEFINE Below == {x \in 0 .. k : x .. k \subseteq K}
             Above == {x \in Nat : x >= k /\ x + 1 \notin K}
  <1>1. PICK a \in Below : \A y \in Below : a <= y
    <2>1. k \in Below /\ Below \subseteq Nat
      OBVIOUS
    <2> QED
      BY <2>1, LeastNumber
  <1>2. PICK b \in Above : \A y \in Above : b <= y
    <2>1. M \in Above /\ Above \subseteq Nat
      OBVIOUS
    <2> QED
      BY <2>1, LeastNumber
  <1>3. a \in K /\ a \in Nat /\ a <= k /\ a .. k \subseteq K
    BY <1>1
  <1>4. a - 1 \notin K
    <2> SUFFICES ASSUME a - 1 \in K
                 PROVE  FALSE
      OBVIOUS
    <2>1. (a - 1) .. k \subseteq {a - 1} \cup (a .. k)
      BY <1>3
    <2>2. a - 1 \in Below
      BY <1>3, <2>1
    <2> QED
      BY <1>1, <1>3, <2>2
  <1>5. k .. b \subseteq K
    <2> SUFFICES ASSUME NEW x \in k .. b, x \notin K
                 PROVE  FALSE
      OBVIOUS
    <2>1. x > k /\ x - 1 \in Above
      OBVIOUS
    <2> QED
      BY <1>2, <2>1
  <1>6. b \in K /\ b + 1 \notin K /\ k <= b /\ b \in Nat
    BY <1>2, <1>5
  <1>7. a .. b \subseteq (a .. k) \cup (k .. b)
    OBVIOUS
  <1> QED
    BY <1>3, <1>4, <1>5, <1>6, <1>7 DEF Run

\* Merged slots are their runs.
LEMMA MergedRuns ==
    ASSUME NEW u \in Nat \ {0}, NEW K \in SUBSET Nat
    PROVE  /\ \A a, b \in K : Run(K, a, b) =>
                Part(u, a, b + 1) \in MergeIntervals(Slots(u, K))
           /\ \A r \in MergeIntervals(Slots(u, K)) : \E a, b \in K :
                Run(K, a, b) /\ r = Part(u, a, b + 1)
  <1> DEFINE S == Slots(u, K)
             first == {i \in S : \A x \in S : x.end # i.start}
             last == {j \in S : \A x \in S : x.start # j.end}
             Joined(i, j) == /\ i.start <= j.start
                             /\ \A x \in last : ~(i.start <= x.start /\ x.start < j.start)
  <1>1. \A k \in K : Slot(u, k) \in S /\ Slot(u, k).start = k * u /\ Slot(u, k).end = k * u + u
    BY DEF Slots, Slot, Interval
  <1>2. \A i \in S : \E k \in K : i = Slot(u, k)
    BY DEF Slots
  <1> HIDE DEF S
  <1>3. \A a \in K : /\ Slot(u, a) \in first <=> a - 1 \notin K
                     /\ Slot(u, a) \in last <=> a + 1 \notin K
    <2> TAKE a \in K
    <2>1. \A x \in K : x * u + u = a * u <=> x = a - 1
      BY Multiples
    <2>2. \A x \in K : x * u = a * u + u <=> x = a + 1
      BY Multiples
    <2>3. Slot(u, a) \in first <=> \A x \in K : x * u + u # a * u
      BY <1>1, <1>2
    <2>4. Slot(u, a) \in last <=> \A x \in K : x * u # a * u + u
      BY <1>1, <1>2
    <2> QED
      BY <2>1, <2>2, <2>3, <2>4
  <1>4. ASSUME NEW a \in K, NEW b \in K
        PROVE  Joined(Slot(u, a), Slot(u, b)) <=>
                 a <= b /\ \A x \in K : x + 1 \notin K => ~(a <= x /\ x < b)
    <2>1. a * u <= b * u <=> a <= b
      BY Multiples
    <2>2. \A x \in K : a * u <= x * u /\ x * u < b * u <=> a <= x /\ x < b
      BY Multiples
    <2>3. (\A x \in last : ~(a * u <= x.start /\ x.start < b * u)) <=>
            \A x \in K : x + 1 \notin K => ~(a * u <= x * u /\ x * u < b * u)
      <3>1. \A i \in last : \E x \in K : i = Slot(u, x)
        BY <1>2
      <3> HIDE DEF last
      <3> QED
        BY <1>1, <1>3, <3>1
    <2> HIDE DEF last
    <2> QED
      BY <1>1, <2>1, <2>2, <2>3
  <1>5. ASSUME NEW a \in K, NEW b \in K, b + 1 \notin K
        PROVE  Joined(Slot(u, a), Slot(u, b)) <=> a <= b /\ a .. b \subseteq K
    <2>1. ASSUME a <= b, \A x \in K : x + 1 \notin K => ~(a <= x /\ x < b)
          PROVE  a .. b \subseteq K
      <3> DEFINE T == {x \in a .. b : x \notin K}
      <3> SUFFICES ASSUME T # {}
                   PROVE  FALSE
        OBVIOUS
      <3>1. T \subseteq Nat
        OBVIOUS
      <3>2. PICK x \in T : \A y \in T : x <= y
        BY <3>1, LeastNumber
      <3>3. x # a /\ x - 1 \in a .. b /\ x - 1 \notin T
        BY <3>2
      <3> QED
        BY <2>1, <3>2, <3>3
    <2>2. ASSUME a .. b \subseteq K, NEW x \in K, x + 1 \notin K, a <= x, x < b
          PROVE  FALSE
      BY <2>2
    <2> HIDE DEF Joined
    <2> QED
      BY <1>4, <2>1, <2>2
  <1> DEFINE pairs == {q \in first \X last : Joined(q[1], q[2])}
  <1>6. MergeIntervals(S) = {Interval(p[1].start, p[2].end) : p \in pairs}
    BY DEF MergeIntervals
  <1>7. ASSUME NEW a \in K, NEW b \in K, Run(K, a, b)
        PROVE  Part(u, a, b + 1) \in MergeIntervals(S)
    <2>1. <<Slot(u, a), Slot(u, b)>> \in pairs
      <3>1. Slot(u, a) \in first /\ Slot(u, b) \in last /\ Joined(Slot(u, a), Slot(u, b))
        BY <1>3, <1>5, <1>7 DEF Run
      <3> HIDE DEF first, last, Joined
      <3> QED
        BY <3>1
    <2>2. Slot(u, a).start = a * u /\ Slot(u, b).end = (b + 1) * u
      BY <1>1, Multiples
    <2> HIDE DEF pairs
    <2>3. Interval(Slot(u, a).start, Slot(u, b).end) \in MergeIntervals(S)
      BY <1>6, <2>1
    <2> QED
      BY <2>2, <2>3 DEF Part
  <1>8. ASSUME NEW r \in MergeIntervals(S)
        PROVE  \E a, b \in K : Run(K, a, b) /\ r = Part(u, a, b + 1)
    <2>1. PICK i \in first, j \in last : Joined(i, j) /\ r = Interval(i.start, j.end)
      <3> HIDE DEF first, last, Joined
      <3> QED
        BY <1>6
    <2>2. PICK a \in K, b \in K : i = Slot(u, a) /\ j = Slot(u, b)
      BY <1>2
    <2>3. a - 1 \notin K /\ b + 1 \notin K
      BY <1>3, <2>2
    <2>4. Run(K, a, b)
      <3> HIDE DEF Joined
      <3> QED
        BY <1>5, <2>1, <2>2, <2>3 DEF Run
    <2>5. r = Part(u, a, b + 1)
      BY <1>1, <2>1, <2>2, Multiples DEF Part
    <2> QED
      BY <2>4, <2>5
  <1> QED
    BY <1>7, <1>8 DEF S

-----------------------------------------------------------------------------
\* A batch of a run of slots is a part of it.
LEMMA SplitSlots ==
    ASSUME NEW u \in Nat \ {0}, NEW n \in Nat \ {0}, NEW a \in Nat, NEW e \in Nat
    PROVE  /\ \A q \in Nat : a + q * n < e =>
                Batch(u, n, a, e, q) \in SplitIntoBatches(Part(u, a, e), u, n)
           /\ \A x \in SplitIntoBatches(Part(u, a, e), u, n) : \E q \in Nat :
                /\ a + q * n < e
                /\ x = Batch(u, n, a, e, q)
  <1> DEFINE size == u * n
             End(s) == Least(s + size, e * u)
             steps == Starts(a * u, e * u, size)
  <1>1. SplitIntoBatches(Part(u, a, e), u, n) = {Interval(s, End(s)) : s \in steps}
    BY DEF SplitIntoBatches, Part, Interval
  <1>2. size \in Nat \ {0}
    OBVIOUS
  <1>3. ASSUME NEW q \in Nat, a + q * n < e
        PROVE  /\ (a + q * n) * u \in steps
               /\ Interval((a + q * n) * u, End((a + q * n) * u)) = Batch(u, n, a, e, q)
    <2> DEFINE c == a + q * n
    <2>1. c \in Nat /\ c + n \in Nat /\ c < e /\ a <= c
      BY <1>3
    <2>2. c * u - a * u = q * size /\ c * u + size = (c + n) * u
      OBVIOUS
    <2> HIDE DEF size, c
    <2>3. c * u \in Int /\ a * u <= c * u /\ c * u < e * u /\ a * u \in Int /\ e * u \in Int
      BY <2>1, Multiples
    <2>4. (c * u - a * u) % size = 0
      <3>1. (q * size) % size = 0
        BY <1>2
      <3> QED
        BY <2>2, <3>1
    <2>5. c * u \in steps
      BY <2>3, <2>4 DEF Starts
    <2>6. (c + n) * u < e * u <=> c + n < e
      BY <2>1, Multiples
    <2>7. End(c * u) = Least(c + n, e) * u
      BY <2>2, <2>6 DEF Least
    <2> QED
      BY <2>5, <2>7 DEF c, Batch, Part
  <1>4. ASSUME NEW s \in steps
        PROVE  \E q \in Nat : a + q * n < e /\ s = (a + q * n) * u
    <2>1. s \in Int /\ a * u <= s /\ s < e * u /\ (s - a * u) % size = 0
      BY DEF Starts
    <2>2. PICK q \in Nat : s - a * u = q * size
      <3>1. s - a * u \in Nat
        BY <2>1
      <3> HIDE DEF size
      <3> QED
        BY <1>2, <2>1, <3>1, Quotient
    <2>3. s = (a + q * n) * u
      BY <2>1, <2>2
    <2>4. a + q * n < e
      BY <2>1, <2>3, Multiples
    <2> QED
      BY <2>3, <2>4
  <1> HIDE DEF steps, End
  <1>5. ASSUME NEW q \in Nat, a + q * n < e
        PROVE  Batch(u, n, a, e, q) \in SplitIntoBatches(Part(u, a, e), u, n)
    BY <1>1, <1>3, <1>5
  <1>6. ASSUME NEW x \in SplitIntoBatches(Part(u, a, e), u, n)
        PROVE  \E q \in Nat : /\ a + q * n < e
                              /\ x = Batch(u, n, a, e, q)
    BY <1>1, <1>3, <1>4
  <1> QED
    BY <1>5, <1>6

\* The intervals within a range of slots are these slots.
LEMMA WithinSlots ==
    ASSUME NEW u \in Nat \ {0}, NEW c \in Nat, NEW d \in Nat
    PROVE  IntervalsWithin(Part(u, c, d), u) = Slots(u, c .. d - 1)
  <1>1. ASSUME NEW q \in Nat, c + q * 1 < d
        PROVE  Batch(u, 1, c, d, q) = Slot(u, c + q)
    <2>1. Least(c + q * 1 + 1, d) = c + q + 1 /\ c + q * 1 = c + q
      BY <1>1 DEF Least
    <2> QED
      BY <2>1, Multiples DEF Batch, Part, Slot
  <1>2. ASSUME NEW k \in c .. d - 1
        PROVE  Slot(u, k) \in IntervalsWithin(Part(u, c, d), u)
    <2> DEFINE q == k - c
    <2>1. q \in Nat /\ c + q * 1 < d /\ c + q = k
      OBVIOUS
    <2> HIDE DEF q
    <2>2. Batch(u, 1, c, d, q) \in SplitIntoBatches(Part(u, c, d), u, 1)
      BY <2>1, SplitSlots
    <2> QED
      BY <1>1, <2>1, <2>2 DEF IntervalsWithin
  <1>3. ASSUME NEW x \in IntervalsWithin(Part(u, c, d), u)
        PROVE  x \in Slots(u, c .. d - 1)
    <2>1. PICK q \in Nat : /\ c + q * 1 < d
                           /\ x = Batch(u, 1, c, d, q)
      BY SplitSlots DEF IntervalsWithin
    <2> QED
      BY <1>1, <2>1 DEF Slots
  <1> QED
    BY <1>2, <1>3 DEF Slots

-----------------------------------------------------------------------------
\* A batch of merged slots: it is part of a run, from a multiple of the size.
LEMMA BatchShape ==
    ASSUME NEW u \in Nat \ {0}, NEW n \in Nat \ {0}, NEW K \in SUBSET Nat,
           NEW x \in BatchesOf(Slots(u, K), u, n)
    PROVE  \E a, b \in K : \E q \in Nat :
             /\ Run(K, a, b) /\ a + q * n <= b
             /\ x = Batch(u, n, a, b + 1, q)
  <1>1. PICK r \in MergeIntervals(Slots(u, K)) : x \in SplitIntoBatches(r, u, n)
    BY DEF BatchesOf
  <1>2. PICK a \in K, b \in K : Run(K, a, b) /\ r = Part(u, a, b + 1)
    BY MergedRuns
  <1>3. PICK q \in Nat : /\ a + q * n < b + 1
                         /\ x = Batch(u, n, a, b + 1, q)
    <2> DEFINE e == b + 1
    <2>1. a \in Nat /\ e \in Nat /\ x \in SplitIntoBatches(Part(u, a, e), u, n)
      BY <1>1, <1>2
    <2> HIDE DEF e
    <2>2. \E q \in Nat : a + q * n < e /\ x = Batch(u, n, a, e, q)
      BY <2>1, SplitSlots
    <2> QED
      BY <2>2 DEF e
  <1> QED
    BY <1>2, <1>3

\* The batches of merged intervals are made of these intervals.
LEMMA BatchesExact ==
    ASSUME NEW u \in Nat \ {0}, NEW n \in Nat \ {0}, NEW K \in SUBSET Nat,
           NEW x \in BatchesOf(Slots(u, K), u, n)
    PROVE  MadeOf(u, K, x)
  <1>1. PICK a \in K, b \in K, q \in Nat :
          /\ Run(K, a, b) /\ a + q * n <= b
          /\ x = Batch(u, n, a, b + 1, q)
    BY BatchShape
  <1> DEFINE c == a + q * n
             d == Least(c + n, b + 1)
  <1>2. c \in Nat /\ a <= c /\ c <= b
    BY <1>1
  <1> HIDE DEF c
  <1>3. d \in Nat /\ c < d /\ c .. d - 1 \subseteq a .. b
    BY <1>2 DEF Least
  <1> HIDE DEF d
  <1> QED
    BY <1>1, <1>2, <1>3 DEF Run, Batch, MadeOf, c, d

\* Every one of these intervals is in a batch.
LEMMA BatchesCover ==
    ASSUME NEW u \in Nat \ {0}, NEW n \in Nat \ {0}, NEW M \in Nat, NEW K \in SUBSET (0 .. M),
           NEW k \in K
    PROVE  \E x \in BatchesOf(Slots(u, K), u, n) : Slot(u, k) \in IntervalsWithin(x, u)
  <1>1. PICK a \in K, b \in K : Run(K, a, b) /\ k \in a .. b
    BY RunOf
  <1>2. PICK q \in Nat : q * n <= k - a /\ k - a < q * n + n
    <2>1. k - a \in Nat
      BY <1>1
    <2> QED
      BY <2>1, Quotient
  <1> DEFINE c == a + q * n
             d == Least(c + n, b + 1)
             x == Batch(u, n, a, b + 1, q)
  <1>3. c \in Nat /\ d \in Nat /\ k \in c .. d - 1 /\ c < b + 1
    BY <1>1, <1>2 DEF Least
  <1>4. x \in SplitIntoBatches(Part(u, a, b + 1), u, n)
    <2>1. a \in Nat /\ b + 1 \in Nat
      OBVIOUS
    <2> QED
      BY <1>3, <2>1, SplitSlots
  <1>5. Part(u, a, b + 1) \in MergeIntervals(Slots(u, K))
    BY <1>1, MergedRuns
  <1>6. Slot(u, k) \in IntervalsWithin(x, u)
    <2>1. x = Part(u, c, d)
      BY DEF Batch
    <2> HIDE DEF c, d, x
    <2> QED
      BY <1>3, <2>1, WithinSlots DEF Slots
  <1> HIDE DEF x
  <1> QED
    BY <1>4, <1>5, <1>6 DEF BatchesOf

\* And in one only.
LEMMA BatchesApart ==
    ASSUME NEW u \in Nat \ {0}, NEW n \in Nat \ {0}, NEW K \in SUBSET Nat,
           NEW x \in BatchesOf(Slots(u, K), u, n), NEW y \in BatchesOf(Slots(u, K), u, n),
           NEW i \in IntervalsWithin(x, u) \cap IntervalsWithin(y, u)
    PROVE  x = y
  <1>1. PICK a \in K, b \in K, q \in Nat :
          /\ Run(K, a, b) /\ a + q * n <= b
          /\ x = Batch(u, n, a, b + 1, q)
    BY BatchShape
  <1>2. PICK c \in K, d \in K, p \in Nat :
          /\ Run(K, c, d) /\ c + p * n <= d
          /\ y = Batch(u, n, c, d + 1, p)
    BY BatchShape
  <1>3. PICK k \in (a + q * n) .. Least(a + q * n + n, b + 1) - 1 : i = Slot(u, k)
    <2>1. a + q * n \in Nat /\ Least(a + q * n + n, b + 1) \in Nat
      BY DEF Least
    <2> QED
      BY <1>1, <2>1, WithinSlots DEF Batch, Slots
  <1>4. PICK l \in (c + p * n) .. Least(c + p * n + n, d + 1) - 1 : i = Slot(u, l)
    <2>1. c + p * n \in Nat /\ Least(c + p * n + n, d + 1) \in Nat
      BY DEF Least
    <2> QED
      BY <1>2, <2>1, WithinSlots DEF Batch, Slots
  <1>5. a \in Nat /\ b \in Nat /\ c \in Nat /\ d \in Nat /\ q * n \in Nat /\ p * n \in Nat
    OBVIOUS
  <1>6. k \in Int /\ l \in Int /\ k = l
    <2>1. k \in Int /\ l \in Int /\ k * u = l * u
      BY <1>3, <1>4 DEF Slot, Interval
    <2> QED
      BY <2>1, Multiples
  <1>7. /\ k \in a .. b /\ a + q * n <= k /\ k < a + q * n + n
        /\ l \in c .. d /\ c + p * n <= l /\ l < c + p * n + n
    BY <1>3, <1>4, <1>5 DEF Least
  <1>8. a = c /\ b = d
    BY <1>1, <1>2, <1>6, <1>7, RunsApart
  <1>9. q = p
    <2>1. q * n < p * n + n /\ p * n < q * n + n
      BY <1>5, <1>6, <1>7, <1>8
    <2>2. q * n < (p + 1) * n /\ p * n < (q + 1) * n
      BY <2>1, Multiples
    <2>3. q < p + 1 /\ p < q + 1
      BY <2>2, Multiples
    <2> QED
      BY <2>3
  <1> QED
    BY <1>1, <1>2, <1>8, <1>9

\* The batches of a plan are a partition of the intervals that were merged.
THEOREM BatchesPartition ==
    ASSUME NEW u \in Nat \ {0}, NEW n \in Nat \ {0}, NEW M \in Nat, NEW K \in SUBSET (0 .. M)
    PROVE  LET batches == BatchesOf(Slots(u, K), u, n)
           IN /\ UNION {IntervalsWithin(x, u) : x \in batches} = Slots(u, K)
              /\ \A x, y \in batches :
                    x # y => IntervalsWithin(x, u) \cap IntervalsWithin(y, u) = {}
  <1> DEFINE batches == BatchesOf(Slots(u, K), u, n)
  <1>1. K \in SUBSET Nat
    OBVIOUS
  <1>2. ASSUME NEW x \in batches
        PROVE  IntervalsWithin(x, u) \subseteq Slots(u, K)
    <2>1. MadeOf(u, K, x)
      BY <1>1, BatchesExact
    <2>2. PICK c \in Nat, d \in Nat : x = Part(u, c, d) /\ c .. d - 1 \subseteq K
      BY <2>1 DEF MadeOf
    <2> QED
      BY <2>2, WithinSlots DEF Slots
  <1>3. \A k \in K : \E x \in batches : Slot(u, k) \in IntervalsWithin(x, u)
    BY BatchesCover
  <1>4. \A x, y \in batches : x # y => IntervalsWithin(x, u) \cap IntervalsWithin(y, u) = {}
    BY <1>1, BatchesApart
  <1> HIDE DEF batches
  <1>5. UNION {IntervalsWithin(x, u) : x \in batches} = Slots(u, K)
    BY <1>2, <1>3 DEF Slots
  <1> QED
    BY <1>4, <1>5 DEF batches

-----------------------------------------------------------------------------
(* What an environment tells its consumers                                 *)

\* What is restated is whole intervals of the coarser table.
WholeIntervals == \A r \in Ranges : r.start % Grain = 0

\* The places of a batch, and where a place ends.
At(m, b) == Starting(m, IntervalsWithin(b, Unit(m)))
End(p) == p[2] + Unit(p[1])

Span == [start : Nat, end : Nat]
Operation == [at : {"idle", "building", "audited", "exported"}, time : Nat,
              working : SUBSET Model, built : SUBSET Model,
              todo : [Table -> SUBSET Span], batch : Span \cup {None}]

Typed ==
    /\ lookback \in Nat /\ now \in 0 .. MaxTime /\ caught \in 0 .. now
    /\ rows \in [Place -> [v : {"none", "ok", "bad", "dup"}, whole : BOOLEAN]]
    /\ ledger \in [Place -> {"none", "done", "failed"}]
    /\ registered \subseteq Model /\ lapsed \in BOOLEAN
    /\ manifest \in [Table -> SUBSET Nat]
    /\ op \in Operation /\ op.time <= now
    /\ stale \subseteq Place
    /\ restating = None \/ (restating.model \in Table /\ restating.range \in Ranges)

\* The batch under way is of the table m, and is not marked yet.
Loading(m) == op.batch # None /\ Ready(m)

\* Batches are whole intervals that have ended by the time of the operation.
IsBatch(m, b) == \E c, d \in 0 .. MaxTime :
    c < d /\ b = Part(Unit(m), c, d) /\ d * Unit(m) <= op.time

Planned == \A m \in Table :
    /\ \A b \in op.todo[m] : IsBatch(m, b)
    /\ Loading(m) => IsBatch(m, op.batch)
    /\ op.todo[m] # {} => op.at = "building" /\ m \in op.working \ op.built

Held == op.batch # None => \E m \in Table : Ready(m)

\* What has rows or a mark had ended when the operation began.
Horizon == IF op.at = "idle" THEN now ELSE op.time
Counted == \A p \in Place : rows[p].v # "none" \/ ledger[p] # "none" => End(p) <= Horizon

\* What is yet to be loaded or marked by this operation.
Pending(p) == \/ \E b \in op.todo[p[1]] : p \in At(p[1], b)
              \/ Loading(p[1]) /\ p \in At(p[1], op.batch)

\* What is not done by its time is pending.
Progress == op.at # "idle" =>
    \A p \in Place : End(p) <= op.time /\ ledger[p] # "done" => Pending(p)

\* Not waiting to be loaded again, if what is restated is whole intervals.
Fresh(p) == WholeIntervals => p \notin stale

\* The rows of the batch under way are there, and were computed from parents
\* that had been loaded again.
Loaded == \A m \in Table : Loading(m) => \A p \in At(m, op.batch) :
    rows[p].v # "none" /\ (m = "B" => rows[p].whole) /\ Fresh(p)

\* So are the rows of what is done.
DoneLoaded == \A p \in Place : ledger[p] = "done" =>
    rows[p].v # "none" /\ (p[1] = "B" => rows[p].whole) /\ Fresh(p)

\* What was caught up with.
Caught == \A p \in Place : /\ End(p) <= caught => ledger[p] = "done"
                           /\ caught > 0 => ledger[p] # "failed"

\* Without a lookback nothing done is loaded once more.
Once == lookback = 0 => \A m \in Table :
    /\ \A b \in op.todo[m] : \A p \in At(m, b) : ledger[p] # "done"
    /\ \A b, c \in op.todo[m] : b # c => At(m, b) \cap At(m, c) = {}
    /\ Loading(m) =>
        /\ \A p \in At(m, op.batch) : ledger[p] # "done"
        /\ \A b \in op.todo[m] : At(m, b) \cap At(m, op.batch) = {}

Sound == lookback = 0 \/ ~lapsed
Audits == Sound => \A p \in Place :
    ledger[p] = "done" /\ ~(\E m \in Table : Loading(m) /\ p \in At(m, op.batch))
      => rows[p].v \in {"ok", "dup"}
Clean == Sound /\ op.at = "audited" /\ "B" \in op.working => ~Tainted

\* The manifest is of what is done, or the table is still to be worked on.
Due(m) == \/ m \notin registered
          \/ lookback > 0 /\ Done(m) # {}
          \/ \E p \in Place : p[1] = m /\ End(p) <= Horizon /\ ledger[p] # "done"
Listed(m) == manifest[m] = {i.start : i \in Done(m)}
Manifests == ~lapsed => \A m \in Table :
    \/ Listed(m)
    \/ Due(m) /\ (op.at = "idle" \/ (op.at = "building" /\ m \in op.working \ op.built))
    \/ Ready(m)

\* The inductive invariant.
IInv ==
    /\ Typed /\ Planned /\ Held /\ Counted /\ Progress /\ Loaded /\ DoneLoaded /\ Caught
    /\ Once /\ Audits /\ Clean /\ ExportVerified /\ Manifests

-----------------------------------------------------------------------------
\* Units, places and batches.
LEMMA Units ==
    \A m \in Table : Unit(m) \in Nat \ {0} /\ (m = "A" => Unit(m) = 1)
BY TicksAssumption DEF Table, Unit

LEMMA Places ==
    /\ \A p \in Place : /\ p[1] \in Table /\ p[2] \in Nat /\ p[2] < MaxTime /\ p = <<p[1], p[2]>>
                        /\ \E k \in Nat : p[2] = k * Unit(p[1])
    /\ \A m \in Table, k \in Nat : k * Unit(m) + Unit(m) <= MaxTime => <<m, k * Unit(m)>> \in Place
  <1>1. MaxTime \in Nat
    BY TicksAssumption
  <1>2. ASSUME NEW m \in Table, NEW s
        PROVE  s \in Starts(0, MaxTime, Unit(m)) <=>
                 s \in Nat /\ s < MaxTime /\ \E k \in Nat : s = k * Unit(m)
    <2> DEFINE u == Unit(m)
    <2>1. u \in Nat \ {0}
      BY Units
    <2> HIDE DEF u
    <2>2. ASSUME s \in Nat, s % u = 0
          PROVE  \E k \in Nat : s = k * u
      BY <2>1, <2>2, Quotient
    <2>3. \A k \in Nat : (k * u) % u = 0
      BY <2>1
    <2>4. s \in Starts(0, MaxTime, u) <=> s \in Nat /\ s < MaxTime /\ s % u = 0
      BY <1>1 DEF Starts
    <2> QED
      BY <2>2, <2>3, <2>4 DEF u
  <1>3. ASSUME NEW p \in Place
        PROVE  /\ p[1] \in Table /\ p[2] \in Nat /\ p[2] < MaxTime /\ p = <<p[1], p[2]>>
               /\ \E k \in Nat : p[2] = k * Unit(p[1])
    <2>1. PICK m \in Table : p \in {<<m, s>> : s \in Starts(0, MaxTime, Unit(m))}
      BY DEF Place
    <2>2. PICK s \in Starts(0, MaxTime, Unit(m)) : p = <<m, s>>
      BY <2>1
    <2> QED
      BY <1>2, <2>2
  <1>4. ASSUME NEW m \in Table, NEW k \in Nat, k * Unit(m) + Unit(m) <= MaxTime
        PROVE  <<m, k * Unit(m)>> \in Place
    <2>1. k * Unit(m) \in Nat /\ k * Unit(m) < MaxTime
      BY <1>1, <1>4, Units
    <2>2. k * Unit(m) \in Starts(0, MaxTime, Unit(m))
      BY <1>2, <2>1
    <2> QED
      BY <2>2 DEF Place
  <1> QED
    BY <1>3, <1>4

\* The places of a batch have ended by the time of the operation.
LEMMA BatchPlaces ==
    ASSUME NEW time \in 0 .. MaxTime, NEW m \in Table, NEW c \in Nat, NEW d \in Nat, c < d,
           d * Unit(m) <= time
    PROVE  /\ At(m, Part(Unit(m), c, d)) = {<<m, k * Unit(m)>> : k \in c .. d - 1}
           /\ At(m, Part(Unit(m), c, d)) \subseteq Place
           /\ At(m, Part(Unit(m), c, d)) # {}
           /\ \A p \in At(m, Part(Unit(m), c, d)) : p[1] = m /\ End(p) <= time
           /\ \A i \in IntervalsWithin(Part(Unit(m), c, d), Unit(m)) :
                i.start \in Nat /\ i.end <= time
           /\ Part(Unit(m), c, d) \in Span
  <1> DEFINE u == Unit(m)
  <1>1. u \in Nat \ {0} /\ MaxTime \in Nat
    BY Units, TicksAssumption
  <1>2. ASSUME NEW k \in c .. d - 1
        PROVE  k \in Nat /\ k * u \in Nat /\ k * u + u <= time
    <2>1. (k + 1) * u <= d * u
      BY <1>1, Multiples
    <2> QED
      BY <1>1, <2>1, Multiples
  <1>3. IntervalsWithin(Part(u, c, d), u) = Slots(u, c .. d - 1)
    BY <1>1, WithinSlots
  <1>4. At(m, Part(u, c, d)) = {<<m, k * u>> : k \in c .. d - 1}
    <2>1. At(m, Part(u, c, d)) = {<<m, i.start>> : i \in Slots(u, c .. d - 1)}
      BY <1>3 DEF At, Starting
    <2>2. \A k : Slot(u, k).start = k * u
      BY DEF Slot, Interval
    <2>3. \A k \in c .. d - 1 : Slot(u, k) \in Slots(u, c .. d - 1)
      BY DEF Slots
    <2>4. \A i \in Slots(u, c .. d - 1) : \E k \in c .. d - 1 : i = Slot(u, k)
      BY DEF Slots
    <2> QED
      BY <2>1, <2>2, <2>3, <2>4
  <1>5. \A k \in c .. d - 1 : <<m, k * u>> \in Place
    <2> TAKE k \in c .. d - 1
    <2>1. k \in Nat /\ k * Unit(m) + Unit(m) <= MaxTime
      BY <1>1, <1>2
    <2> QED
      BY <2>1, Places
  <1>6. \A p \in At(m, Part(u, c, d)) : p[1] = m /\ End(p) <= time
    BY <1>2, <1>4 DEF End
  <1>7. \A i \in IntervalsWithin(Part(u, c, d), u) : i.start \in Nat /\ i.end <= time
    BY <1>2, <1>3 DEF Slots, Slot, Interval
  <1>8. Part(u, c, d) \in Span
    BY <1>1 DEF Part, Interval, Span
  <1>9. At(m, Part(u, c, d)) # {}
    <2>1. c \in c .. d - 1
      OBVIOUS
    <2>2. <<m, c * u>> \in At(m, Part(u, c, d))
      BY <1>4, <2>1
    <2> QED
      BY <2>2
  <1> QED
    BY <1>4, <1>5, <1>6, <1>7, <1>8, <1>9

-----------------------------------------------------------------------------
\* Plans.
LEMMA WantedSlots ==
    ASSUME NEW m \in Table, NEW time \in Nat
    PROVE  Wanted(m, time) = Slots(Unit(m), {k \in Nat : k * Unit(m) + Unit(m) <= time})
  <1> DEFINE u == Unit(m)
             K == {k \in Nat : k * u + u <= time}
             floor == FloorTo(u, time)
  <1>1. u \in Nat \ {0}
    BY Units
  <1> HIDE DEF u
  <1>2. PICK q \in Nat : floor = q * u /\ q * u <= time /\ time < q * u + u
    <2>1. /\ time \div u \in Nat /\ time % u \in 0 .. u - 1
          /\ time = ((time \div u) * u) + (time % u)
      BY <1>1
    <2> DEFINE q == time \div u
               r == time % u
    <2>2. q \in Nat /\ r \in 0 .. u - 1 /\ time = (q * u) + r
      BY <2>1
    <2> HIDE DEF q, r
    <2>3. q * u \in Nat
      BY <1>1, <2>2
    <2>4. q * u <= time /\ time < q * u + u
      BY <1>1, <2>2, <2>3
    <2> QED
      BY <2>2, <2>4 DEF q, floor, FloorTo
  <1>3. FloorTo(u, 0) = 0
    BY <1>1 DEF FloorTo
  <1>4. \A s : s \in Starts(0, floor, u) <=> \E k \in K : s = k * u
    <2> TAKE s
    <2>1. floor \in Nat
      BY <1>1, <1>2
    <2>2. s \in Starts(0, floor, u) <=> s \in Nat /\ s < floor /\ s % u = 0
      BY <2>1 DEF Starts
    <2>3. ASSUME s \in Nat, s < floor, s % u = 0
          PROVE  \E k \in K : s = k * u
      <3>1. PICK k \in Nat : s = k * u
        BY <1>1, <2>3, Quotient
      <3>2. k < q
        BY <1>1, <1>2, <2>3, <3>1, Multiples
      <3>3. (k + 1) * u <= q * u
        BY <1>1, <3>2, Multiples
      <3>4. k * u + u <= time
        BY <1>1, <1>2, <3>3
      <3> QED
        BY <3>1, <3>4
    <2>4. ASSUME NEW k \in K, s = k * u
          PROVE  s \in Nat /\ s < floor /\ s % u = 0
      <3>1. k * u \in Nat /\ (k * u) % u = 0
        BY <1>1
      <3>2. k * u < q * u
        <4>1. k * u + u < (q + 1) * u
          BY <1>1, <1>2
        <4>2. (k + 1) * u < (q + 1) * u
          BY <1>1, <4>1
        <4>3. k + 1 < q + 1
          BY <1>1, <4>2, Multiples
        <4> QED
          BY <1>1, <4>3, Multiples
      <3> QED
        BY <1>2, <2>4, <3>1, <3>2
    <2> QED
      BY <2>2, <2>3, <2>4
  <1>5. Wanted(m, time) = {Interval(s, s + u) : s \in Starts(0, floor, u)}
    BY <1>3 DEF Wanted, EnumerateIntervals, u, floor
  <1> HIDE DEF K
  <1>6. Wanted(m, time) = Slots(u, K)
    BY <1>4, <1>5 DEF Slots, Slot
  <1> QED
    BY <1>6 DEF u, K

LEMMA MarkedSlots ==
    ASSUME NEW m \in Table, NEW status
    PROVE  With(m, status) =
             Slots(Unit(m), {k \in Nat : <<m, k * Unit(m)>> \in Place
                                         /\ ledger[<<m, k * Unit(m)>>] = status})
  <1> DEFINE u == Unit(m)
             K == {k \in Nat : <<m, k * u>> \in Place /\ ledger[<<m, k * u>>] = status}
             marked == {q \in Place : q[1] = m /\ ledger[q] = status}
  <1>1. With(m, status) = {Interval(p[2], p[2] + u) : p \in marked}
    BY DEF With
  <1>2. \A p \in marked : \E k \in K : p[2] = k * u
    BY Places
  <1>3. \A k \in K : <<m, k * u>> \in marked /\ <<m, k * u>>[2] = k * u
    OBVIOUS
  <1> HIDE DEF u, K, marked
  <1>4. With(m, status) = Slots(u, K)
    BY <1>1, <1>2, <1>3 DEF Slots, Slot
  <1> QED
    BY <1>4 DEF u, K

LEMMA DoneFinite ==
    ASSUME NEW m \in Table
    PROVE  \A T \in SUBSET Done(m) : Cardinality(T) \in Nat
  <1> DEFINE f == [s \in 0 .. MaxTime |-> Interval(s, s + Unit(m))]
  <1>1. IsFiniteSet(0 .. MaxTime)
    BY TicksAssumption, FS_Interval
  <1>2. IsFiniteSet({f[s] : s \in 0 .. MaxTime})
    <2>1. f \in Surjection(0 .. MaxTime, {f[s] : s \in 0 .. MaxTime})
      BY DEF Surjection
    <2> HIDE DEF f
    <2> QED
      BY <1>1, <2>1, FS_Surjection
  <1>3. Done(m) \subseteq {f[s] : s \in 0 .. MaxTime}
    <2>1. \A p \in Place : p[2] \in 0 .. MaxTime
      BY Places, TicksAssumption
    <2>2. \A i \in Done(m) : \E p \in Place : p[1] = m /\ i = Interval(p[2], p[2] + Unit(m))
      BY DEF Done, With
    <2> QED
      BY <2>1, <2>2
  <1> HIDE DEF f
  <1>4. \A T \in SUBSET Done(m) : IsFiniteSet(T)
    BY <1>2, <1>3, FS_Subset
  <1> QED
    BY <1>4, FS_CardinalityType

\* What a plan is to load, as slots: what is missing, and what the lookback
\* adds.
LEMMA PlanSlots ==
    ASSUME Typed, Counted, Horizon = now, NEW m \in Table
    PROVE  \E K \in SUBSET (0 .. MaxTime) :
             /\ MissingIntervals(Wanted(m, now), Done(m)) \cup Tail(m) = Slots(Unit(m), K)
             /\ \A k \in K : k * Unit(m) + Unit(m) <= now
             /\ lookback = 0 => \A k \in K : ledger[<<m, k * Unit(m)>>] # "done"
             /\ \A k \in Nat : /\ k * Unit(m) + Unit(m) <= now
                               /\ ledger[<<m, k * Unit(m)>>] # "done"
                               => k \in K
             /\ lookback > 0 /\ Done(m) # {} => K # {}
  <1> DEFINE u == Unit(m)
             W == {k \in Nat : k * u + u <= now}
             D == {k \in Nat : <<m, k * u>> \in Place /\ ledger[<<m, k * u>>] = "done"}
             T == {k \in D : Slot(u, k) \in Tail(m)}
             K == (W \ D) \cup T
  <1>1. u \in Nat \ {0} /\ now \in Nat /\ now <= MaxTime /\ MaxTime \in Nat
    BY Units, TicksAssumption DEF Typed
  <1>2. Wanted(m, now) = Slots(u, W) /\ Done(m) = Slots(u, D)
    BY <1>1, WantedSlots, MarkedSlots DEF Done
  <1>3. \A k, l \in Nat : Slot(u, k).start = Slot(u, l).start <=> k = l
    BY <1>1, Multiples DEF Slot, Interval
  <1>4. MissingIntervals(Wanted(m, now), Done(m)) = Slots(u, W \ D)
    <2>1. \A i : i \in Slots(u, W) /\ (\A j \in Slots(u, D) : j.start # i.start)
                   <=> i \in Slots(u, W \ D)
      <3> HIDE DEF W, D, u
      <3>1. W \subseteq Nat /\ D \subseteq Nat
        BY DEF W, D
      <3> QED
        BY <1>3, <3>1 DEF Slots
    <2> HIDE DEF W, D, u
    <2>2. MissingIntervals(Slots(u, W), Slots(u, D)) = Slots(u, W \ D)
      BY <2>1 DEF MissingIntervals
    <2> QED
      BY <1>2, <2>2
  <1>5. Tail(m) = Slots(u, T)
    <2>1. Tail(m) \subseteq Slots(u, D)
      BY <1>2 DEF Tail
    <2> HIDE DEF D, u
    <2> QED
      BY <2>1 DEF Slots
  <1>6. MissingIntervals(Wanted(m, now), Done(m)) \cup Tail(m) = Slots(u, K)
    <2> HIDE DEF W, D, T, u
    <2> QED
      BY <1>4, <1>5 DEF Slots
  <1>7. \A k \in D : k * u + u <= now
    <2> TAKE k \in D
    <2>1. rows[<<m, k * u>>].v # "none" \/ ledger[<<m, k * u>>] # "none"
      OBVIOUS
    <2>2. End(<<m, k * u>>) <= now
      BY <2>1 DEF Counted
    <2> QED
      BY <2>2 DEF End
  <1>8. \A k \in W : k \in 0 .. MaxTime /\ <<m, k * u>> \in Place
    <2> TAKE k \in W
    <2>1. k * u + u <= MaxTime
      BY <1>1
    <2>2. k <= k * u
      BY <1>1
    <2> QED
      BY <1>1, <2>1, <2>2, Places
  <1>9. K \subseteq W
    BY <1>7
  <1>10. \A k \in K : k \in 0 .. MaxTime /\ k * u + u <= now
    BY <1>8, <1>9
  <1>11. lookback = 0 => T = {}
    <2> SUFFICES ASSUME lookback = 0, NEW i \in Tail(m)
                 PROVE  FALSE
      OBVIOUS
    <2> DEFINE after == {j \in Done(m) : j.start > i.start}
    <2>1. Cardinality(after) < 0
      BY DEF Tail
    <2>2. Cardinality(after) \in Nat
      BY DoneFinite
    <2> QED
      BY <2>1, <2>2
  <1>12. lookback > 0 /\ Done(m) # {} => T # {}
    <2> SUFFICES ASSUME lookback > 0, Done(m) # {}
                 PROVE  \E k \in D : Slot(u, k) \in Tail(m)
      OBVIOUS
    <2> DEFINE Back == {x \in 0 .. MaxTime : \E k \in D : x + k = MaxTime}
    <2>1. \A k \in D : k \in 0 .. MaxTime
      BY <1>1, <1>7, <1>8
    <2>2. Back # {} /\ Back \subseteq Nat
      <3>1. PICK k \in D : TRUE
        BY <1>2 DEF Slots
      <3>2. MaxTime - k \in Back
        BY <1>1, <2>1
      <3> QED
        BY <3>2
    <2>3. PICK x \in Back : \A y \in Back : x <= y
      BY <2>2, LeastNumber
    <2>4. PICK k \in D : x + k = MaxTime
      OBVIOUS
    <2>5. \A l \in D : l <= k
      <3> TAKE l \in D
      <3>1. MaxTime - l \in Back
        BY <1>1, <2>1
      <3>2. x <= MaxTime - l
        BY <2>3, <3>1
      <3>3. x \in Int /\ l \in Int /\ k \in Int
        BY <2>1
      <3> HIDE DEF Back, D
      <3> QED
        BY <1>1, <2>4, <3>2, <3>3
    <2>6. {j \in Done(m) : j.start > Slot(u, k).start} = {}
      <3>1. \A l \in D : ~(Slot(u, l).start > Slot(u, k).start)
        <4> TAKE l \in D
        <4>1. l \in Nat /\ k \in Nat /\ ~(k < l)
          BY <2>5
        <4> QED
          BY <1>1, <4>1, Multiples DEF Slot, Interval
      <3> HIDE DEF D
      <3> QED
        BY <1>2, <3>1 DEF Slots
    <2>7. Cardinality({j \in Done(m) : j.start > Slot(u, k).start}) < lookback
      BY <2>6, FS_EmptySet DEF Typed
    <2>8. Slot(u, k) \in Done(m)
      BY <1>2 DEF Slots
    <2> HIDE DEF D
    <2> QED
      BY <2>7, <2>8 DEF Tail
  <1>13. lookback = 0 => \A k \in K : ledger[<<m, k * u>>] # "done"
    BY <1>8, <1>11
  <1>14. \A k \in Nat : k * u + u <= now /\ ledger[<<m, k * u>>] # "done" => k \in K
    OBVIOUS
  <1>15. lookback > 0 /\ Done(m) # {} => K # {}
    BY <1>12
  <1> HIDE DEF K
  <1> QED
    BY <1>6, <1>10, <1>13, <1>14, <1>15

\* The batches of a plan: whole intervals that have ended, all that is not
\* done, no interval in two of them, and without a lookback nothing done.
LEMMA PlanFacts ==
    ASSUME Typed, Counted, Horizon = now, NEW m \in Table
    PROVE  /\ \A b \in Batches(m) : \E c, d \in 0 .. MaxTime :
                c < d /\ b = Part(Unit(m), c, d) /\ d * Unit(m) <= now
           /\ \A p \in Place : p[1] = m /\ End(p) <= now /\ ledger[p] # "done"
                => \E b \in Batches(m) : p \in At(m, b)
           /\ lookback = 0 => \A b \in Batches(m) : \A p \in At(m, b) : ledger[p] # "done"
           /\ \A b, c \in Batches(m) : b # c => At(m, b) \cap At(m, c) = {}
           /\ lookback > 0 /\ Done(m) # {} => Batches(m) # {}
  <1> DEFINE u == Unit(m)
  <1>1. u \in Nat \ {0} /\ now \in 0 .. MaxTime /\ MaxTime \in Nat /\ BatchSize \in Nat \ {0}
    BY Units, TicksAssumption DEF Typed
  <1>2. PICK K \in SUBSET (0 .. MaxTime) :
          /\ MissingIntervals(Wanted(m, now), Done(m)) \cup Tail(m) = Slots(u, K)
          /\ \A k \in K : k * u + u <= now
          /\ lookback = 0 => \A k \in K : ledger[<<m, k * u>>] # "done"
          /\ \A k \in Nat : k * u + u <= now /\ ledger[<<m, k * u>>] # "done" => k \in K
          /\ lookback > 0 /\ Done(m) # {} => K # {}
    BY PlanSlots
  <1>3. Batches(m) = BatchesOf(Slots(u, K), u, BatchSize)
    BY <1>2 DEF Batches, Backfill, BatchesOf
  <1>4. K \in SUBSET Nat
    OBVIOUS
  <1>5. ASSUME NEW b \in Batches(m)
        PROVE  \E c, d \in 0 .. MaxTime :
                 /\ c < d /\ b = Part(u, c, d) /\ d * u <= now
                 /\ c .. d - 1 \subseteq K
    <2>1. PICK c \in Nat, d \in Nat : c < d /\ b = Part(u, c, d) /\ c .. d - 1 \subseteq K
      <3> HIDE DEF u
      <3>1. b \in BatchesOf(Slots(u, K), u, BatchSize)
        BY <1>3
      <3> QED
        BY <1>1, <1>4, <3>1, BatchesExact DEF MadeOf
    <2>2. d - 1 \in K
      BY <2>1
    <2>3. (d - 1) * u + u <= now
      BY <1>2, <2>2
    <2>4. d * u <= now
      BY <1>1, <2>1, <2>3
    <2>5. d <= d * u
      BY <1>1
    <2>6. c \in 0 .. MaxTime /\ d \in 0 .. MaxTime
      BY <1>1, <2>1, <2>4, <2>5
    <2> QED
      BY <2>1, <2>4, <2>6
  <1>6. ASSUME NEW b \in Batches(m)
        PROVE  At(m, b) = {<<m, i.start>> : i \in IntervalsWithin(b, u)}
    BY DEF At, Starting
  <1>7. \A k \in K : \E b \in Batches(m) : Slot(u, k) \in IntervalsWithin(b, u)
    <2> HIDE DEF u
    <2> TAKE k \in K
    <2>1. \E b \in BatchesOf(Slots(u, K), u, BatchSize) : Slot(u, k) \in IntervalsWithin(b, u)
      BY <1>1, BatchesCover, Zenon
    <2> QED
      BY <1>3, <2>1
  <1>8. ASSUME NEW p \in Place, p[1] = m, End(p) <= now, ledger[p] # "done"
        PROVE  \E b \in Batches(m) : p \in At(m, b)
    <2>1. PICK k \in Nat : p = <<m, k * u>>
      BY <1>8, Places
    <2>2. k \in K
      BY <1>2, <1>8, <2>1 DEF End
    <2>3. PICK b \in Batches(m) : Slot(u, k) \in IntervalsWithin(b, u)
      BY <1>7, <2>2
    <2>4. Slot(u, k).start = k * u
      BY DEF Slot, Interval
    <2> QED
      BY <1>6, <2>1, <2>3, <2>4
  <1>9. ASSUME NEW b \in Batches(m), NEW p \in At(m, b), lookback = 0
        PROVE  ledger[p] # "done"
    <2>1. PICK c \in 0 .. MaxTime, d \in 0 .. MaxTime :
            c < d /\ b = Part(u, c, d) /\ d * u <= now /\ c .. d - 1 \subseteq K
      BY <1>5
    <2>2. p \in {<<m, k * u>> : k \in c .. d - 1}
      BY <1>1, <2>1, BatchPlaces
    <2> QED
      BY <1>2, <1>9, <2>1, <2>2
  <1>10. ASSUME NEW b \in Batches(m), NEW e \in Batches(m), NEW p \in At(m, b) \cap At(m, e)
        PROVE  b = e
    <2>1. PICK i \in IntervalsWithin(b, u), j \in IntervalsWithin(e, u) :
            p = <<m, i.start>> /\ p = <<m, j.start>>
      BY <1>6
    <2>2. \E k \in Nat : i = Slot(u, k)
      <3>1. PICK c \in 0 .. MaxTime, d \in 0 .. MaxTime : c < d /\ b = Part(u, c, d)
        BY <1>5
      <3> QED
        BY <1>1, <2>1, <3>1, WithinSlots DEF Slots
    <2>3. \E k \in Nat : j = Slot(u, k)
      <3>1. PICK c \in 0 .. MaxTime, d \in 0 .. MaxTime : c < d /\ e = Part(u, c, d)
        BY <1>5
      <3> QED
        BY <1>1, <2>1, <3>1, WithinSlots DEF Slots
    <2>4. i = j
      <3>1. PICK k \in Nat, l \in Nat : i = Slot(u, k) /\ j = Slot(u, l)
        BY <2>2, <2>3
      <3>2. k * u = l * u
        BY <2>1, <3>1 DEF Slot, Interval
      <3>3. k = l
        BY <1>1, <3>2, Multiples
      <3> QED
        BY <3>1, <3>3
    <2> QED
      BY <1>1, <1>3, <1>4, <2>1, <2>4, BatchesApart
  <1>11. K # {} => Batches(m) # {}
    BY <1>7
  <1>12. \A b \in Batches(m) : \E c, d \in 0 .. MaxTime :
           c < d /\ b = Part(u, c, d) /\ d * u <= now
    BY <1>5
  <1>13. \A p \in Place : p[1] = m /\ End(p) <= now /\ ledger[p] # "done"
           => \E b \in Batches(m) : p \in At(m, b)
    BY <1>8
  <1>14. lookback = 0 => \A b \in Batches(m) : \A p \in At(m, b) : ledger[p] # "done"
    BY <1>9
  <1>15. \A b, e \in Batches(m) : b # e => At(m, b) \cap At(m, e) = {}
    BY <1>10
  <1>16. lookback > 0 /\ Done(m) # {} => Batches(m) # {}
    BY <1>2, <1>11
  <1> QED
    BY <1>12, <1>13, <1>14, <1>15, <1>16

-----------------------------------------------------------------------------
\* The table under way.
LEMMA PlannedPlaces ==
    ASSUME Typed, NEW m \in Table, NEW b, IsBatch(m, b)
    PROVE  /\ At(m, b) \subseteq Place
           /\ At(m, b) # {}
           /\ \A p \in At(m, b) : p[1] = m /\ End(p) <= op.time
           /\ \A i \in IntervalsWithin(b, Unit(m)) : i.start \in Nat /\ i.end <= op.time
           /\ b \in Span
  <1>1. PICK c \in 0 .. MaxTime, d \in 0 .. MaxTime :
          c < d /\ b = Part(Unit(m), c, d) /\ d * Unit(m) <= op.time
    BY DEF IsBatch
  <1>2. op.time \in 0 .. MaxTime /\ c \in Nat /\ d \in Nat
    BY TicksAssumption DEF Typed, Operation
  <1> QED
    BY <1>1, <1>2, BatchPlaces

LEMMA OneReady ==
    ASSUME NEW m \in Table, NEW n \in Table, Ready(m), Ready(n)
    PROVE  m = n
BY DEF Ready, Table, Deps, Model

\* When B is loaded, all that it reads is done.
LEMMA ParentsDone ==
    ASSUME Typed, Planned, Progress, Ready("B"),
           NEW p \in Place, p[1] = "A", End(p) <= op.time
    PROVE  ledger[p] = "done"
  <1>1. "A" \notin op.working \ op.built
    BY DEF Ready, Deps, Table, Model
  <1>2. op.todo["A"] = {}
    BY <1>1 DEF Planned, Table
  <1>3. ~Loading("A")
    BY <1>1 DEF Loading, Ready
  <1>4. ~Pending(p)
    BY <1>2, <1>3 DEF Pending
  <1>5. op.at # "idle"
    BY DEF Ready
  <1> QED
    BY <1>4, <1>5 DEF Progress

-----------------------------------------------------------------------------
LEMMA TicksInitially ==
    ASSUME Init
    PROVE  IInv
  <1>1. Typed
    <2>1. lookback \in Nat /\ MaxTime \in Nat
      BY TicksAssumption DEF Init
    <2>2. op \in Operation
      BY DEF Init, Idle, Operation
    <2>3. stale \subseteq Place /\ restating = None
      BY DEF Init
    <2>4. manifest \in [Table -> SUBSET Nat]
      BY DEF Init
    <2>5. rows \in [Place -> [v : {"none", "ok", "bad", "dup"}, whole : BOOLEAN]]
      BY DEF Init
    <2>6. now \in 0 .. MaxTime /\ caught \in 0 .. now
      BY <2>1 DEF Init
    <2>7. op.time <= now
      BY DEF Init, Idle
    <2>8. registered \subseteq Model /\ lapsed \in BOOLEAN
      BY DEF Init
    <2>9. ledger \in [Place -> {"none", "done", "failed"}]
      BY DEF Init
    <2> QED
      BY <2>1, <2>2, <2>3, <2>4, <2>5, <2>6, <2>7, <2>8, <2>9 DEF Typed
  <1>2. Planned /\ Held /\ Progress /\ Loaded /\ Once /\ Clean
    BY DEF Init, Idle, Planned, Held, Progress, Loaded, Once, Clean, Loading
  <1>3. Counted /\ DoneLoaded /\ Audits /\ ExportVerified
    BY DEF Init, Counted, DoneLoaded, Audits, ExportVerified
  <1>4. Caught
    <2>1. \A p \in Place : End(p) \in Nat \ {0}
      BY Places, Units DEF End
    <2>2. caught = 0 /\ \A p \in Place : ledger[p] = "none"
      BY DEF Init
    <2> QED
      BY <2>1, <2>2 DEF Caught
  <1>5. Manifests
    <2>1. \A m \in Table : m \notin registered
      BY DEF Init
    <2>2. op.at = "idle"
      BY DEF Init, Idle
    <2> QED
      BY <2>1, <2>2 DEF Manifests, Due
  <1> QED
    BY <1>1, <1>2, <1>3, <1>4, <1>5 DEF IInv

\* An operation begins.
LEMMA StartKeeps ==
    ASSUME IInv, NEW kind, Start(kind)
    PROVE  IInv'
  <1>1. /\ op.at = "idle" /\ op' = Plan /\ Horizon = now
        /\ UNCHANGED <<lookback, now, rows, ledger, registered, manifest, exported, caught,
                       restating, stale, lapsed>>
    BY DEF Start, Horizon, books
  <1>2. /\ op'.at = "building" /\ op'.time = now /\ op'.working = Working /\ op'.built = {}
        /\ op'.todo = [m \in Table |-> Batches(m)] /\ op'.batch = None
    BY <1>1 DEF Plan, Idle
  <1>3. Typed /\ Counted
    BY DEF IInv
  <1>4. now \in 0 .. MaxTime /\ MaxTime \in Nat
    BY <1>3, TicksAssumption DEF Typed
  <1>5. ASSUME NEW m \in Table
        PROVE  /\ \A b \in Batches(m) : b \in Span /\ IsBatch(m, b)'
               /\ \A p \in Place : p[1] = m /\ End(p) <= now /\ ledger[p] # "done"
                    => \E b \in Batches(m) : p \in At(m, b)
               /\ lookback = 0 => \A b \in Batches(m) : \A p \in At(m, b) : ledger[p] # "done"
               /\ \A b, c \in Batches(m) : b # c => At(m, b) \cap At(m, c) = {}
               /\ lookback > 0 /\ Done(m) # {} => Batches(m) # {}
    <2>1. \A b \in Batches(m) : \E c, d \in 0 .. MaxTime :
            c < d /\ b = Part(Unit(m), c, d) /\ d * Unit(m) <= now
      BY <1>1, <1>3, PlanFacts
    <2>2. \A b \in Batches(m) : IsBatch(m, b)'
      BY <1>2, <2>1 DEF IsBatch
    <2>3. \A b \in Batches(m) : b \in Span
      <3> TAKE b \in Batches(m)
      <3>1. PICK c \in 0 .. MaxTime, d \in 0 .. MaxTime :
              c < d /\ b = Part(Unit(m), c, d) /\ d * Unit(m) <= now
        BY <2>1
      <3> QED
        BY <1>4, <3>1, BatchPlaces
    <2> QED
      BY <1>1, <1>3, <2>2, <2>3, PlanFacts
  <1>6. \A m \in Table : Batches(m) # {} => m \in Working
    BY DEF Working, Model
  <1>7. Typed'
    <2> DEFINE todo == [m \in Table |-> Batches(m)]
    <2>1. todo \in [Table -> SUBSET Span]
      BY <1>5
    <2>2. Working \subseteq Model /\ Idle \in Operation
      BY DEF Working, Idle, Operation
    <2>3. Plan \in Operation
      <3>1. Plan = [Idle EXCEPT !.at = "building", !.time = now, !.working = Working,
                                !.todo = todo]
        BY DEF Plan
      <3>2. now \in Nat /\ Working \in SUBSET Model
        BY <1>4, <2>2
      <3> HIDE DEF todo
      <3> QED
        BY <2>1, <2>2, <3>1, <3>2 DEF Operation
    <2> QED
      BY <1>1, <1>2, <1>3, <2>3 DEF Typed
  <1>8. Planned'
    BY <1>2, <1>5, <1>6 DEF Planned, Loading
  <1>9. Held' /\ Loaded' /\ Clean'
    BY <1>2 DEF Held, Loaded, Clean, Loading
  <1>10. Counted'
    BY <1>1, <1>2, <1>3 DEF Counted, Horizon
  <1>11. Progress'
    <2>1. \A p \in Place : p[1] \in Table
      BY Places
    <2> QED
      BY <1>1, <1>2, <1>5, <2>1 DEF Progress, Pending
  <1>12. DoneLoaded' /\ Caught' /\ ExportVerified'
    BY <1>1 DEF IInv, DoneLoaded, Fresh, Caught, ExportVerified
  <1>13. Once'
    BY <1>1, <1>2, <1>5 DEF Once, Loading
  <1>14. Audits'
    <2>1. ~(\E m \in Table : Loading(m))
      BY <1>1 DEF Loading, Ready
    <2> QED
      BY <1>1, <2>1 DEF IInv, Audits, Sound
  <1>15. Manifests'
    <2>1. ASSUME NEW m \in Table, ~lapsed
          PROVE  Listed(m) \/ (Due(m) /\ m \in Working)
      <3>1. Listed(m) \/ Due(m)
        BY <1>1, <2>1 DEF IInv, Manifests, Ready
      <3>2. Due(m) => m \in Working
        <4>1. m \in Model
          BY DEF Model
        <4>2. \A p \in Place : p[1] = m /\ End(p) <= Horizon /\ ledger[p] # "done"
                => Batches(m) # {}
          BY <1>1, <1>5
        <4> QED
          BY <1>5, <1>6, <4>1, <4>2 DEF Due, Working
      <3> QED
        BY <3>1, <3>2
    <2>2. \A m \in Table : /\ Listed(m) => Listed(m)'
                           /\ Due(m) => Due(m)'
      BY <1>1, <1>2 DEF Listed, Due, Done, With, Horizon
    <2> QED
      BY <1>1, <1>2, <2>1, <2>2 DEF Manifests
  <1> QED
    BY <1>7, <1>8, <1>9, <1>10, <1>11, <1>12, <1>13, <1>14, <1>15 DEF IInv

\* A table's ledger is all that what is listed and due depend on.
LEMMA SameBooks ==
    ASSUME NEW m \in Table, \A p \in Place : p[1] = m => ledger'[p] = ledger[p],
           lookback' = lookback, Horizon <= Horizon', Typed, Horizon \in Nat, Horizon' \in Nat
    PROVE  /\ manifest'[m] = manifest[m] => (Listed(m) => Listed(m)')
           /\ (m \notin registered => m \notin registered') => (Due(m) => Due(m)')
  <1>1. Done(m)' = Done(m)
    BY DEF Done, With
  <1>2. \A p \in Place : End(p) \in Nat
    BY Places, Units DEF End
  <1> QED
    BY <1>1, <1>2 DEF Listed, Due

\* A batch is loaded.
LEMMA WriteKeeps ==
    ASSUME IInv, NEW m \in Table, Write(m)
    PROVE  IInv'
  <1>1. /\ Ready(m) /\ op.batch = None /\ op.at = "building"
        /\ UNCHANGED <<lookback, now, ledger, manifest, exported, caught, restating, lapsed>>
        /\ registered' = registered \cup {m}
    BY DEF Write, Ready, books
  <1>2. /\ Typed /\ Planned /\ Counted /\ Progress /\ DoneLoaded /\ Caught
        /\ Once /\ Audits /\ ExportVerified /\ Manifests
    BY DEF IInv
  <1> DEFINE at(b) == At(m, b)
  <1>3. PICK b \in op.todo[m], v \in {"ok", "bad", "dup"} :
          /\ op' = [op EXCEPT !.batch = b, !.todo[m] = @ \ {b}]
          /\ rows' = [p \in Place |->
                        IF p \in at(b)
                        THEN [v |-> v, whole |-> Complete(m, Interval(p[2], p[2] + Unit(m)))]
                        ELSE rows[p]]
          /\ stale' = {p \in stale : p \notin at(b)
                         \/ \E i \in IntervalsWithin(b, Unit(m)) : \E q \in stale :
                              q[1] \in Deps[m] /\ i.start <= q[2] /\ q[2] < i.end}
    BY DEF Write, At
  <1> HIDE DEF at
  <1>4. op \in Operation /\ op.time \in Nat /\ now \in Nat /\ op.time <= now
    BY <1>2, TicksAssumption DEF Typed, Operation
  <1>5. /\ op'.at = "building" /\ op'.time = op.time /\ op'.working = op.working
        /\ op'.built = op.built /\ op'.batch = b
        /\ \A n \in Table : op'.todo[n] = IF n = m THEN op.todo[m] \ {b} ELSE op.todo[n]
    BY <1>1, <1>3, <1>4 DEF Operation
  <1>6. IsBatch(m, b)
    BY <1>2 DEF Planned
  <1>7. /\ at(b) \subseteq Place /\ b \in Span
        /\ \A p \in at(b) : p[1] = m /\ End(p) <= op.time
        /\ \A i \in IntervalsWithin(b, Unit(m)) : i.start \in Nat /\ i.end <= op.time
    BY <1>2, <1>6, PlannedPlaces DEF at
  <1>8. b # None
    BY <1>7, TicksAssumption DEF Span
  <1>9. \A n \in Table : /\ Ready(n)' <=> Ready(n)
                         /\ Loading(n)' <=> n = m
                         /\ ~Loading(n)
    <2>1. \A n \in Table : Ready(n)' <=> Ready(n)
      BY <1>1, <1>5 DEF Ready
    <2> QED
      BY <1>1, <1>5, <1>8, <2>1, OneReady DEF Loading
  <1>10. \A n, x : IsBatch(n, x)' <=> IsBatch(n, x)
    BY <1>5 DEF IsBatch
  <1>11. \A q \in Place : q[1] \in Deps[m] /\ q[2] < op.time =>
           rows[q].v # "none" /\ Fresh(q)
    <2> TAKE q \in Place
    <2> HAVE q[1] \in Deps[m] /\ q[2] < op.time
    <2>1. m = "B" /\ q[1] = "A"
      BY DEF Deps, Table, Model
    <2>2. End(q) <= op.time
      BY <1>4, <2>1, Places, Units DEF End
    <2>3. ledger[q] = "done"
      BY <1>1, <1>2, <2>1, <2>2, ParentsDone
    <2> QED
      BY <1>2, <2>3 DEF DoneLoaded
  <1>12. ASSUME NEW p \in at(b)
         PROVE  rows'[p].v # "none" /\ (m = "B" => rows'[p].whole) /\ Fresh(p)'
    <2>1. p \in Place /\ p[1] = m /\ p[2] + Unit(m) <= op.time /\ p[2] \in Nat /\ Unit(m) \in Nat
      BY <1>7, Places, Units DEF End
    <2>2. Complete(m, Interval(p[2], p[2] + Unit(m)))
      <3>1. \A q \in Place : q[2] \in Nat
        BY Places
      <3> QED
        BY <1>4, <1>11, <2>1, <3>1 DEF Complete, Interval
    <2>3. rows'[p] = [v |-> v, whole |-> Complete(m, Interval(p[2], p[2] + Unit(m)))]
      BY <1>3, <2>1
    <2>4. ASSUME WholeIntervals
          PROVE  p \notin stale'
      <3>1. ASSUME NEW i \in IntervalsWithin(b, Unit(m)), NEW q \in stale,
                   q[1] \in Deps[m], i.start <= q[2], q[2] < i.end
            PROVE  FALSE
        <4>1. q \in Place /\ q[2] \in Nat
          BY <1>2, Places DEF Typed
        <4>2. q[2] < op.time
          <5>1. i.end <= op.time
            BY <1>7
          <5>2. PICK c \in 0 .. MaxTime, d \in 0 .. MaxTime :
                  c < d /\ b = Part(Unit(m), c, d)
            BY <1>6 DEF IsBatch
          <5>3. PICK k \in Nat : i = Slot(Unit(m), k)
            BY <5>2, WithinSlots, Units, TicksAssumption DEF Slots
          <5>4. i.end \in Int
            BY <5>3, Units DEF Slot, Interval
          <5> QED
            BY <1>4, <3>1, <4>1, <5>1, <5>4
        <4> QED
          BY <1>11, <2>4, <3>1, <4>1, <4>2 DEF Fresh
      <3> QED
        BY <1>3, <3>1
    <2> QED
      BY <2>2, <2>3, <2>4 DEF Fresh
  <1>13. \A p \in Place : p \notin at(b) => rows'[p] = rows[p] /\ (p \in stale' => p \in stale)
    BY <1>3
  <1>14. Typed'
    <2>1. op' \in Operation
      <3>1. [op.todo EXCEPT ![m] = @ \ {b}] \in [Table -> SUBSET Span]
        BY <1>4 DEF Operation
      <3> QED
        BY <1>3, <1>4, <1>7, <3>1 DEF Operation
    <2>2. rows' \in [Place -> [v : {"none", "ok", "bad", "dup"}, whole : BOOLEAN]]
      <3>1. \A i : Complete(m, i) \in BOOLEAN
        BY DEF Complete
      <3> QED
        BY <1>2, <1>3, <3>1 DEF Typed
    <2>3. stale' \subseteq Place /\ registered' \subseteq Model
      BY <1>1, <1>2, <1>3 DEF Typed, Model
    <2> QED
      BY <1>1, <1>2, <1>5, <2>1, <2>2, <2>3 DEF Typed
  <1>15. Planned'
    BY <1>1, <1>2, <1>5, <1>6, <1>9, <1>10 DEF Planned, Ready
  <1>16. Held'
    BY <1>1, <1>9 DEF Held
  <1>17. Counted'
    <2>1. Horizon' = op.time /\ Horizon = op.time
      BY <1>1, <1>5 DEF Horizon
    <2> QED
      BY <1>1, <1>2, <1>7, <1>13, <2>1 DEF Counted
  <1>18. Progress'
    <2> SUFFICES ASSUME NEW p \in Place, End(p) <= op.time, ledger[p] # "done"
                 PROVE  Pending(p)'
      BY <1>1, <1>5 DEF Progress
    <2>1. p[1] \in Table
      BY Places
    <2>2. PICK c \in op.todo[p[1]] : p \in At(p[1], c)
      BY <1>1, <1>2, <1>9, <2>1 DEF Progress, Pending
    <2>3. CASE p[1] = m /\ c = b
      BY <1>5, <1>9, <2>2, <2>3 DEF Pending
    <2>4. CASE ~(p[1] = m /\ c = b)
      BY <1>5, <2>1, <2>2, <2>4 DEF Pending
    <2> QED
      BY <2>3, <2>4
  <1>19. Loaded'
    BY <1>5, <1>9, <1>12 DEF Loaded, at
  <1>20. DoneLoaded'
    BY <1>1, <1>2, <1>7, <1>12, <1>13 DEF DoneLoaded, Fresh
  <1>21. Caught'
    BY <1>1, <1>2 DEF Caught
  <1>22. Once'
    <2> SUFFICES ASSUME lookback = 0, NEW n \in Table
                 PROVE  /\ \A x \in op'.todo[n] : \A p \in At(n, x) : ledger[p] # "done"
                        /\ \A x, y \in op'.todo[n] : x # y => At(n, x) \cap At(n, y) = {}
                        /\ n = m => /\ \A p \in At(n, b) : ledger[p] # "done"
                                    /\ \A x \in op'.todo[n] : At(n, x) \cap At(n, b) = {}
      BY <1>1, <1>5, <1>9 DEF Once
    <2>1. op'.todo[n] \subseteq op.todo[n] /\ (n = m => b \notin op'.todo[n])
      BY <1>5
    <2> QED
      BY <1>2, <2>1 DEF Once
  <1>23. Audits'
    BY <1>1, <1>2, <1>5, <1>9, <1>13 DEF Audits, Sound, at
  <1>24. Clean'
    BY <1>5 DEF Clean
  <1>25. ExportVerified'
    BY <1>1, <1>2 DEF ExportVerified
  <1>26. Manifests'
    <2>1. Horizon' = op.time /\ Horizon = op.time
      BY <1>1, <1>5 DEF Horizon
    <2>2. ASSUME NEW n \in Table, n # m
          PROVE  (Listed(n) => Listed(n)') /\ (Due(n) => Due(n)')
      BY <1>1, <1>2, <1>4, <2>1, <2>2, SameBooks
    <2>3. Ready(m)'
      BY <1>1, <1>9
    <2> QED
      BY <1>1, <1>2, <1>5, <1>9, <2>2, <2>3 DEF Manifests
  <1> QED
    BY <1>14, <1>15, <1>16, <1>17, <1>18, <1>19, <1>20, <1>21, <1>22, <1>23, <1>24, <1>25, <1>26
    DEF IInv

\* A batch is marked done.
LEMMA MarkDoneKeeps ==
    ASSUME IInv, NEW m \in Table, MarkDone(m)
    PROVE  IInv'
  <1> DEFINE at == At(m, op.batch)
  <1>1. /\ Ready(m) /\ Loading(m) /\ op.at = "building" /\ "bad" \notin {rows[p].v : p \in at}
        /\ op' = [op EXCEPT !.batch = None]
        /\ ledger' = [p \in Place |-> IF p \in at THEN "done" ELSE ledger[p]]
        /\ UNCHANGED <<lookback, now, rows, registered, manifest, exported, caught, restating,
                       stale, lapsed>>
    BY DEF MarkDone, Mark, Verdicts, At, Loading, Ready, books
  <1>2. /\ Typed /\ Planned /\ Counted /\ Progress /\ Loaded /\ DoneLoaded /\ Caught
        /\ Once /\ Audits /\ ExportVerified /\ Manifests
    BY DEF IInv
  <1>3. op \in Operation /\ op.time \in Nat /\ now \in Nat /\ op.time <= now
    BY <1>2, TicksAssumption DEF Typed, Operation
  <1>4. /\ op'.at = "building" /\ op'.time = op.time /\ op'.working = op.working
        /\ op'.built = op.built /\ op'.batch = None /\ op'.todo = op.todo
    BY <1>1, <1>3 DEF Operation
  <1>5. at \subseteq Place /\ \A p \in at : p[1] = m /\ End(p) <= op.time
    BY <1>1, <1>2, PlannedPlaces DEF Planned
  <1>6. \A n \in Table : /\ Ready(n)' <=> Ready(n)
                         /\ Loading(n) => n = m
                         /\ ~Loading(n)'
    BY <1>1, <1>4, OneReady DEF Ready, Loading
  <1>7. \A n, x : IsBatch(n, x)' <=> IsBatch(n, x)
    BY <1>4 DEF IsBatch
  <1>8. \A p \in at : rows[p].v \in {"ok", "dup"} /\ (m = "B" => rows[p].whole) /\ Fresh(p)
    BY <1>1, <1>2, <1>5 DEF Loaded, Typed
  <1>9. \A p \in Place : /\ p \in at => ledger'[p] = "done"
                         /\ p \notin at => ledger'[p] = ledger[p]
    BY <1>1
  <1>10. Horizon' = op.time /\ Horizon = op.time
    BY <1>1, <1>4 DEF Horizon
  <1>11. Typed'
    <2>1. op' \in Operation
      BY <1>1, <1>3 DEF Operation
    <2>2. ledger' \in [Place -> {"none", "done", "failed"}]
      BY <1>1, <1>2 DEF Typed
    <2> QED
      BY <1>1, <1>2, <1>4, <2>1, <2>2 DEF Typed
  <1>12. Planned'
    BY <1>2, <1>4, <1>6, <1>7 DEF Planned
  <1>13. Held' /\ Loaded' /\ Clean'
    BY <1>4, <1>6 DEF Held, Loaded, Clean
  <1> HIDE DEF at
  <1>14. Counted'
    BY <1>1, <1>2, <1>5, <1>9, <1>10 DEF Counted
  <1>15. Progress'
    <2> SUFFICES ASSUME NEW p \in Place, End(p) <= op.time, ledger[p] # "done", p \notin at
                 PROVE  Pending(p)'
      BY <1>4, <1>9 DEF Progress
    <2>1. p[1] \in Table
      BY Places
    <2>2. Pending(p)
      BY <1>1, <1>2 DEF Progress
    <2> QED
      BY <1>4, <1>6, <2>1, <2>2 DEF Pending, at
  <1>16. DoneLoaded'
    BY <1>1, <1>2, <1>5, <1>8, <1>9 DEF DoneLoaded, Fresh
  <1>17. Caught'
    BY <1>1, <1>2, <1>9 DEF Caught
  <1>18. Once'
    <2> SUFFICES ASSUME lookback = 0, NEW n \in Table, NEW x \in op.todo[n], NEW p \in At(n, x)
                 PROVE  ledger'[p] # "done"
      BY <1>1, <1>2, <1>4, <1>6 DEF Once
    <2>1. p \in Place /\ p[1] = n
      BY <1>2, PlannedPlaces DEF Planned
    <2>2. ledger[p] # "done"
      BY <1>2 DEF Once
    <2>3. n = m => p \notin at
      BY <1>1, <1>2 DEF Once, at
    <2> QED
      BY <1>5, <1>9, <2>1, <2>2, <2>3
  <1>19. Audits'
    BY <1>1, <1>2, <1>6, <1>8, <1>9 DEF Audits, Sound, at
  <1>20. ExportVerified'
    BY <1>1, <1>2 DEF ExportVerified
  <1>21. Manifests'
    <2>1. ASSUME NEW n \in Table, n # m
          PROVE  (Listed(n) => Listed(n)') /\ (Due(n) => Due(n)')
      BY <1>1, <1>2, <1>3, <1>5, <1>9, <1>10, <2>1, SameBooks
    <2> QED
      BY <1>1, <1>2, <1>4, <1>6, <2>1 DEF Manifests
  <1> QED
    BY <1>11, <1>12, <1>13, <1>14, <1>15, <1>16, <1>17, <1>18, <1>19, <1>20, <1>21 DEF IInv

\* An operation ends, well or not: nothing of it is left but the ledger.
LEMMA Stopped ==
    ASSUME IInv, op' = Idle, Typed', lookback' = lookback, rows' = rows, stale' = stale,
           now' = now,
           \A p \in Place : \/ ledger'[p] = ledger[p]
                            \/ ledger'[p] = "failed" /\ End(p) <= op.time
    PROVE  /\ Planned' /\ Held' /\ Counted' /\ Progress' /\ Loaded' /\ DoneLoaded' /\ Once'
           /\ Clean'
           /\ op'.at = "idle" /\ Horizon' = now /\ Horizon <= now
           /\ now \in Nat /\ Horizon \in Nat
           /\ \A m \in Table : ~Loading(m)'
  <1>1. Typed /\ Counted /\ DoneLoaded
    BY DEF IInv
  <1>2. op'.at = "idle" /\ op'.batch = None /\ \A m \in Table : op'.todo[m] = {}
    BY DEF Idle
  <1>3. \A m \in Table : ~Loading(m)'
    BY <1>2 DEF Loading
  <1>4. Planned' /\ Held' /\ Progress' /\ Loaded' /\ Once' /\ Clean'
    BY <1>2, <1>3 DEF Planned, Held, Progress, Loaded, Once, Clean
  <1>5. Horizon' = now /\ Horizon <= now /\ now \in Nat /\ Horizon \in Nat /\ op.time <= now
    BY <1>1, <1>2, TicksAssumption DEF Horizon, Typed, Operation
  <1>6. Counted'
    <2>1. \A p \in Place : End(p) \in Nat
      BY Places, Units DEF End
    <2>2. op.time \in Nat
      BY <1>1 DEF Typed, Operation
    <2> QED
      BY <1>1, <1>5, <2>1, <2>2 DEF Counted
  <1>7. DoneLoaded'
    BY <1>1 DEF DoneLoaded, Fresh
  <1> QED
    BY <1>2, <1>3, <1>4, <1>5, <1>6, <1>7

\* The intervals of a batch are marked failed, or the mark is passed over.
LEMMA FailedMark ==
    ASSUME IInv, NEW m \in Table, Ready(m), NEW b, IsBatch(m, b),
           MarkFailed(m, IntervalsWithin(b, Unit(m))), op' = Idle,
           UNCHANGED <<lookback, now, rows, manifest, exported, restating, stale>>,
           registered \subseteq registered', registered' \subseteq registered \cup {m},
           \/ b = op.batch
           \/ op.batch = None /\ b \in op.todo[m]
    PROVE  IInv'
  <1> DEFINE at == At(m, b)
  <1>1. \/ /\ ledger' = [p \in Place |-> IF p \in at THEN "failed" ELSE ledger[p]]
           /\ caught' = 0 /\ lapsed' = lapsed
        \/ lapsed' = TRUE /\ ledger' = ledger /\ caught' = caught
    BY DEF MarkFailed, Mark, At
  <1>2. /\ Typed /\ Planned /\ DoneLoaded /\ Caught /\ Once /\ Audits /\ ExportVerified /\ Manifests
    BY DEF IInv
  <1>3. at \subseteq Place /\ at # {} /\ \A p \in at : p[1] = m /\ End(p) <= op.time
    BY <1>2, PlannedPlaces
  <1> HIDE DEF at
  <1>4. \A p \in Place : \/ ledger'[p] = ledger[p]
                         \/ p \in at /\ ledger'[p] = "failed" /\ End(p) <= op.time
    BY <1>1, <1>3
  <1>5. Typed'
    <2>1. Idle \in Operation /\ Idle.time = 0
      BY DEF Idle, Operation
    <2>2. ledger' \in [Place -> {"none", "done", "failed"}]
      BY <1>1, <1>2 DEF Typed
    <2>3. now \in Nat /\ 0 \in 0 .. now /\ caught \in 0 .. now /\ lapsed \in BOOLEAN
      BY <1>2, TicksAssumption DEF Typed
    <2>4. registered' \subseteq Model
      BY <1>2 DEF Typed, Model
    <2>5. caught' \in 0 .. now' /\ lapsed' \in BOOLEAN
      BY <1>1, <2>3
    <2>6. op' \in Operation /\ op'.time <= now'
      BY <2>1, <2>3
    <2> QED
      BY <1>2, <2>2, <2>4, <2>5, <2>6 DEF Typed
  <1>6. /\ Planned' /\ Held' /\ Counted' /\ Progress' /\ Loaded' /\ DoneLoaded' /\ Once' /\ Clean'
        /\ op'.at = "idle" /\ Horizon' = now /\ Horizon <= now
        /\ now \in Nat /\ Horizon \in Nat
        /\ \A n \in Table : ~Loading(n)'
    BY <1>4, <1>5, Stopped
  <1>7. Caught'
    <2>1. \A p \in Place : End(p) \in Nat \ {0}
      BY Places, Units DEF End
    <2>2. CASE caught' = 0
      BY <2>1, <2>2 DEF Caught
    <2>3. CASE ledger' = ledger /\ caught' = caught
      BY <1>2, <2>3 DEF Caught
    <2> QED
      BY <1>1, <2>2, <2>3
  <1>8. Audits'
    <2> SUFFICES ASSUME Sound', NEW p \in Place, ledger'[p] = "done"
                 PROVE  rows[p].v \in {"ok", "dup"}
      BY DEF Audits
    <2>1. Sound /\ ledger[p] = "done"
      BY <1>1, <1>4 DEF Sound
    <2>2. \A n \in Table : Loading(n) => n = m
      BY OneReady DEF Loading
    <2>3. Loading(m) /\ b = op.batch => p \notin at
      <3> SUFFICES ASSUME Loading(m), b = op.batch, p \in at
                   PROVE  FALSE
        OBVIOUS
      <3>1. lookback = 0
        <4>1. CASE lapsed'
          BY <4>1 DEF Sound
        <4>2. CASE ~lapsed'
          BY <1>1, <1>3, <2>1, <4>2
        <4> QED
          BY <4>1, <4>2
      <3> QED
        BY <1>2, <2>1, <3>1 DEF Once, at
    <2> QED
      BY <1>2, <2>1, <2>2, <2>3 DEF Audits, Loading, at
  <1>9. ExportVerified'
    BY <1>1, <1>2 DEF ExportVerified
  <1>10. Manifests'
    <2> SUFFICES ASSUME ~lapsed', NEW n \in Table
                 PROVE  Listed(n)' \/ Due(n)'
      BY <1>6 DEF Manifests
    <2>1. /\ ~lapsed
          /\ ledger' = [p \in Place |-> IF p \in at THEN "failed" ELSE ledger[p]]
      BY <1>1
    <2>2. CASE n = m
      <3>1. PICK p \in at : TRUE
        BY <1>3
      <3>2. p \in Place /\ p[1] = m /\ ledger'[p] # "done" /\ End(p) \in Nat /\ End(p) <= op.time
        BY <1>3, <2>1, <3>1, Places, Units DEF End
      <3>3. End(p) <= Horizon'
        BY <1>2, <1>6, <3>2 DEF Typed, Operation
      <3> QED
        BY <2>2, <3>2, <3>3 DEF Due
    <2>3. CASE n # m
      <3>1. Listed(n) \/ Due(n)
        BY <1>2, <2>1, <2>3, OneReady DEF Manifests
      <3>2. (Listed(n) => Listed(n)') /\ (Due(n) => Due(n)')
        BY <1>2, <1>3, <1>6, <2>1, <2>3, SameBooks
      <3> QED
        BY <3>1, <3>2
    <2> QED
      BY <2>2, <2>3
  <1> QED
    BY <1>5, <1>6, <1>7, <1>8, <1>9, <1>10 DEF IInv

LEMMA FailuresKeep ==
    ASSUME IInv, NEW m \in Table, WriteFails(m) \/ AuditFails(m)
    PROVE  IInv'
  <1>1. CASE WriteFails(m)
    <2>1. PICK b \in op.todo[m] : MarkFailed(m, IntervalsWithin(b, Unit(m)))
      BY <1>1 DEF WriteFails
    <2>2. IsBatch(m, b)
      BY DEF IInv, Planned
    <2>3. /\ Ready(m) /\ op.batch = None /\ op' = Idle
          /\ UNCHANGED <<lookback, now, rows, manifest, exported, restating, stale>>
          /\ registered' = registered \cup {m}
      BY <1>1 DEF WriteFails
    <2> QED
      BY <2>1, <2>2, <2>3, FailedMark
  <1>2. CASE AuditFails(m)
    <2>1. /\ MarkFailed(m, IntervalsWithin(op.batch, Unit(m)))
          /\ Ready(m) /\ op.batch # None /\ op' = Idle
          /\ UNCHANGED <<lookback, now, rows, manifest, exported, restating, stale>>
          /\ registered' = registered
      BY <1>2 DEF AuditFails
    <2>2. IsBatch(m, op.batch)
      BY <2>1 DEF IInv, Planned, Loading
    <2> QED
      BY <2>1, <2>2, FailedMark
  <1> QED
    BY <1>1, <1>2

\* The operation ends without a mark.
LEMMA EndKeeps ==
    ASSUME IInv, op' = Idle, caught' \in {caught, op.time},
           UNCHANGED <<lookback, now, rows, ledger, registered, manifest, exported, restating,
                       stale>>,
           lapsed' \in BOOLEAN, lapsed => lapsed',
           caught' # caught => op.at = "exported",
           op.batch = None \/ lapsed',
           ~lapsed' => \A m \in Table : Listed(m) \/ Due(m)
    PROVE  IInv'
  <1>1. /\ Typed /\ Planned /\ Counted /\ Progress /\ Caught /\ Once /\ Audits /\ ExportVerified
    BY DEF IInv
  <1>2. Typed'
    <2>1. Idle \in Operation /\ Idle.time = 0
      BY DEF Idle, Operation
    <2>2. now \in Nat /\ caught' \in 0 .. now
      BY <1>1, TicksAssumption DEF Typed, Operation
    <2>3. op' \in Operation /\ op'.time <= now'
      BY <2>1, <2>2
    <2> QED
      BY <1>1, <2>2, <2>3 DEF Typed
  <1>3. /\ Planned' /\ Held' /\ Counted' /\ Progress' /\ Loaded' /\ DoneLoaded' /\ Once' /\ Clean'
        /\ op'.at = "idle" /\ Horizon' = now /\ Horizon <= now
        /\ now \in Nat /\ Horizon \in Nat
        /\ \A n \in Table : ~Loading(n)'
    BY <1>2, Stopped
  <1>4. Caught'
    <2>1. CASE caught' = caught
      BY <1>1, <2>1 DEF Caught
    <2>2. CASE caught' # caught
      <3>1. op.at = "exported" /\ caught' = op.time /\ Horizon = op.time
        BY <2>2 DEF Horizon
      <3>2. \A p \in Place : ~Pending(p)
        <4>1. \A p \in Place : p[1] \in Table
          BY Places
        <4> QED
          BY <1>1, <3>1, <4>1 DEF Pending, Planned, Loading, Ready
      <3>3. \A p \in Place : End(p) <= op.time => ledger[p] = "done"
        BY <1>1, <3>1, <3>2 DEF Progress
      <3> QED
        BY <1>1, <3>1, <3>3 DEF Caught, Counted
    <2> QED
      BY <2>1, <2>2
  <1>5. Audits'
    <2> SUFFICES ASSUME Sound', NEW p \in Place, ledger[p] = "done"
                 PROVE  rows[p].v \in {"ok", "dup"}
      BY DEF Audits
    <2>1. Sound
      BY DEF Sound
    <2>2. \A n \in Table : Loading(n) => p \notin At(n, op.batch)
      BY <1>1 DEF Loading, Sound, Once
    <2> QED
      BY <1>1, <2>1, <2>2 DEF Audits
  <1>6. ExportVerified'
    BY <1>1 DEF ExportVerified
  <1>7. Manifests'
    <2>1. ASSUME NEW n \in Table
          PROVE  (Listed(n) => Listed(n)') /\ (Due(n) => Due(n)')
      BY <1>1, <1>3, SameBooks
    <2> QED
      BY <1>3, <2>1 DEF Manifests
  <1> QED
    BY <1>2, <1>3, <1>4, <1>5, <1>6, <1>7 DEF IInv

LEMMA EndsKeep ==
    ASSUME IInv, WholeAuditFails \/ Promote \/ Fails \/ Killed
    PROVE  IInv'
  <1>1. /\ Typed /\ Planned /\ Held /\ Once /\ Manifests
    BY DEF IInv
  <1>2. lapsed \in BOOLEAN
    BY <1>1 DEF Typed
  <1>3. ~(\E m \in Table : Ready(m)) => op.batch = None
    BY <1>1 DEF Held
  <1>4. CASE WholeAuditFails
    <2>1. /\ op.at = "building" /\ op.built = op.working /\ op' = Idle
          /\ UNCHANGED <<lookback, now, rows, ledger, registered, manifest, exported, caught,
                         restating, stale, lapsed>>
      BY <1>4 DEF WholeAuditFails, AllBuilt
    <2>2. \A m \in Table : ~Ready(m)
      BY <2>1 DEF Ready
    <2>3. ~lapsed => \A m \in Table : Listed(m)
      BY <1>1, <2>1, <2>2 DEF Manifests
    <2> QED
      BY <1>2, <1>3, <2>1, <2>2, <2>3, EndKeeps
  <1>5. CASE Promote
    <2>1. /\ op.at = "exported" /\ op' = Idle /\ caught' = op.time
          /\ UNCHANGED <<lookback, now, rows, ledger, registered, manifest, exported,
                         restating, stale, lapsed>>
      BY <1>5 DEF Promote
    <2>2. \A m \in Table : ~Ready(m)
      BY <2>1 DEF Ready
    <2>3. ~lapsed => \A m \in Table : Listed(m)
      BY <1>1, <2>1, <2>2 DEF Manifests
    <2> QED
      BY <1>2, <1>3, <2>1, <2>2, <2>3, EndKeeps
  <1>6. CASE Fails
    <2>1. /\ op.at # "idle" /\ op.batch = None /\ op' = Idle
          /\ \A m \in registered \cap Table : Ready(m) => op.todo[m] # {}
          /\ UNCHANGED <<lookback, now, rows, ledger, registered, manifest, exported, caught,
                         restating, stale, lapsed>>
      BY <1>6 DEF Fails
    <2>2. ASSUME NEW m \in Table, Ready(m)
          PROVE  Due(m)
      <3>1. CASE m \notin registered
        BY <3>1 DEF Due
      <3>2. CASE m \in registered
        <4>1. PICK b \in op.todo[m] : TRUE
          BY <2>1, <2>2, <3>2
        <4>2. PICK p \in At(m, b) : p \in Place /\ p[1] = m /\ End(p) <= op.time
          BY <1>1, PlannedPlaces DEF Planned
        <4>3. Horizon = op.time
          BY <2>1 DEF Horizon
        <4>4. CASE ledger[p] # "done"
          BY <4>2, <4>3, <4>4 DEF Due
        <4>5. CASE ledger[p] = "done"
          <5>1. lookback > 0
            BY <1>1, <4>5 DEF Once, Typed
          <5>2. Done(m) # {}
            BY <4>2, <4>5 DEF Done, With
          <5> QED
            BY <5>1, <5>2 DEF Due
        <4> QED
          BY <4>4, <4>5
      <3> QED
        BY <3>1, <3>2
    <2>3. ~lapsed => \A m \in Table : Listed(m) \/ Due(m)
      BY <1>1, <2>2 DEF Manifests
    <2> QED
      BY <1>2, <2>1, <2>3, EndKeeps
  <1>7. CASE Killed
    <2>1. /\ op' = Idle /\ lapsed' = TRUE
          /\ UNCHANGED <<lookback, now, rows, ledger, registered, manifest, exported, caught,
                         restating, stale>>
      BY <1>7 DEF Killed, books
    <2> QED
      BY <2>1, EndKeeps
  <1> QED
    BY <1>4, <1>5, <1>6, <1>7

\* A model has been built.
LEMMA BuiltKeeps ==
    ASSUME IInv, NEW m \in Table, Built(m) \/ ManifestFails(m)
    PROVE  IInv'
  <1>1. /\ Ready(m) /\ op.at = "building" /\ op.batch = None /\ op.todo[m] = {}
        /\ op' = [op EXCEPT !.built = @ \cup {m}]
        /\ registered' = registered \cup {m}
        /\ UNCHANGED <<lookback, now, rows, ledger, exported, caught, restating, stale>>
        /\ \/ lapsed' = lapsed /\ manifest' = [manifest EXCEPT ![m] = {i.start : i \in Done(m)}]
           \/ lapsed' = TRUE /\ manifest' = manifest
    BY DEF Built, ManifestFails, Ready, books
  <1>2. /\ Typed /\ Planned /\ Counted /\ Progress /\ DoneLoaded /\ Caught
        /\ Once /\ Audits /\ ExportVerified /\ Manifests
    BY DEF IInv
  <1>3. op \in Operation /\ op.time \in Nat /\ now \in Nat /\ op.time <= now
    BY <1>2, TicksAssumption DEF Typed, Operation
  <1>4. /\ op'.at = "building" /\ op'.time = op.time /\ op'.working = op.working
        /\ op'.built = op.built \cup {m} /\ op'.batch = None /\ op'.todo = op.todo
    BY <1>1, <1>3 DEF Operation
  <1>5. \A n \in Table : ~Loading(n) /\ ~Loading(n)'
    BY <1>1, <1>4 DEF Loading
  <1>6. \A n, x : IsBatch(n, x)' <=> IsBatch(n, x)
    BY <1>4 DEF IsBatch
  <1>7. Horizon' = op.time /\ Horizon = op.time
    BY <1>1, <1>4 DEF Horizon
  <1>8. Done(m)' = Done(m)
    BY <1>1 DEF Done, With
  <1>9. Typed'
    <2>1. op' \in Operation
      BY <1>1, <1>3 DEF Operation, Model
    <2>2. \A i \in Done(m) : i.start \in Nat
      BY Places DEF Done, With, Interval
    <2>3. manifest' \in [Table -> SUBSET Nat]
      BY <1>1, <1>2, <2>2 DEF Typed
    <2>4. registered' \subseteq Model /\ lapsed' \in BOOLEAN
      BY <1>1, <1>2 DEF Typed, Model
    <2> QED
      BY <1>1, <1>2, <1>4, <2>1, <2>3, <2>4 DEF Typed
  <1>10. Planned'
    BY <1>1, <1>2, <1>4, <1>5, <1>6 DEF Planned
  <1>11. Held' /\ Loaded' /\ Clean'
    BY <1>4, <1>5 DEF Held, Loaded, Clean
  <1>12. Counted'
    BY <1>1, <1>2, <1>7 DEF Counted
  <1>13. Progress'
    <2>1. \A p \in Place : p[1] \in Table
      BY Places
    <2> QED
      BY <1>1, <1>2, <1>4, <1>5, <2>1 DEF Progress, Pending
  <1>14. DoneLoaded' /\ Caught'
    BY <1>1, <1>2 DEF DoneLoaded, Fresh, Caught
  <1>15. Once'
    BY <1>1, <1>2, <1>4, <1>5 DEF Once
  <1>16. Audits' /\ ExportVerified'
    BY <1>1, <1>2, <1>5 DEF Audits, Sound, ExportVerified
  <1>17. Manifests'
    <2> SUFFICES ASSUME ~lapsed', NEW n \in Table
                 PROVE  Listed(n)' \/ (Due(n)' /\ n \in op'.working \ op'.built)
      BY <1>4 DEF Manifests
    <2>1. ~lapsed /\ manifest' = [manifest EXCEPT ![m] = {i.start : i \in Done(m)}]
      BY <1>1
    <2>2. CASE n = m
      BY <1>2, <1>8, <2>1, <2>2 DEF Listed, Typed
    <2>3. CASE n # m
      <3>1. Listed(n) \/ (Due(n) /\ n \in op.working \ op.built)
        BY <1>1, <1>2, <2>1, <2>3, OneReady DEF Manifests
      <3>2. (Listed(n) => Listed(n)') /\ (Due(n) => Due(n)')
        BY <1>1, <1>2, <1>3, <1>7, <2>1, <2>3, SameBooks DEF Typed
      <3> QED
        BY <1>4, <2>3, <3>1, <3>2
    <2> QED
      BY <2>2, <2>3
  <1> QED
    BY <1>9, <1>10, <1>11, <1>12, <1>13, <1>14, <1>15, <1>16, <1>17 DEF IInv

LEMMA BuildFullKeeps ==
    ASSUME IInv, BuildFull
    PROVE  IInv'
  <1>1. /\ Ready("F") /\ op.at = "building" /\ op' = [op EXCEPT !.built = @ \cup {"F"}]
        /\ registered' = registered \cup {"F"}
        /\ UNCHANGED <<lookback, now, rows, ledger, manifest, exported, caught, restating, stale,
                       lapsed>>
    BY DEF BuildFull, Ready, books
  <1>2. /\ Typed /\ Planned /\ Held /\ Counted /\ Progress /\ Loaded /\ DoneLoaded /\ Caught
        /\ Once /\ Audits /\ ExportVerified /\ Manifests
    BY DEF IInv
  <1>3. op \in Operation /\ op.time \in Nat
    BY <1>2 DEF Typed, Operation
  <1>4. /\ op'.at = "building" /\ op'.time = op.time /\ op'.working = op.working
        /\ op'.built = op.built \cup {"F"} /\ op'.batch = op.batch /\ op'.todo = op.todo
    BY <1>1, <1>3 DEF Operation
  <1>5. \A n \in Table : /\ Ready(n)' <=> Ready(n)
                         /\ Loading(n)' <=> Loading(n)
                         /\ n \in op'.working \ op'.built <=> n \in op.working \ op.built
    BY <1>1, <1>4 DEF Loading, Ready, Deps, Table, Model
  <1>6. \A n, x : IsBatch(n, x)' <=> IsBatch(n, x)
    BY <1>4 DEF IsBatch
  <1>7. Horizon' = op.time /\ Horizon = op.time
    BY <1>1, <1>4 DEF Horizon
  <1>8. Typed'
    <2>1. op' \in Operation
      BY <1>1, <1>3 DEF Operation, Model
    <2>2. registered' \subseteq Model
      BY <1>1, <1>2 DEF Typed, Model
    <2> QED
      BY <1>1, <1>2, <1>4, <2>1, <2>2 DEF Typed
  <1>9. Planned'
    BY <1>1, <1>2, <1>4, <1>5, <1>6 DEF Planned
  <1>10. Held' /\ Loaded' /\ Clean'
    BY <1>1, <1>2, <1>4, <1>5 DEF Held, Loaded, Fresh, Clean
  <1>11. Counted'
    BY <1>1, <1>2, <1>7 DEF Counted
  <1>12. Progress'
    <2>1. \A p \in Place : p[1] \in Table
      BY Places
    <2> QED
      BY <1>1, <1>2, <1>4, <1>5, <2>1 DEF Progress, Pending
  <1>13. DoneLoaded' /\ Caught'
    BY <1>1, <1>2 DEF DoneLoaded, Fresh, Caught
  <1>14. Once'
    BY <1>1, <1>2, <1>4, <1>5 DEF Once
  <1>15. Audits' /\ ExportVerified'
    BY <1>1, <1>2, <1>4, <1>5 DEF Audits, Sound, ExportVerified
  <1>16. Manifests'
    <2>1. ASSUME NEW n \in Table
          PROVE  (Listed(n) => Listed(n)') /\ (Due(n) => Due(n)')
      <3>1. n # "F"
        BY DEF Table
      <3> QED
        BY <1>1, <1>2, <1>3, <1>7, <3>1, SameBooks
    <2> QED
      BY <1>1, <1>2, <1>4, <1>5, <2>1 DEF Manifests
  <1> QED
    BY <1>8, <1>9, <1>10, <1>11, <1>12, <1>13, <1>14, <1>15, <1>16 DEF IInv

\* The audits of the whole pass: no row of what was built is refused by any
\* audit.
LEMMA AuditedIsClean ==
    ASSUME IInv, WholeAudits, Sound, "B" \in op.working
    PROVE  ~Tainted
  <1>1. /\ op.at = "building" /\ op.built = op.working /\ Audited("B")
    BY DEF WholeAudits, AllBuilt, Table
  <1>2. Typed /\ Planned /\ Counted /\ Progress /\ Audits
    BY DEF IInv
  <1>3. \A m \in Table : ~Loading(m)
    BY <1>1 DEF Loading, Ready
  <1>4. op.todo["B"] = {}
    BY <1>1, <1>2 DEF Planned, Table
  <1> SUFFICES ASSUME NEW p \in Place, p[1] = "B", rows[p].v \in {"bad", "dup"}
               PROVE  FALSE
    BY DEF Tainted
  <1>5. rows[p].v = "bad"
    BY <1>1 DEF Audited
  <1>6. End(p) <= op.time
    BY <1>1, <1>2, <1>5 DEF Counted, Horizon
  <1>7. ~Pending(p)
    BY <1>3, <1>4 DEF Pending, Table
  <1>8. ledger[p] = "done"
    BY <1>1, <1>2, <1>6, <1>7 DEF Progress
  <1> QED
    BY <1>2, <1>3, <1>5, <1>8 DEF Audits

LEMMA PassKeeps ==
    ASSUME IInv, WholeAudits \/ Export
    PROVE  IInv'
  <1>1. /\ op.at \in {"building", "audited"} /\ op'.at \in {"audited", "exported"}
        /\ \/ op' = [op EXCEPT !.at = "audited"]
           \/ op' = [op EXCEPT !.at = "exported"]
        /\ UNCHANGED <<lookback, now, rows, ledger, registered, manifest, caught, restating,
                       stale, lapsed>>
        /\ \A m \in Table : ~Ready(m)
    <2>1. op \in Operation
      BY DEF IInv, Typed
    <2> QED
      BY <2>1 DEF WholeAudits, AllBuilt, Export, Ready, books, Operation
  <1>2. /\ Typed /\ Planned /\ Held /\ Counted /\ Progress /\ DoneLoaded /\ Caught
        /\ Once /\ Audits /\ Clean /\ ExportVerified /\ Manifests
    BY DEF IInv
  <1>3. op \in Operation /\ op.time \in Nat
    BY <1>2 DEF Typed, Operation
  <1>4. /\ op'.time = op.time /\ op'.working = op.working
        /\ op'.built = op.built /\ op'.batch = None /\ op'.todo = op.todo
    BY <1>1, <1>2, <1>3 DEF Operation, Held
  <1>5. \A n \in Table : ~Loading(n) /\ ~Loading(n)' /\ op.todo[n] = {}
    <2>1. CASE op.at = "audited"
      BY <1>1, <1>2, <1>4, <2>1 DEF Loading, Planned
    <2>2. CASE op.at = "building"
      <3>1. op.built = op.working
        BY <2>2 DEF WholeAudits, AllBuilt, Export
      <3> QED
        BY <1>1, <1>2, <1>4, <3>1 DEF Loading, Planned
    <2> QED
      BY <1>1, <2>1, <2>2
  <1>6. Horizon' = op.time /\ Horizon = op.time
    BY <1>1, <1>4 DEF Horizon
  <1>7. Typed'
    <2>1. op' \in Operation
      BY <1>1, <1>3 DEF Operation
    <2> QED
      BY <1>1, <1>2, <1>4, <2>1 DEF Typed
  <1>8. Planned' /\ Held' /\ Loaded'
    BY <1>4, <1>5 DEF Planned, Held, Loaded
  <1>9. Counted'
    BY <1>1, <1>2, <1>6 DEF Counted
  <1>10. Progress'
    <2>1. \A p \in Place : p[1] \in Table
      BY Places
    <2> QED
      BY <1>1, <1>2, <1>4, <1>5, <2>1 DEF Progress, Pending
  <1>11. DoneLoaded' /\ Caught'
    BY <1>1, <1>2 DEF DoneLoaded, Fresh, Caught
  <1>12. Once'
    BY <1>4, <1>5 DEF Once
  <1>13. Audits'
    BY <1>1, <1>2, <1>5 DEF Audits, Sound
  <1>14. Clean' /\ ExportVerified'
    <2>1. CASE WholeAudits
      <3>1. op'.at = "audited" /\ exported' = exported
        BY <1>3, <2>1 DEF WholeAudits, Operation, books
      <3> QED
        BY <1>1, <1>2, <1>4, <2>1, <3>1, AuditedIsClean DEF Clean, Sound, Tainted, ExportVerified
    <2>2. CASE Export
      <3>1. /\ op.at = "audited" /\ op'.at = "exported"
            /\ exported' = IF "B" \in op.working THEN (IF Tainted THEN "tainted" ELSE "clean")
                           ELSE exported
        BY <1>3, <2>2 DEF Export, Operation
      <3> QED
        BY <1>1, <1>2, <3>1 DEF Clean, Sound, ExportVerified
    <2> QED
      BY <2>1, <2>2
  <1>15. Manifests'
    <2>1. \A n \in Table : Listed(n)' = Listed(n)
      BY <1>1 DEF Listed, Done, With
    <2>2. op.at = "building" => op.built = op.working
      BY DEF WholeAudits, AllBuilt, Export
    <2> QED
      BY <1>1, <1>2, <2>1, <2>2 DEF Manifests
  <1> QED
    BY <1>7, <1>8, <1>9, <1>10, <1>11, <1>12, <1>13, <1>14, <1>15 DEF IInv

\* Time passes, a restate reads, or nothing happens.
LEMMA OthersKeep ==
    ASSUME IInv,
           UNCHANGED <<lookback, rows, ledger, registered, manifest, exported, caught, stale,
                       lapsed, op>>,
           \/ now' = now /\ restating' = restating
           \/ TimePasses
           \/ \E m \in Table, r \in Ranges : RestateReads(m, r)
    PROVE  IInv'
  <1>1. Typed /\ Counted /\ Manifests
    BY DEF IInv
  <1>2. now \in Nat /\ now' \in 0 .. MaxTime /\ now <= now'
    BY <1>1, TicksAssumption DEF Typed, TimePasses, RestateReads
  <1>3. op.time \in Nat
    BY <1>1 DEF Typed, Operation
  <1>4. Typed'
    <2>1. restating' = None \/ (restating'.model \in Table /\ restating'.range \in Ranges)
      BY <1>1 DEF Typed, TimePasses, RestateReads
    <2>2. caught' \in 0 .. now' /\ op'.time <= now'
      BY <1>1, <1>2, <1>3 DEF Typed
    <2> QED
      BY <1>1, <1>2, <2>1, <2>2 DEF Typed
  <1>5. Horizon \in Nat /\ Horizon' \in Nat /\ Horizon <= Horizon'
    BY <1>2, <1>3 DEF Horizon
  <1>6. Counted'
    <2>1. \A p \in Place : End(p) \in Nat
      BY Places, Units DEF End
    <2> QED
      BY <1>1, <1>5, <2>1 DEF Counted
  <1>7. Planned' /\ Held' /\ Progress' /\ Loaded' /\ Once'
    BY DEF IInv, Planned, Held, Progress, Pending, Loaded, Fresh, Once, Loading, Ready, IsBatch
  <1>8. DoneLoaded' /\ Caught' /\ Audits' /\ Clean' /\ ExportVerified'
    BY DEF IInv, DoneLoaded, Fresh, Caught, Audits, Sound, Loading, Ready, Clean, Tainted,
           ExportVerified
  <1>9. Manifests'
    <2>1. ASSUME NEW n \in Table
          PROVE  (Listed(n) => Listed(n)') /\ (Due(n) => Due(n)')
      BY <1>1, <1>5, SameBooks
    <2> QED
      BY <1>1, <2>1 DEF Manifests, Ready
  <1> QED
    BY <1>4, <1>6, <1>7, <1>8, <1>9 DEF IInv

\* The marks of a range are cleared: what waits to be loaded again is among
\* the places that lost theirs, or was not done.
LEMMA RestateKeeps ==
    ASSUME IInv, RestateClears
    PROVE  IInv'
  <1> DEFINE models == {restating.model} \cup Descendants(restating.model)
             range == restating.range
             cleared == {p \in Place : /\ p[1] \in models
                                       /\ range.start <= p[2] /\ p[2] < range.end}
  <1>1. /\ restating # None /\ op.at = "idle" /\ restating' = None /\ caught' = 0
        /\ ledger' = [p \in Place |-> IF p \in cleared THEN "none" ELSE ledger[p]]
        /\ stale' = stale \cup Concerned(restating.model, range)
        /\ UNCHANGED <<lookback, now, rows, registered, op, manifest, exported, lapsed>>
    BY DEF RestateClears, Clear
  <1>2. /\ Typed /\ Planned /\ Held /\ Counted /\ DoneLoaded /\ Audits /\ ExportVerified /\ Manifests
    BY DEF IInv
  <1>3. range \in Ranges /\ range.start \in Nat /\ range.end \in Nat /\ restating.model \in Table
    BY <1>1, <1>2, TicksAssumption DEF Typed
  <1>4. now \in Nat /\ op.time \in Nat
    BY <1>2, TicksAssumption DEF Typed, Operation
  <1>5. \A m \in Table : ~Loading(m) /\ ~Ready(m) /\ op.todo[m] = {}
    BY <1>1, <1>2 DEF Loading, Ready, Planned
  <1>6. ASSUME WholeIntervals, NEW p \in Concerned(restating.model, range)
        PROVE  p \in cleared
    <2>1. /\ p \in Place /\ p[1] \in models /\ p[2] < range.end
          /\ range.start < p[2] + Unit(p[1])
      BY DEF Concerned
    <2>2. p[1] \in Table /\ p[2] \in Nat
      BY <2>1, Places
    <2>3. range.start <= p[2]
      <3>1. CASE p[1] = "A"
        BY <1>3, <2>1, <2>2, <3>1 DEF Unit
      <3>2. CASE p[1] = "B"
        <4>1. Unit(p[1]) = Grain /\ Grain \in Nat \ {0}
          BY <3>2, TicksAssumption DEF Unit
        <4>2. PICK k \in Nat : p[2] = k * Grain
          BY <2>1, <4>1, Places
        <4>3. PICK j \in Nat : range.start = j * Grain
          BY <1>3, <1>6, <4>1, Quotient DEF WholeIntervals
        <4>4. j * Grain < (k + 1) * Grain
          BY <2>1, <4>1, <4>2, <4>3
        <4>5. j < k + 1
          BY <4>1, <4>4, Multiples
        <4>6. ~(k < j)
          BY <4>5
        <4>7. ~(k * Grain < j * Grain)
          BY <4>1, <4>6, Multiples
        <4> QED
          BY <1>3, <2>2, <4>2, <4>3, <4>7
      <3> QED
        BY <2>2, <3>1, <3>2 DEF Table
    <2> QED
      BY <2>1, <2>3
  <1> HIDE DEF cleared
  <1>7. \A p \in Place : /\ p \in cleared => ledger'[p] = "none"
                         /\ p \notin cleared => ledger'[p] = ledger[p]
    BY <1>1
  <1>8. Typed'
    <2>1. ledger' \in [Place -> {"none", "done", "failed"}]
      BY <1>1, <1>2 DEF Typed
    <2>2. stale' \subseteq Place
      BY <1>1, <1>2 DEF Typed, Concerned
    <2> QED
      BY <1>1, <1>2, <1>4, <2>1, <2>2 DEF Typed
  <1>9. Planned' /\ Held' /\ Progress' /\ Loaded' /\ Once' /\ Clean'
    BY <1>1, <1>2, <1>5 DEF Planned, Held, Progress, Loaded, Once, Clean, Loading, Ready
  <1>10. Counted'
    BY <1>1, <1>2, <1>7 DEF Counted, Horizon
  <1>11. DoneLoaded'
    BY <1>1, <1>2, <1>6, <1>7 DEF DoneLoaded, Fresh
  <1>12. Caught'
    <2>1. \A p \in Place : End(p) \in Nat \ {0}
      BY Places, Units DEF End
    <2> QED
      BY <1>1, <2>1 DEF Caught
  <1>13. Audits' /\ ExportVerified'
    BY <1>1, <1>2, <1>5, <1>7 DEF Audits, Sound, ExportVerified
  <1>14. Manifests'
    <2> SUFFICES ASSUME ~lapsed, NEW n \in Table
                 PROVE  Listed(n)' \/ Due(n)'
      BY <1>1 DEF Manifests
    <2>1. Listed(n) \/ Due(n)
      BY <1>2, <1>5 DEF Manifests
    <2>2. Horizon = now /\ Horizon' = now
      BY <1>1 DEF Horizon
    <2>3. CASE \E p \in Place : p[1] = n /\ ledger'[p] # ledger[p]
      <3>1. PICK p \in Place : p[1] = n /\ ledger'[p] # ledger[p]
        BY <2>3
      <3>2. ledger'[p] = "none" /\ ledger[p] # "none"
        BY <1>7, <3>1
      <3>3. End(p) <= now
        BY <1>2, <2>2, <3>2 DEF Counted
      <3> QED
        BY <2>2, <3>1, <3>2, <3>3 DEF Due
    <2>4. CASE \A p \in Place : p[1] = n => ledger'[p] = ledger[p]
      BY <1>1, <1>2, <1>4, <2>1, <2>2, <2>4, SameBooks
    <2> QED
      BY <2>3, <2>4
  <1> QED
    BY <1>8, <1>9, <1>10, <1>11, <1>12, <1>13, <1>14 DEF IInv

-----------------------------------------------------------------------------
LEMMA TicksStep ==
    ASSUME IInv, [Next]_vars
    PROVE  IInv'
  <1>1. ASSUME NEW kind \in {"run", "apply"}, Start(kind)
        PROVE  IInv'
    BY <1>1, StartKeeps
  <1>2. ASSUME NEW m \in Table, Write(m)
        PROVE  IInv'
    BY <1>2, WriteKeeps
  <1>3. ASSUME NEW m \in Table, WriteFails(m) \/ AuditFails(m)
        PROVE  IInv'
    BY <1>3, FailuresKeep
  <1>4. ASSUME NEW m \in Table, MarkDone(m)
        PROVE  IInv'
    BY <1>4, MarkDoneKeeps
  <1>5. ASSUME NEW m \in Table, Built(m) \/ ManifestFails(m)
        PROVE  IInv'
    BY <1>5, BuiltKeeps
  <1>6. CASE BuildFull
    BY <1>6, BuildFullKeeps
  <1>7. CASE WholeAudits \/ Export
    BY <1>7, PassKeeps
  <1>8. CASE WholeAuditFails \/ Promote \/ Fails \/ Killed
    BY <1>8, EndsKeep
  <1>9. CASE TimePasses
    <2>1. UNCHANGED <<lookback, rows, ledger, registered, manifest, exported, caught, stale,
                      lapsed, op>>
      BY <1>9 DEF TimePasses, books
    <2> QED
      BY <1>9, <2>1, OthersKeep
  <1>10. ASSUME NEW m \in Table, NEW r \in Ranges, RestateReads(m, r)
         PROVE  IInv'
    <2>1. UNCHANGED <<lookback, rows, ledger, registered, manifest, exported, caught, stale,
                      lapsed, op>>
      BY <1>10 DEF RestateReads, books
    <2> QED
      BY <1>10, <2>1, OthersKeep
  <1>11. CASE RestateClears
    BY <1>11, RestateKeeps
  <1>12. CASE UNCHANGED vars
    BY <1>12, OthersKeep DEF vars, books
  <1> QED
    BY <1>1, <1>2, <1>3, <1>4, <1>5, <1>6, <1>7, <1>8, <1>9, <1>10, <1>11, <1>12 DEF Next

\* The invariant holds of every run of the environment.
THEOREM TicksInvariant == Spec => []IInv
  <1>1. Init => IInv
    BY TicksInitially
  <1>2. IInv /\ [Next]_vars => IInv'
    BY TicksStep
  <1> QED
    BY <1>1, <1>2, PTL DEF Spec

-----------------------------------------------------------------------------
\* The first run of done intervals.
LEMMA FirstRun ==
    ASSUME NEW m \in Table
    PROVE  /\ Through(m) \in Nat
           /\ ledger[<<m, 0>>] = "done" =>
                \A k \in Nat : k * Unit(m) + Unit(m) <= Through(m) =>
                   /\ <<m, k * Unit(m)>> \in Place
                   /\ ledger[<<m, k * Unit(m)>>] = "done"
  <1> DEFINE u == Unit(m)
             D == {k \in Nat : <<m, k * u>> \in Place /\ ledger[<<m, k * u>>] = "done"}
             runs == MergeIntervals(Done(m))
             First(r) == \A x \in runs : r.start <= x.start
  <1>1. u \in Nat \ {0} /\ MaxTime \in Nat
    BY Units, TicksAssumption
  <1>2. Done(m) = Slots(u, D)
    BY MarkedSlots DEF Done
  <1>3. D \in SUBSET (0 .. MaxTime)
    <2> SUFFICES ASSUME NEW k \in D
                 PROVE  k <= MaxTime
      OBVIOUS
    <2>1. <<m, k * u>>[2] < MaxTime
      BY Places
    <2>2. k <= k * u
      BY <1>1
    <2> QED
      BY <1>1, <2>1, <2>2
  <1>4. ASSUME D = {}
        PROVE  Through(m) = 0
    BY <1>2, <1>4 DEF Through, Slots
  <1>5. ASSUME D # {}
        PROVE  \E a, b \in D : Run(D, a, b) /\ Through(m) = (b + 1) * u /\ (0 \in D => a = 0)
    <2> DEFINE T == {a \in D : \E b \in D : Run(D, a, b)}
    <2> HIDE DEF D
    <2>1. T # {} /\ T \subseteq Nat
      <3>1. PICK k \in D : TRUE
        BY <1>5
      <3>2. PICK a \in D, b \in D : Run(D, a, b)
        BY <1>1, <1>3, RunOf
      <3>3. a \in T
        BY <3>2
      <3>4. T \subseteq D /\ D \subseteq Nat
        BY <1>1, <1>3
      <3> HIDE DEF T
      <3> QED
        BY <3>3, <3>4
    <2>2. PICK a \in T : \A y \in T : a <= y
      BY <2>1, LeastNumber
    <2>3. D \in SUBSET Nat
      BY <1>3
    <2>4. \A r \in runs : \E c \in T : \E d \in D : Run(D, c, d) /\ r = Part(u, c, d + 1)
      BY <1>1, <1>2, <2>3, MergedRuns
    <2>5. \E r \in runs : First(r)
      <3>1. PICK b \in D : Run(D, a, b)
        OBVIOUS
      <3>2. Part(u, a, b + 1) \in runs
        BY <1>1, <1>2, <2>3, <3>1, MergedRuns
      <3>3. \A c \in T : a * u <= c * u
        <4> TAKE c \in T
        <4>1. a \in Int /\ c \in Int /\ ~(c < a)
          BY <2>1, <2>2
        <4>2. ~(c * u < a * u) /\ c * u \in Int /\ a * u \in Int
          BY <1>1, <4>1, Multiples
        <4> QED
          BY <4>2
      <3>4. First(Part(u, a, b + 1))
        BY <2>4, <3>3 DEF Part, Interval
      <3> QED
        BY <3>2, <3>4
    <2>6. PICK r \in runs : First(r) /\ Through(m) = r.end
      <3>1. Done(m) # {}
        BY <1>2, <1>5 DEF Slots
      <3>2. Through(m) = (CHOOSE r \in runs : First(r)).end
        BY <3>1 DEF Through
      <3> HIDE DEF runs, First
      <3> QED
        BY <2>5, <3>2
    <2>7. PICK c \in T, d \in D : Run(D, c, d) /\ r = Part(u, c, d + 1)
      BY <2>4, <2>6
    <2>8. Through(m) = (d + 1) * u
      BY <2>6, <2>7 DEF Part, Interval
    <2>9. 0 \in D => c = 0
      <3> SUFFICES ASSUME 0 \in D
                   PROVE  c = 0
        OBVIOUS
      <3>1. PICK x \in D, y \in D : Run(D, x, y) /\ 0 \in x .. y
        BY <1>1, <1>3, RunOf
      <3>2. x = 0
        BY <2>3, <3>1
      <3>3. Part(u, 0, y + 1) \in runs
        BY <1>1, <1>2, <2>3, <3>1, <3>2, MergedRuns
      <3>4. r.start <= 0
        BY <1>1, <2>6, <3>3 DEF Part, Interval
      <3>5. c * u <= 0 * u
        BY <1>1, <2>7, <3>4 DEF Part, Interval
      <3>6. ~(0 < c)
        BY <1>1, <2>3, <3>5, Multiples
      <3> QED
        BY <2>3, <3>6
    <2> QED
      BY <2>7, <2>8, <2>9
  <1>6. Through(m) \in Nat
    <2>1. CASE D # {}
      <3>1. PICK b \in D : Through(m) = (b + 1) * u
        BY <1>5, <2>1
      <3> QED
        BY <1>1, <1>3, <3>1
    <2> QED
      BY <1>4, <2>1
  <1>7. ASSUME ledger[<<m, 0>>] = "done", NEW k \in Nat, k * u + u <= Through(m)
        PROVE  k \in D
    <2>1. D # {}
      <3> SUFFICES ASSUME D = {}
                   PROVE  FALSE
        OBVIOUS
      <3>1. k * u \in Nat /\ Through(m) = 0
        BY <1>1, <1>4
      <3> QED
        BY <1>1, <1>7, <3>1
    <2>2. 0 \in D
      <3>1. PICK l \in D : TRUE
        BY <2>1
      <3>2. <<m, l * u>>[2] < MaxTime /\ <<m, l * u>>[2] \in Nat
        BY Places
      <3>3. 0 \in 0 .. MaxTime - 1 /\ 0 % u = 0 /\ 0 * u = 0
        BY <1>1, <3>2
      <3>4. <<m, 0>> \in Place
        BY <3>3 DEF Place, Starts
      <3> QED
        BY <1>7, <3>3, <3>4
    <2>3. PICK b \in D : Run(D, 0, b) /\ Through(m) = (b + 1) * u
      BY <1>5, <2>1, <2>2
    <2>4. (k + 1) * u <= (b + 1) * u
      BY <1>1, <1>7, <2>3
    <2>5. ~(b + 1 < k + 1)
      <3>1. b + 1 < k + 1 => (b + 1) * u < (k + 1) * u
        BY <1>1, Multiples
      <3>2. (b + 1) * u \in Int /\ (k + 1) * u \in Int
        BY <1>1
      <3> QED
        BY <2>4, <3>1, <3>2
    <2>6. k \in 0 .. b
      BY <2>5
    <2> QED
      BY <2>3, <2>6 DEF Run
  <1> QED
    BY <1>6, <1>7

-----------------------------------------------------------------------------
\* What is promised follows from the invariant.
LEMMA InvariantSuffices ==
    ASSUME IInv
    PROVE  /\ WholeIntervals => RestateTakesEffect /\ PassportHonest
           /\ DoneIsAudited /\ ExportVerified /\ ManifestsFollow /\ OkMeansCaughtUp
  <1>1. /\ Typed /\ DoneLoaded /\ Audits /\ Caught /\ Manifests /\ ExportVerified
    BY DEF IInv
  <1>2. WholeIntervals => RestateTakesEffect
    BY <1>1 DEF RestateTakesEffect, DoneLoaded, Fresh, Typed
  <1>3. WholeIntervals => PassportHonest
    <2> SUFFICES ASSUME WholeIntervals, NEW m \in Table, ledger[<<m, 0>>] = "done",
                        NEW i \in Wanted(m, EffectiveThrough[m])
                 PROVE  /\ rows[<<m, i.start>>].v # "none"
                        /\ m = "B" => rows[<<m, i.start>>].whole
                        /\ <<m, i.start>> \notin stale
      BY DEF PassportHonest
    <2>1. /\ Through("A") \in Nat /\ Through("B") \in Nat
          /\ EffectiveThrough[m] \in Nat /\ EffectiveThrough[m] <= Through(m)
      <3>1. Through("A") \in Nat /\ Through("B") \in Nat
        BY FirstRun DEF Table
      <3>2. EffectiveThrough[m] = IF m = "A" THEN Through("A")
                                  ELSE Least(Through("A"), Through("B"))
        BY DEF EffectiveThrough, Table, Model
      <3> QED
        BY <3>1, <3>2 DEF Least, Table
    <2>2. PICK k \in Nat : k * Unit(m) + Unit(m) <= EffectiveThrough[m] /\ i = Slot(Unit(m), k)
      BY <2>1, WantedSlots DEF Slots
    <2>3. i.start = k * Unit(m)
      BY <2>2 DEF Slot, Interval
    <2>4. k * Unit(m) + Unit(m) <= Through(m)
      <3>1. k * Unit(m) + Unit(m) \in Nat /\ Through(m) \in Nat
        BY Units, FirstRun
      <3> QED
        BY <2>1, <2>2, <3>1
    <2>5. <<m, i.start>> \in Place /\ ledger[<<m, i.start>>] = "done"
      BY <2>3, <2>4, FirstRun
    <2> QED
      BY <1>1, <2>5 DEF DoneLoaded, Fresh
  <1>4. DoneIsAudited
    BY <1>1 DEF DoneIsAudited, Audits, Sound, Loading, At
  <1>5. ManifestsFollow
    BY <1>1 DEF ManifestsFollow, Manifests, Listed, Ready
  <1>6. OkMeansCaughtUp
    <2> SUFFICES ASSUME NEW m \in Table
                 PROVE  /\ Missing(m, caught) = {}
                        /\ caught > 0 => Failed(m) = {}
      BY DEF OkMeansCaughtUp
    <2>1. caught \in Nat /\ caught <= MaxTime
      BY <1>1, TicksAssumption DEF Typed
    <2>2. ASSUME NEW i \in Wanted(m, caught)
          PROVE  \E j \in Done(m) : j.start = i.start
      <3>1. PICK k \in Nat : k * Unit(m) + Unit(m) <= caught /\ i = Slot(Unit(m), k)
        BY <2>1, WantedSlots DEF Slots
      <3>2. k * Unit(m) + Unit(m) <= MaxTime
        <4>1. k * Unit(m) + Unit(m) \in Nat
          BY Units
        <4> QED
          BY <2>1, <3>1, <4>1, TicksAssumption
      <3>3. <<m, k * Unit(m)>> \in Place
        BY <3>2, Places
      <3>4. ledger[<<m, k * Unit(m)>>] = "done"
        BY <1>1, <3>1, <3>3 DEF Caught, End
      <3>5. i \in Done(m)
        BY <3>1, <3>3, <3>4, MarkedSlots DEF Done, Slots
      <3> QED
        BY <3>5
    <2>3. Missing(m, caught) = {}
      BY <2>2 DEF Missing, MissingIntervals
    <2>4. caught > 0 => Failed(m) = {}
      BY <1>1 DEF Failed, With, Caught
    <2> QED
      BY <2>3, <2>4
  <1> QED
    BY <1>1, <1>2, <1>3, <1>4, <1>5, <1>6

\* However operations fail, and also when they are killed if there is no
\* lookback, a done interval holds rows that its interval audits passed: the
\* mark of a batch comes after them (executor.ts).
THEOREM DoneAudited == Spec => []DoneIsAudited
  <1>1. IInv => DoneIsAudited
    BY InvariantSuffices
  <1> QED
    BY <1>1, TicksInvariant, PTL

\* Under the same condition nothing leaves that an audit refuses: what was bad
\* before the operation was loaded again by it, or the audits of the whole end
\* it before the export.
THEOREM ExportsVerified == Spec => []ExportVerified
  <1>1. IInv => ExportVerified
    BY InvariantSuffices
  <1> QED
    BY <1>1, TicksInvariant, PTL

\* After an operation that went well `status` finds nothing missing up to its
\* time and nothing failed.
THEOREM OkCaughtUp == Spec => []OkMeansCaughtUp
  <1>1. IInv => OkMeansCaughtUp
    BY InvariantSuffices
  <1> QED
    BY <1>1, TicksInvariant, PTL

\* Unless a process was killed or failed to write, the manifests list what is
\* done when an operation is through, whatever failed in earlier ones.
THEOREM ManifestsListDone == Spec => []ManifestsFollow
  <1>1. IInv => ManifestsFollow
    BY InvariantSuffices
  <1> QED
    BY <1>1, TicksInvariant, PTL

\* When what is restated is whole intervals of the coarser table, nothing of it
\* is taken for done before it was loaded again, from parents loaded again.
THEOREM RestatesTakeEffect ==
    ASSUME WholeIntervals
    PROVE  Spec => []RestateTakesEffect
  <1>1. IInv => RestateTakesEffect
    BY InvariantSuffices
  <1> QED
    BY <1>1, TicksInvariant, PTL

\* And up to where the passport says a table is complete it is, from complete
\* parents, and nothing waits to be loaded again.
THEOREM PassportsHonest ==
    ASSUME WholeIntervals
    PROVE  Spec => []PassportHonest
  <1>1. IInv => PassportHonest
    BY InvariantSuffices
  <1> QED
    BY <1>1, TicksInvariant, PTL
=============================================================================
