---------------------------- MODULE ProjectProofs ----------------------------
(***************************************************************************)
(* From declarations to an environment, for any models, any declarations   *)
(* of them that have the fields their kind has, any environments and any   *)
(* number of edits and commands: what the graph refuses and how it orders  *)
(* (OrderExact), that what is accepted and keeps to the rules is built,    *)
(* ticked and audited (HonestBuilds), and what the tables of a redacted    *)
(* environment have (NeverWritten).                                        *)
(*                                                                         *)
(* The first holds in every state: it is what Kahn's algorithm keeps, that *)
(* the order and the queue have the models whose parents are all in the    *)
(* order (Kahn).  The others take PrjInv.  Its parts are the books of what *)
(* was built (Books), which each model of a command keeps (BuiltStep), and *)
(* what an environment serves (ServedAll): the versions of the project it  *)
(* was applied with, each with its physics.  Neither is a property of one  *)
(* command: an audit passes because of what an apply left, and a build     *)
(* finds what an earlier one that failed has left.                         *)
(***************************************************************************)
EXTENDS MCCommands, FiniteSetTheorems, SequenceTheorems, WellFoundedInduction, TLAPS

\* What is assumed of the models.
LEMMA Names == ModelName \subseteq Nat /\ IsFiniteSet(ModelName)
BY CommandsAssumption DEF Prj!ProjectAssumption, IsFiniteSet, Prj!IsFiniteSet

LEMMA Count == \A set : Prj!Cardinality(set) = Cardinality(set)
BY DEF Cardinality, Prj!Cardinality

LEMMA FiniteNames ==
    ASSUME NEW set, set \subseteq ModelName
    PROVE  IsFiniteSet(set) /\ Cardinality(set) \in Nat
BY Names, FS_Subset, FS_CardinalityType

\* A non-empty set of natural numbers has a least one.
LEMMA Least ==
    ASSUME NEW set, set \subseteq Nat, set # {}
    PROVE  \E m \in set : \A k \in set : m <= k
<1>1. PICK m \in set : \A k \in set : ~ (<<k, m>> \in OpToRel(<, Nat))
  BY WFMin, NatLessThanWellFounded
<1>2. \A k \in set : ~ (k < m)
  BY <1>1 DEF OpToRel
<1> QED
  BY <1>2

-----------------------------------------------------------------------------
(***************************************************************************)
(* Sorting                                                                 *)
(***************************************************************************)
Increasing(s) == \A i, j \in DOMAIN s : i < j => s[i] < s[j]

Sorting(set, s) == s \in [1 .. Cardinality(set) -> set] /\ Increasing(s)

\* A set of names can be sorted: its least one first.
LEMMA SortingExists ==
    ASSUME NEW set, set \subseteq ModelName
    PROVE  \E s : Sorting(set, s)
<1> DEFINE Bad == {k \in Nat : \E t \in SUBSET ModelName : Cardinality(t) = k /\ ~ \E s : Sorting(t, s)}
<1>1. SUFFICES Bad = {}
  BY FiniteNames
<1>2. SUFFICES ASSUME Bad # {} PROVE FALSE
  OBVIOUS
<1>3. PICK k \in Bad : \A l \in Bad : k <= l
  <2>1. Bad \subseteq Nat
    OBVIOUS
  <2> HIDE DEF Bad
  <2> QED
    BY <1>2, <2>1, Least
<1>4. PICK t \in SUBSET ModelName : Cardinality(t) = k /\ ~ \E s : Sorting(t, s)
  OBVIOUS
<1>5. t # {}
  <2>1. SUFFICES ASSUME t = {} PROVE FALSE
    OBVIOUS
  <2>2. Cardinality(t) = 0
    BY <2>1, FS_EmptySet
  <2> DEFINE none == [i \in 1 .. 0 |-> 0]
  <2>3. Sorting(t, none)
    BY <2>2 DEF Sorting, Increasing
  <2> QED
    BY <2>3, <1>4
<1>6. PICK m \in t : \A x \in t : m <= x
  BY <1>5, Least, Names
<1> DEFINE rest == t \ {m}
<1>7. Cardinality(rest) = k - 1 /\ k \in Nat /\ k - 1 \in Nat
  <2>1. IsFiniteSet(t)
    BY FiniteNames
  <2>2. Cardinality(rest) = k - 1
    BY <2>1, <1>4, FS_RemoveElement
  <2>3. Cardinality(rest) \in Nat
    BY FiniteNames
  <2> QED
    BY <2>2, <2>3
<1>8. PICK s : Sorting(rest, s)
  <2>1. k - 1 \notin Bad
    BY <1>3, <1>7
  <2> QED
    BY <2>1, <1>7
<1> DEFINE with == [i \in 1 .. k |-> IF i = 1 THEN m ELSE s[i - 1]]
<1>9. \A i \in 1 .. k : i # 1 => i - 1 \in 1 .. k - 1 /\ s[i - 1] \in rest
  <2>1. s \in [1 .. k - 1 -> rest]
    BY <1>7, <1>8 DEF Sorting
  <2>2. \A i \in 1 .. k : i # 1 => i - 1 \in 1 .. k - 1
    BY <1>7
  <2> QED
    BY <2>1, <2>2
<1>10. with \in [1 .. k -> t]
  BY <1>9
<1>11. ASSUME NEW i \in 1 .. k, NEW j \in 1 .. k, i < j PROVE with[i] < with[j]
  <2>1. j # 1 /\ with[j] = s[j - 1] /\ s[j - 1] \in rest
    BY <1>9, <1>11
  <2>2. t \subseteq Nat
    BY Names
  <2>3. CASE i = 1
    <3>1. with[i] = m /\ m # s[j - 1] /\ m <= s[j - 1] /\ m \in Nat /\ s[j - 1] \in Nat
      BY <2>1, <2>2, <2>3, <1>6
    <3> QED
      BY <2>1, <3>1
  <2>4. CASE i # 1
    <3>1. with[i] = s[i - 1] /\ i - 1 \in 1 .. k - 1 /\ j - 1 \in 1 .. k - 1 /\ i - 1 < j - 1
      BY <1>9, <2>1, <2>4, <1>11
    <3>2. DOMAIN s = 1 .. k - 1 /\ Increasing(s)
      BY <1>7, <1>8 DEF Sorting
    <3> QED
      BY <2>1, <3>1, <3>2 DEF Increasing
  <2> QED
    BY <2>3, <2>4
<1>12. Sorting(t, with)
  BY <1>10, <1>11, <1>4, <1>7 DEF Sorting, Increasing
<1> QED
  BY <1>12, <1>4

\* What a sorted set is: a sequence without repetition, of its elements.
LEMMA SortedIs ==
    ASSUME NEW set, set \subseteq ModelName
    PROVE  LET s == Prj!Sorted(set) IN
           /\ s \in Seq(ModelName) /\ Prj!Range(s) = set
           /\ Len(s) = Cardinality(set)
           /\ \A i, j \in DOMAIN s : s[i] = s[j] => i = j
<1> DEFINE s == Prj!Sorted(set)
           n == Cardinality(set)
<1>1. s \in [1 .. n -> set] /\ Increasing(s)
  <2>1. s = CHOOSE x \in [1 .. n -> set] : Increasing(x)
    BY Count DEF Prj!Sorted, Increasing
  <2>2. \E x \in [1 .. n -> set] : Increasing(x)
    BY SortingExists DEF Sorting
  <2> HIDE DEF s
  <2> QED
    BY <2>1, <2>2
<1>2. n \in Nat /\ IsFiniteSet(set)
  BY FiniteNames
<1> HIDE DEF s, n
<1>3. s \in Seq(set) /\ Len(s) = n /\ DOMAIN s = 1 .. n
  BY <1>1, <1>2
<1>4. \A i, j \in 1 .. n : s[i] = s[j] => i = j
  <2>1. SUFFICES ASSUME NEW i \in 1 .. n, NEW j \in 1 .. n, s[i] = s[j], i # j PROVE FALSE
    OBVIOUS
  <2>2. s[i] \in Nat
    BY <1>1, Names
  <2>3. i < j \/ j < i
    BY <1>2, <2>1
  <2>4. s[i] < s[j] \/ s[j] < s[i]
    BY <2>3, <1>1, <1>3 DEF Increasing
  <2> QED
    BY <2>1, <2>2, <2>4
<1>5. s \in Injection(1 .. n, set)
  BY <1>1, <1>4 DEF Injection, IsInjective
<1>6. s \in Surjection(1 .. n, set)
  <2>1. Cardinality(1 .. n) = n /\ IsFiniteSet(1 .. n)
    BY <1>2, FS_Interval
  <2>2. n = Cardinality(set)
    BY DEF n
  <2> QED
    BY <1>2, <1>5, <2>1, <2>2, FS_Injection
<1>7. Prj!Range(s) = set
  BY <1>3, <1>6, <1>1 DEF Prj!Range, Surjection
<1>8. s \in Seq(ModelName)
  BY <1>3
<1> QED
  BY <1>3, <1>4, <1>7, <1>8 DEF s, n

-----------------------------------------------------------------------------
(***************************************************************************)
(* The loops: the draining of the queue, the versions and the builds, one  *)
(* model after another.  What is gone through is told by q.                *)
(***************************************************************************)
NextOf(q, i, x) ==
    IF q.what = "order" THEN Prj!Drain(q.p, x)
    ELSE IF q.what = "versions"
         THEN [x EXCEPT ![q.order[i]] = Prj!Version(q.p, q.order[i], x)]
         ELSE Prj!BuildNext(q.p, q.order[i], q.versions[q.order[i]], q.pfps, q.due, x)

Loop(q, start, n, g) == [i \in 0 .. n |-> IF i = 0 THEN start ELSE NextOf(q, i, g[i - 1])]

LEMMA Iterates ==
    ASSUME NEW q, NEW start, NEW n \in Nat
    PROVE  \E g : g = Loop(q, start, n, g)
<1> DEFINE Bad == {k \in Nat : ~ \E g : g = Loop(q, start, k, g)}
<1>1. SUFFICES ASSUME Bad # {} PROVE FALSE
  OBVIOUS
<1>2. PICK k \in Bad : \A l \in Bad : k <= l
  <2>1. Bad \subseteq Nat
    OBVIOUS
  <2> HIDE DEF Bad
  <2> QED
    BY <1>1, <2>1, Least
<1>3. k \in Nat /\ ~ \E g : g = Loop(q, start, k, g)
  OBVIOUS
<1>4. k # 0
  <2>1. SUFFICES ASSUME k = 0 PROVE FALSE
    OBVIOUS
  <2> DEFINE g == [i \in 0 .. 0 |-> start]
  <2>2. g = Loop(q, start, 0, g)
    BY DEF Loop
  <2> QED
    BY <2>1, <2>2, <1>3
<1>5. k - 1 \in Nat /\ k - 1 \notin Bad
  BY <1>2, <1>3, <1>4
<1>6. PICK g : g = Loop(q, start, k - 1, g)
  BY <1>5
<1> DEFINE h == [i \in 0 .. k |-> IF i = k THEN NextOf(q, k, g[k - 1]) ELSE g[i]]
<1>7. ASSUME NEW i \in 0 .. k
      PROVE  h[i] = IF i = 0 THEN start ELSE NextOf(q, i, h[i - 1])
  <2>1. \A j \in 0 .. k - 1 : h[j] = g[j] /\ g[j] = IF j = 0 THEN start ELSE NextOf(q, j, g[j - 1])
    <3> TAKE j \in 0 .. k - 1
    <3>1. j \in 0 .. k /\ j # k
      BY <1>3
    <3>2. h[j] = g[j]
      BY <3>1
    <3>3. Loop(q, start, k - 1, g)[j] = IF j = 0 THEN start ELSE NextOf(q, j, g[j - 1])
      BY DEF Loop
    <3> QED
      BY <3>2, <3>3, <1>6
  <2>2. h[k] = NextOf(q, k, g[k - 1])
    BY <1>3
  <2>3. k - 1 \in 0 .. k - 1 /\ (i # 0 /\ i # k => i - 1 \in 0 .. k - 1) /\ (i # k => i \in 0 .. k - 1)
    BY <1>3, <1>4
  <2> HIDE DEF h
  <2>4. CASE i = k
    BY <2>1, <2>2, <2>3, <2>4, <1>4
  <2>5. CASE i # k
    BY <2>1, <2>3, <2>5
  <2> QED
    BY <2>4, <2>5
<1>8. h = Loop(q, start, k, h)
  <2>1. h = [i \in 0 .. k |-> h[i]]
    OBVIOUS
  <2> HIDE DEF h
  <2> QED
    BY <2>1, <1>7 DEF Loop
<1> QED
  BY <1>8, <1>3

\* Kahn's algorithm, step by step.
LEMMA DrainingIs ==
    ASSUME NEW p
    PROVE  LET st == Prj!Draining(p)
               n == Cardinality(Prj!Models(p))
           IN  /\ st[0] = [order |-> <<>>,
                           queue |-> Prj!Sorted({m \in Prj!Models(p) : Prj!Deps(p, m) = {}})]
               /\ \A i \in 1 .. n : st[i] = Prj!Drain(p, st[i - 1])
<1> DEFINE n == Cardinality(Prj!Models(p))
           start == [order |-> <<>>,
                     queue |-> Prj!Sorted({m \in Prj!Models(p) : Prj!Deps(p, m) = {}})]
           F(g) == [i \in 0 .. n |-> IF i = 0 THEN start ELSE Prj!Drain(p, g[i - 1])]
           q == [what |-> "order", p |-> p]
           st == Prj!Draining(p)
<1>0. n \in Nat
  BY FiniteNames DEF Prj!Models
<1>1. st = CHOOSE g : g = F(g)
  BY Count DEF Prj!Draining
<1>2. \E g : g = F(g)
  <2>1. \A i, x : NextOf(q, i, x) = Prj!Drain(p, x)
    BY DEF NextOf
  <2> HIDE DEF q, n, start
  <2>2. PICK g : g = Loop(q, start, n, g)
    BY <1>0, Iterates
  <2>3. Loop(q, start, n, g) = F(g)
    BY <2>1 DEF Loop
  <2> QED
    BY <2>2, <2>3
<1> HIDE DEF F, st, n, start
<1>3. st = F(st)
  BY <1>1, <1>2
<1>4. st[0] = start /\ \A i \in 1 .. n : st[i] = Prj!Drain(p, st[i - 1])
  <2>1. \A i \in 0 .. n : st[i] = F(st)[i]
    BY <1>3
  <2>2. \A i \in 0 .. n : F(st)[i] = IF i = 0 THEN start ELSE Prj!Drain(p, st[i - 1])
    BY DEF F
  <2>3. 0 \in 0 .. n /\ \A i \in 1 .. n : i \in 0 .. n /\ i # 0
    BY <1>0
  <2> QED
    BY <2>1, <2>2, <2>3
<1> QED
  BY <1>4 DEF st, n, start

-----------------------------------------------------------------------------
(***************************************************************************)
(* The order of the models                                                 *)
(***************************************************************************)
Once(s) == \A i, j \in DOMAIN s : s[i] = s[j] => i = j

LEMMA RangeIs ==
    ASSUME NEW S, NEW s \in Seq(S)
    PROVE  /\ \A i \in 1 .. Len(s) : s[i] \in Prj!Range(s)
           /\ \A x \in Prj!Range(s) : x \in S /\ \E i \in 1 .. Len(s) : s[i] = x
BY DEF Prj!Range

LEMMA Appended ==
    ASSUME NEW S, NEW s \in Seq(S), NEW x \in S, Once(s), x \notin Prj!Range(s)
    PROVE  LET t == Append(s, x) IN
           t \in Seq(S) /\ Once(t) /\ Prj!Range(t) = Prj!Range(s) \cup {x}
<1> DEFINE t == Append(s, x)
<1>1. /\ t \in Seq(S) /\ Len(t) = Len(s) + 1 /\ t[Len(s) + 1] = x /\ Len(s) \in Nat
      /\ \A i \in 1 .. Len(s) : t[i] = s[i]
  OBVIOUS
<1> HIDE DEF t
<1>2. \A i \in 1 .. Len(t) : i \in 1 .. Len(s) \/ i = Len(s) + 1
  BY <1>1
<1>3. DOMAIN t = 1 .. Len(t) /\ DOMAIN s = 1 .. Len(s)
  BY <1>1
<1>4. Once(t)
  BY <1>1, <1>2, <1>3 DEF Once, Prj!Range
<1>5. Prj!Range(t) = Prj!Range(s) \cup {x}
  <2>1. \A y \in Prj!Range(t) : y \in Prj!Range(s) \cup {x}
    BY <1>1, <1>2, <1>3 DEF Prj!Range
  <2>2. 1 .. Len(s) \subseteq 1 .. Len(t) /\ Len(s) + 1 \in 1 .. Len(t)
    BY <1>1
  <2>3. \A y \in Prj!Range(s) : y \in Prj!Range(t)
    BY <1>1, <1>3, <2>2 DEF Prj!Range
  <2>4. x \in Prj!Range(t)
    BY <1>1, <1>3, <2>2 DEF Prj!Range
  <2> QED
    BY <2>1, <2>3, <2>4
<1> QED
  BY <1>1, <1>4, <1>5 DEF t

LEMMA Joined ==
    ASSUME NEW S, NEW s \in Seq(S), NEW u \in Seq(S), Once(s), Once(u),
           Prj!Range(s) \cap Prj!Range(u) = {}
    PROVE  LET t == s \o u IN
           t \in Seq(S) /\ Once(t) /\ Prj!Range(t) = Prj!Range(s) \cup Prj!Range(u)
<1> DEFINE t == s \o u
<1>1. /\ t \in Seq(S) /\ Len(t) = Len(s) + Len(u) /\ Len(s) \in Nat /\ Len(u) \in Nat
      /\ \A i \in 1 .. Len(t) : t[i] = IF i <= Len(s) THEN s[i] ELSE u[i - Len(s)]
  OBVIOUS
<1> HIDE DEF t
<1>2. /\ \A i \in 1 .. Len(t) : i <= Len(s) => i \in 1 .. Len(s)
      /\ \A i \in 1 .. Len(t) : ~ (i <= Len(s)) => i - Len(s) \in 1 .. Len(u)
      /\ \A i \in 1 .. Len(s) : i \in 1 .. Len(t) /\ i <= Len(s)
      /\ \A i \in 1 .. Len(u) : i + Len(s) \in 1 .. Len(t) /\ ~ (i + Len(s) <= Len(s))
                                /\ (i + Len(s)) - Len(s) = i
  BY <1>1
<1>3. DOMAIN t = 1 .. Len(t) /\ DOMAIN s = 1 .. Len(s) /\ DOMAIN u = 1 .. Len(u)
  BY <1>1
<1>6. \A i \in 1 .. Len(t) : i <= Len(s) => t[i] = s[i] /\ t[i] \in Prj!Range(s)
  <2>1. \A k \in 1 .. Len(s) : s[k] \in Prj!Range(s)
    BY <1>3 DEF Prj!Range
  <2> QED
    BY <1>1, <1>2, <2>1
<1>7. \A i \in 1 .. Len(t) : ~ (i <= Len(s)) => t[i] = u[i - Len(s)] /\ t[i] \in Prj!Range(u)
  <2> TAKE i \in 1 .. Len(t)
  <2> HAVE ~ (i <= Len(s))
  <2>1. i - Len(s) \in 1 .. Len(u)
    BY <1>2
  <2>2. t[i] = u[i - Len(s)]
    BY <1>1
  <2>3. \A k \in 1 .. Len(u) : u[k] \in Prj!Range(u)
    BY <1>3 DEF Prj!Range
  <2> QED
    BY <2>1, <2>2, <2>3
<1>4. Once(t)
  <2>1. SUFFICES ASSUME NEW i \in 1 .. Len(t), NEW j \in 1 .. Len(t), t[i] = t[j] PROVE i = j
    BY <1>3 DEF Once
  <2>2. CASE i <= Len(s) /\ j <= Len(s)
    BY <1>1, <1>2, <1>3, <2>1, <2>2 DEF Once
  <2>3. CASE ~ (i <= Len(s)) /\ ~ (j <= Len(s))
    <3>1. u[i - Len(s)] = u[j - Len(s)]
      BY <1>1, <2>1, <2>3
    <3>2. i - Len(s) = j - Len(s)
      BY <1>2, <1>3, <2>3, <3>1 DEF Once
    <3> QED
      BY <3>2, <1>1
  <2>4. CASE i <= Len(s) /\ ~ (j <= Len(s))
    BY <1>6, <1>7, <2>1, <2>4
  <2>5. CASE ~ (i <= Len(s)) /\ j <= Len(s)
    BY <1>6, <1>7, <2>1, <2>5
  <2> QED
    BY <2>2, <2>3, <2>4, <2>5
<1>5. Prj!Range(t) = Prj!Range(s) \cup Prj!Range(u)
  <2>1. \A y \in Prj!Range(t) : y \in Prj!Range(s) \cup Prj!Range(u)
    <3> TAKE y \in Prj!Range(t)
    <3>1. PICK i \in 1 .. Len(t) : t[i] = y
      BY <1>3 DEF Prj!Range
    <3> QED
      BY <3>1, <1>6, <1>7
  <2>2. \A y \in Prj!Range(s) : y \in Prj!Range(t)
    BY <1>1, <1>2, <1>3 DEF Prj!Range
  <2>3. \A y \in Prj!Range(u) : y \in Prj!Range(t)
    <3> TAKE y \in Prj!Range(u)
    <3>1. PICK i \in 1 .. Len(u) : u[i] = y
      BY <1>3 DEF Prj!Range
    <3>2. t[i + Len(s)] = y /\ i + Len(s) \in 1 .. Len(t)
      BY <3>1, <1>1, <1>2
    <3> QED
      BY <3>2, <1>3 DEF Prj!Range
  <2> QED
    BY <2>1, <2>2, <2>3
<1> QED
  BY <1>1, <1>4, <1>5 DEF t

LEMMA Tailed ==
    ASSUME NEW S, NEW s \in Seq(S), s # <<>>, Once(s)
    PROVE  /\ Head(s) \in Prj!Range(s) /\ Tail(s) \in Seq(S) /\ Once(Tail(s))
           /\ Prj!Range(Tail(s)) = Prj!Range(s) \ {Head(s)}
<1> DEFINE t == Tail(s)
<1>1. /\ t \in Seq(S) /\ Len(s) \in Nat /\ Len(s) >= 1 /\ Len(t) = Len(s) - 1
      /\ \A i \in 1 .. Len(t) : t[i] = s[i + 1]
      /\ Head(s) = s[1]
  OBVIOUS
<1> HIDE DEF t
<1>2. /\ DOMAIN t = 1 .. Len(t) /\ DOMAIN s = 1 .. Len(s)
      /\ \A i \in 1 .. Len(t) : i + 1 \in 1 .. Len(s) /\ i + 1 # 1
      /\ \A i \in 1 .. Len(s) : i # 1 => i - 1 \in 1 .. Len(t) /\ (i - 1) + 1 = i
      /\ 1 \in 1 .. Len(s)
  BY <1>1
<1>3. Once(t)
  <2>1. SUFFICES ASSUME NEW i \in 1 .. Len(t), NEW j \in 1 .. Len(t), t[i] = t[j] PROVE i = j
    BY <1>2 DEF Once
  <2>2. i + 1 = j + 1
    BY <1>1, <1>2, <2>1 DEF Once
  <2> QED
    BY <2>2
<1>4. Prj!Range(t) = Prj!Range(s) \ {Head(s)}
  <2>1. ASSUME NEW y \in Prj!Range(t) PROVE y \in Prj!Range(s) /\ y # Head(s)
    <3>1. PICK i \in 1 .. Len(t) : t[i] = y
      BY <1>2 DEF Prj!Range
    <3>2. y = s[i + 1]
      BY <3>1, <1>1
    <3> QED
      BY <3>2, <1>1, <1>2 DEF Prj!Range, Once
  <2>2. ASSUME NEW y \in Prj!Range(s), y # Head(s) PROVE y \in Prj!Range(t)
    <3>1. PICK i \in 1 .. Len(s) : s[i] = y
      BY <1>2 DEF Prj!Range
    <3>2. i # 1 /\ t[i - 1] = y /\ i - 1 \in 1 .. Len(t)
      BY <3>1, <2>2, <1>1, <1>2
    <3> QED
      BY <3>2, <1>2 DEF Prj!Range
  <2> QED
    BY <2>1, <2>2
<1>5. Head(s) \in Prj!Range(s)
  BY <1>1, <1>2 DEF Prj!Range
<1> QED
  BY <1>1, <1>3, <1>4, <1>5 DEF t

\* Every dependency is a model.
Known(p) == \A n \in Prj!Models(p) : Prj!Deps(p, n) \subseteq Prj!Models(p)

\* Some order puts parents before children: among any models there is one that
\* has no parent among them.
Acyclic(p) ==
    \A s \in SUBSET Prj!Models(p) : s # {} => \E n \in s : Prj!Deps(p, n) \cap s = {}

\* Parents come before children.
ParentsFirst(p, order) ==
    \A i \in DOMAIN order : \A m \in Prj!Deps(p, order[i]) : \E j \in 1 .. i - 1 : order[j] = m

\* When i models are asked for: no model is twice in the order and the queue,
\* and those in them are the ones whose parents are all in the order.
Kahn(p, st, i) ==
    /\ st.order \in Seq(Prj!Models(p)) /\ st.queue \in Seq(Prj!Models(p))
    /\ Once(st.order) /\ Once(st.queue)
    /\ Prj!Range(st.order) \cap Prj!Range(st.queue) = {}
    /\ \A n \in Prj!Models(p) : n \in Prj!Range(st.order) \cup Prj!Range(st.queue)
                                <=> Prj!Deps(p, n) \subseteq Prj!Range(st.order)
    /\ ParentsFirst(p, st.order)
    /\ Len(st.order) = i \/ st.queue = <<>>

LEMMA KahnStart ==
    ASSUME NEW p
    PROVE  Kahn(p, [order |-> <<>>,
                    queue |-> Prj!Sorted({m \in Prj!Models(p) : Prj!Deps(p, m) = {}})], 0)
<1> DEFINE roots == {m \in Prj!Models(p) : Prj!Deps(p, m) = {}}
           queue == Prj!Sorted(roots)
           st == [order |-> <<>>, queue |-> queue]
<1>1. roots \subseteq ModelName /\ roots \subseteq Prj!Models(p)
  BY DEF Prj!Models
<1>2. queue \in Seq(ModelName) /\ Prj!Range(queue) = roots /\ Once(queue)
  <2> HIDE DEF roots
  <2> QED
    BY <1>1, SortedIs DEF Once
<1> HIDE DEF queue
<1>3. queue \in Seq(Prj!Models(p))
  <2>1. \A i \in 1 .. Len(queue) : queue[i] \in Prj!Models(p)
    BY <1>1, <1>2, RangeIs
  <2> QED
    BY <1>2, <2>1
<1>4. Prj!Range(<<>>) = {} /\ <<>> \in Seq(Prj!Models(p)) /\ Len(<<>>) = 0 /\ Once(<<>>)
  BY DEF Prj!Range, Once
<1>5. st.order = <<>> /\ st.queue = queue
  OBVIOUS
<1>6. \A n \in Prj!Models(p) : n \in Prj!Range(queue) <=> Prj!Deps(p, n) \subseteq {}
  BY <1>2
<1>7. ParentsFirst(p, <<>>)
  BY DEF ParentsFirst
<1> HIDE DEF st, roots
<1>8. Kahn(p, st, 0)
  BY <1>2, <1>3, <1>4, <1>5, <1>6, <1>7 DEF Kahn
<1> QED
  BY <1>8 DEF st, queue, roots

LEMMA KahnStep ==
    ASSUME NEW p, Known(p), NEW i \in Nat, NEW st, Kahn(p, st, i)
    PROVE  Kahn(p, Prj!Drain(p, st), i + 1)
<1> DEFINE M == Prj!Models(p)
<1>0. M \subseteq ModelName
  BY DEF Prj!Models
<1>1. CASE st.queue = <<>>
  <2>1. Prj!Drain(p, st) = st
    BY <1>1 DEF Prj!Drain
  <2> QED
    BY <1>1, <2>1 DEF Kahn
<1>2. CASE st.queue # <<>>
  <2> DEFINE n == Head(st.queue)
             order == Append(st.order, n)
             ready == Prj!Ready(p, n, order)
             queue == Tail(st.queue) \o Prj!Sorted(ready)
             after == [order |-> order, queue |-> queue]
  <2>1. Prj!Drain(p, st) = after
    BY <1>2 DEF Prj!Drain
  <2>2. /\ st.order \in Seq(M) /\ st.queue \in Seq(M) /\ Once(st.order) /\ Once(st.queue)
        /\ Prj!Range(st.order) \cap Prj!Range(st.queue) = {}
        /\ \A m \in M : m \in Prj!Range(st.order) \cup Prj!Range(st.queue)
                        <=> Prj!Deps(p, m) \subseteq Prj!Range(st.order)
        /\ ParentsFirst(p, st.order) /\ Len(st.order) = i
    BY <1>2 DEF Kahn
  <2>3. /\ n \in Prj!Range(st.queue) /\ Tail(st.queue) \in Seq(M) /\ Once(Tail(st.queue))
        /\ Prj!Range(Tail(st.queue)) = Prj!Range(st.queue) \ {n}
    BY <1>2, <2>2, Tailed
  <2>4. n \in M /\ n \notin Prj!Range(st.order)
    BY <2>2, <2>3, RangeIs
  <2>5. order \in Seq(M) /\ Once(order) /\ Prj!Range(order) = Prj!Range(st.order) \cup {n}
    <3> HIDE DEF n, M
    <3> QED
      BY <2>2, <2>4, Appended
  <2>6. Len(order) = i + 1
    BY <2>2, <2>4
  <2>7. /\ ready \subseteq M
        /\ \A m \in M : m \in ready <=> n \in Prj!Deps(p, m) /\ Prj!Deps(p, m) \subseteq Prj!Range(order)
    BY DEF Prj!Ready, Prj!Dependents
  <2> HIDE DEF M, ready, order, n
  <2>8. Prj!Sorted(ready) \in Seq(ModelName) /\ Prj!Range(Prj!Sorted(ready)) = ready /\ Once(Prj!Sorted(ready))
    BY <1>0, <2>7, SortedIs DEF Once
  <2>9. Prj!Sorted(ready) \in Seq(M)
    <3>1. \A k \in 1 .. Len(Prj!Sorted(ready)) : Prj!Sorted(ready)[k] \in M
      BY <2>7, <2>8, RangeIs
    <3> QED
      BY <2>8, <3>1
  <2>10. \A m \in M : m \in Prj!Range(st.order) \cup Prj!Range(st.queue) => m \notin ready
    BY <2>2, <2>4, <2>7
  <2>11. Prj!Range(Tail(st.queue)) \cap ready = {}
    <3>1. \A m \in Prj!Range(Tail(st.queue)) : m \in M /\ m \in Prj!Range(st.queue)
      BY <2>2, <2>3, RangeIs
    <3> QED
      BY <3>1, <2>10
  <2>12. queue \in Seq(M) /\ Once(queue) /\ Prj!Range(queue) = Prj!Range(Tail(st.queue)) \cup ready
    <3> DEFINE t == Tail(st.queue)
               u == Prj!Sorted(ready)
    <3>1. t \in Seq(M) /\ u \in Seq(M) /\ Once(t) /\ Once(u) /\ Prj!Range(t) \cap Prj!Range(u) = {}
      BY <2>3, <2>8, <2>9, <2>11
    <3>2. Prj!Range(u) = ready
      BY <2>8
    <3> HIDE DEF t, u
    <3>3. t \o u \in Seq(M) /\ Once(t \o u) /\ Prj!Range(t \o u) = Prj!Range(t) \cup Prj!Range(u)
      BY <3>1, Joined
    <3> QED
      BY <3>2, <3>3 DEF t, u
  <2> HIDE DEF queue
  <2>13. Prj!Range(order) \cap Prj!Range(queue) = {}
    <3>1. \A m \in ready : m \in M
      BY <2>7
    <3>2. \A m \in Prj!Range(st.order) : m \in M
      BY <2>2, RangeIs
    <3>3. n \notin ready
      BY <2>3, <2>4, <2>10
    <3> QED
      BY <3>1, <3>2, <3>3, <2>2, <2>3, <2>5, <2>10, <2>12
  <2>14. ASSUME NEW m \in M
         PROVE  m \in Prj!Range(order) \cup Prj!Range(queue) <=> Prj!Deps(p, m) \subseteq Prj!Range(order)
    <3>1. m \in Prj!Range(order) \cup Prj!Range(queue)
          <=> m \in Prj!Range(st.order) \cup Prj!Range(st.queue) \/ m \in ready
      BY <2>3, <2>5, <2>12
    <3>2. m \in Prj!Range(st.order) \cup Prj!Range(st.queue)
          <=> Prj!Deps(p, m) \subseteq Prj!Range(st.order)
      BY <2>2
    <3>3. n \notin Prj!Deps(p, m)
          => (Prj!Deps(p, m) \subseteq Prj!Range(order) <=> Prj!Deps(p, m) \subseteq Prj!Range(st.order))
      BY <2>5
    <3>4. Prj!Deps(p, m) \subseteq Prj!Range(st.order) => Prj!Deps(p, m) \subseteq Prj!Range(order)
      BY <2>5
    <3> QED
      BY <3>1, <3>2, <3>3, <3>4, <2>7
  <2>15. ParentsFirst(p, order)
    <3>1. SUFFICES ASSUME NEW k \in DOMAIN order, NEW m \in Prj!Deps(p, order[k])
                   PROVE  \E j \in 1 .. k - 1 : order[j] = m
      BY DEF ParentsFirst
    <3>2. /\ DOMAIN order = 1 .. i + 1 /\ DOMAIN st.order = 1 .. i
          /\ order[i + 1] = n /\ \A j \in 1 .. i : order[j] = st.order[j]
      BY <2>2, <2>4, <2>6 DEF order
    <3>3. CASE k \in 1 .. i
      <4>1. PICK j \in 1 .. k - 1 : st.order[j] = m
        <5>1. m \in Prj!Deps(p, st.order[k])
          BY <3>1, <3>2, <3>3
        <5> QED
          BY <5>1, <2>2, <3>2, <3>3 DEF ParentsFirst
      <4>2. j \in 1 .. i
        BY <3>3, <4>1
      <4> QED
        BY <4>1, <4>2, <3>2
    <3>4. CASE k = i + 1
      <4>1. m \in Prj!Range(st.order)
        BY <3>1, <3>2, <3>4, <2>2, <2>3, <2>4
      <4>2. PICK j \in 1 .. i : st.order[j] = m
        BY <4>1, <3>2 DEF Prj!Range
      <4>3. j \in 1 .. k - 1
        BY <3>4, <4>2
      <4> QED
        BY <4>2, <4>3, <3>2
    <3> QED
      BY <3>1, <3>2, <3>3, <3>4
  <2>16. after.order = order /\ after.queue = queue
    OBVIOUS
  <2> HIDE DEF after
  <2>17. Kahn(p, after, i + 1)
    BY <2>5, <2>6, <2>12, <2>13, <2>14, <2>15, <2>16 DEF Kahn, M
  <2> QED
    BY <2>1, <2>17
<1> QED
  BY <1>1, <1>2

LEMMA Drains ==
    ASSUME NEW p, Known(p)
    PROVE  Kahn(p, Prj!Draining(p)[Cardinality(Prj!Models(p))], Cardinality(Prj!Models(p)))
<1> DEFINE n == Cardinality(Prj!Models(p))
           st == Prj!Draining(p)
           Bad == {k \in 0 .. n : ~ Kahn(p, st[k], k)}
<1>0. n \in Nat
  BY FiniteNames DEF Prj!Models
<1>1. Kahn(p, st[0], 0)
  BY DrainingIs, KahnStart
<1>2. \A k \in 1 .. n : st[k] = Prj!Drain(p, st[k - 1])
  BY DrainingIs
<1> HIDE DEF n, st
<1>3. SUFFICES ASSUME Bad # {} PROVE FALSE
  BY <1>0 DEF n, st
<1>4. PICK k \in Bad : \A l \in Bad : k <= l
  <2>1. Bad \subseteq Nat
    BY <1>0
  <2> HIDE DEF Bad
  <2> QED
    BY <1>3, <2>1, Least
<1>5. k \in 1 .. n /\ k - 1 \in 0 .. n /\ k - 1 \in Nat /\ (k - 1) + 1 = k
  BY <1>0, <1>1, <1>4
<1>6. Kahn(p, st[k - 1], k - 1)
  BY <1>4, <1>5
<1>7. Kahn(p, Prj!Drain(p, st[k - 1]), (k - 1) + 1)
  BY <1>5, <1>6, KahnStep
<1> QED
  BY <1>2, <1>4, <1>5, <1>7

\* What comes out: once each, parents first, and all of them just if no models
\* are parents of each other in a circle.
LEMMA DrainedIs ==
    ASSUME NEW p, Known(p)
    PROVE  LET order == Prj!Drained(p) IN
           /\ order \in Seq(Prj!Models(p)) /\ Once(order) /\ ParentsFirst(p, order)
           /\ Len(order) = Cardinality(Prj!Models(p)) <=> Acyclic(p)
           /\ Len(order) = Cardinality(Prj!Models(p)) => Prj!Range(order) = Prj!Models(p)
<1> DEFINE M == Prj!Models(p)
           n == Cardinality(M)
           st == Prj!Draining(p)[n]
           order == st.order
<1>0. n \in Nat /\ IsFiniteSet(M)
  BY FiniteNames DEF Prj!Models
<1>1. Prj!Drained(p) = order
  BY Count DEF Prj!Drained
<1>2. Kahn(p, st, n)
  BY Drains
<1> HIDE DEF st, n
<1>3. order \in Seq(M) /\ Once(order) /\ ParentsFirst(p, order)
  BY <1>2 DEF Kahn
<1> HIDE DEF M
<1>4. order \in Injection(1 .. Len(order), M) /\ Len(order) \in Nat
  BY <1>3 DEF Injection, IsInjective, Once
<1>5. ASSUME Len(order) = n PROVE Prj!Range(order) = M
  <2>1. Cardinality(1 .. n) = n /\ IsFiniteSet(1 .. n)
    BY <1>0, FS_Interval
  <2>2. order \in Surjection(1 .. Len(order), M)
    BY <1>0, <1>4, <1>5, <2>1, FS_Injection DEF n
  <2> QED
    BY <2>2, <1>3 DEF Surjection, Prj!Range
<1>6. ASSUME Prj!Range(order) = M PROVE Len(order) = n
  <2>1. order \in Surjection(1 .. Len(order), M)
    BY <1>4, <1>6, <1>3 DEF Surjection, Injection, Prj!Range
  <2>2. Cardinality(1 .. Len(order)) = Len(order) /\ IsFiniteSet(1 .. Len(order))
    BY <1>4, FS_Interval
  <2>3. Cardinality(1 .. Len(order)) = Cardinality(M)
    BY <1>0, <1>4, <2>1, <2>2, FS_Injection
  <2> QED
    BY <2>2, <2>3 DEF n
<1>7. ASSUME Acyclic(p) PROVE Len(order) = n
  <2>1. SUFFICES ASSUME Len(order) # n PROVE FALSE
    OBVIOUS
  <2>2. st.queue = <<>>
    BY <1>2, <2>1 DEF Kahn
  <2>3. Prj!Range(st.queue) = {}
    BY <2>2 DEF Prj!Range
  <2>4. \A m \in M : m \in Prj!Range(order) <=> Prj!Deps(p, m) \subseteq Prj!Range(order)
    BY <1>2, <2>3 DEF Kahn, M
  <2> DEFINE s == M \ Prj!Range(order)
  <2>5. s # {}
    <3>1. \A m \in Prj!Range(order) : m \in M
      BY <1>3, RangeIs
    <3>2. s = {} => Prj!Range(order) = M
      BY <3>1
    <3> QED
      BY <3>2, <1>6, <2>1
  <2>6. PICK m \in s : Prj!Deps(p, m) \cap s = {}
    BY <1>7, <2>5 DEF Acyclic, M
  <2>7. Prj!Deps(p, m) \subseteq M
    BY <2>6 DEF Known, M
  <2> QED
    BY <2>4, <2>6, <2>7
<1>8. ASSUME Len(order) = n PROVE Acyclic(p)
  <2>1. SUFFICES ASSUME NEW s \in SUBSET M, s # {}
                 PROVE  \E m \in s : Prj!Deps(p, m) \cap s = {}
    BY DEF Acyclic, M
  <2>2. Prj!Range(order) = M
    BY <1>5, <1>8
  <2> DEFINE where == {i \in 1 .. Len(order) : order[i] \in s}
  <2>3. where # {} /\ where \subseteq Nat
    <3>1. PICK m \in s : m \in M
      BY <2>1
    <3>2. \E i \in 1 .. Len(order) : order[i] = m
      BY <3>1, <2>2, <1>3, RangeIs
    <3> QED
      BY <3>1, <3>2
  <2>4. PICK i \in where : \A j \in where : i <= j
    <3> HIDE DEF where
    <3> QED
      BY <2>3, Least
  <2>5. \A j \in 1 .. i - 1 : order[j] \notin s
    BY <2>4, <1>4
  <2>6. \A m \in Prj!Deps(p, order[i]) : m \notin s
    <3>1. i \in DOMAIN order
      BY <2>4, <1>3
    <3> TAKE m \in Prj!Deps(p, order[i])
    <3>2. PICK j \in 1 .. i - 1 : order[j] = m
      BY <3>1, <1>3 DEF ParentsFirst
    <3> QED
      BY <3>2, <2>5
  <2> QED
    BY <2>4, <2>6
<1> QED
  BY <1>1, <1>3, <1>5, <1>7, <1>8 DEF n, M

\* OrderExact, for any models and declarations.
LEMMA OrderAlways == Prj!OrderExact
<1> DEFINE order == Prj!Drained(project)
<1>1. SUFFICES ASSUME Known(project)
               PROVE  /\ Len(order) = Cardinality(Prj!Models(project)) <=> Acyclic(project)
                      /\ \A i \in DOMAIN order :
                            Prj!Deps(project, order[i]) \subseteq Prj!Range(SubSeq(order, 1, i - 1))
  BY Count DEF Prj!OrderExact, Known, Acyclic
<1>2. /\ order \in Seq(Prj!Models(project)) /\ ParentsFirst(project, order)
      /\ Len(order) = Cardinality(Prj!Models(project)) <=> Acyclic(project)
  BY <1>1, DrainedIs
<1> HIDE DEF order
<1>3. ASSUME NEW i \in DOMAIN order, NEW m \in Prj!Deps(project, order[i])
      PROVE  m \in Prj!Range(SubSeq(order, 1, i - 1))
  <2>1. PICK j \in 1 .. i - 1 : order[j] = m
    BY <1>2, <1>3 DEF ParentsFirst
  <2>2. i \in 1 .. Len(order) /\ Len(order) \in Nat
    BY <1>2
  <2> DEFINE head == SubSeq(order, 1, i - 1)
  <2>3. head \in Seq(Prj!Models(project)) /\ Len(head) = i - 1 /\ head[j] = order[j]
    BY <1>2, <2>1, <2>2
  <2> HIDE DEF head
  <2>4. head[j] \in Prj!Range(head)
    BY <2>1, <2>3, RangeIs
  <2> QED
    BY <2>1, <2>3, <2>4 DEF head
<1> QED
  BY <1>2, <1>3

-----------------------------------------------------------------------------
(***************************************************************************)
(* Declarations and versions                                               *)
(***************************************************************************)
\* A project, valid or not: one declaration of each model, or none.
Projects == {p \in [ModelName -> UNION {Declarable[n] : n \in ModelName}] :
                \A n \in ModelName : p[n] \in Declarable[n]}

\* What is built has what a version tells of it.
Shaped(d) ==
    /\ {"kind", "cols", "returns", "reads", "keep", "target", "audits"} \subseteq DOMAIN d
    /\ d.kind = "scdType2" => {"from", "to"} \subseteq DOMAIN d
    /\ d.kind = "incrementalByUniqueKey" => "key" \in DOMAIN d
    /\ d.kind = "incrementalByTimeRange" => "time" \in DOMAIN d
    /\ d.kind \in Prj!Query => "deps" \in DOMAIN d
    /\ d.returns # {}

ShapedModels(p) == \A n \in Prj!Models(p) : p[n].kind # "external" => Shaped(p[n])

LEMMA PayloadIs ==
    ASSUME NEW d, Shaped(d)
    PROVE  LET s == Prj!Payload(d) IN
           /\ s.kind = d.kind /\ s.cols = d.cols /\ s.returns = d.returns
           /\ s.keep = d.keep /\ s.target = d.target
           /\ Prj!Result(s) = Prj!Result(d) /\ Prj!Managed(s) = Prj!Managed(d)
           /\ Prj!Contract(s) <=> Prj!Contract(d)
<1> DEFINE s == Prj!Payload(d)
<1>1. /\ s["kind"] = d["kind"] /\ s["cols"] = d["cols"] /\ s["returns"] = d["returns"]
      /\ s["keep"] = d["keep"] /\ s["target"] = d["target"]
      /\ d.kind = "scdType2" => s["from"] = d["from"] /\ s["to"] = d["to"]
  BY DEF Prj!Payload, Shaped
<1> HIDE DEF s
<1>2. /\ s.kind = d.kind /\ s.cols = d.cols /\ s.returns = d.returns
      /\ s.keep = d.keep /\ s.target = d.target
      /\ d.kind = "scdType2" => s.from = d.from /\ s.to = d.to
  BY <1>1
<1>3. Prj!Result(s) = Prj!Result(d) /\ Prj!Managed(s) = Prj!Managed(d)
  BY <1>2 DEF Prj!Result, Prj!Managed
<1> QED
  BY <1>2, <1>3 DEF Prj!Contract, s

LEMMA RedactIs ==
    ASSUME NEW d
    PROVE  LET r == Prj!RedactModel(d) IN
           /\ r.kind = d.kind /\ (r = Prj!None <=> d = Prj!None)
           /\ Shaped(d) => /\ Shaped(r) /\ Prj!Managed(r) = Prj!Managed(d)
                           /\ d.kind \in Prj!Query => r.deps = d.deps
<1>1. CASE d.kind \notin Prj!Query \/ d.redact = {}
  BY <1>1 DEF Prj!RedactModel
<1>2. CASE ~ (d.kind \notin Prj!Query \/ d.redact = {})
  <2> DEFINE r == [d EXCEPT !.cols = @ \ d.redact, !.keep = d.cols \ d.redact,
                            !.audits = Prj!RedactedAudits(d)]
  <2>1. Prj!RedactModel(d) = r
    BY <1>2 DEF Prj!RedactModel
  <2>2. /\ DOMAIN r = DOMAIN d
        /\ \A f \in DOMAIN d : f \notin {"cols", "keep", "audits"} => r[f] = d[f]
    OBVIOUS
  <2>7. r.kind = d.kind
    OBVIOUS
  <2> HIDE DEF r
  <2>3. d.kind # "none"
    BY <1>2 DEF Prj!Query
  <2>4. r # Prj!None /\ d # Prj!None
    BY <2>7, <2>3 DEF Prj!None
  <2>5. ASSUME Shaped(d)
        PROVE  Shaped(r) /\ Prj!Managed(r) = Prj!Managed(d) /\ (d.kind \in Prj!Query => r.deps = d.deps)
    <3>1. /\ "returns" \in DOMAIN d
          /\ d.kind = "scdType2" => {"from", "to"} \subseteq DOMAIN d
          /\ d.kind \in Prj!Query => "deps" \in DOMAIN d
      BY <2>5 DEF Shaped
    <3>2. /\ r["returns"] = d["returns"]
          /\ d.kind = "scdType2" => r["from"] = d["from"] /\ r["to"] = d["to"]
          /\ d.kind \in Prj!Query => r["deps"] = d["deps"]
      BY <2>2, <3>1
    <3>3. /\ r.returns = d.returns
          /\ d.kind = "scdType2" => r.from = d.from /\ r.to = d.to
          /\ d.kind \in Prj!Query => r.deps = d.deps
      BY <3>2
    <3>4. Shaped(r)
      BY <2>2, <2>5, <2>7, <3>3 DEF Shaped
    <3>5. Prj!Managed(r) = Prj!Managed(d)
      BY <2>7, <3>3 DEF Prj!Managed
    <3> QED
      BY <3>3, <3>4, <3>5
  <2> QED
    BY <2>1, <2>4, <2>5, <2>7
<1> QED
  BY <1>1, <1>2

\* Nothing declared is redacted yet.
LEMMA DeclaredShape ==
    ASSUME NEW p \in Projects
    PROVE  \A n \in Prj!Models(p) : p[n].kind # "external" => Shaped(p[n]) /\ p[n].keep = {}
<1> TAKE n \in Prj!Models(p)
<1>1. n \in ModelName /\ p[n] \in Declarable[n] \ {Prj!None}
  BY DEF Projects, Prj!Models
<1> QED
  BY <1>1, CommandsAssumption DEF Prj!ProjectAssumption, Shaped

\* Redacting leaves the graph as it is.
LEMMA GraphIs ==
    ASSUME NEW e, NEW p \in Projects
    PROVE  LET g == Prj!GraphFor(e, p) IN
           /\ Prj!Models(g) = Prj!Models(p) /\ ShapedModels(g)
           /\ \A n \in ModelName : Prj!Deps(g, n) = Prj!Deps(p, n) /\ g[n].kind = p[n].kind
           /\ g = p \/ \A n \in ModelName : g[n] = Prj!RedactModel(p[n])
<1>1. CASE e \notin Redacting
  <2>1. Prj!GraphFor(e, p) = p
    BY <1>1 DEF Prj!GraphFor
  <2>2. ShapedModels(p)
    BY DeclaredShape DEF ShapedModels
  <2> QED
    BY <2>1, <2>2
<1>2. CASE e \in Redacting
  <2> DEFINE g == [n \in ModelName |-> Prj!RedactModel(p[n])]
  <2>1. Prj!GraphFor(e, p) = g
    BY <1>2 DEF Prj!GraphFor, Prj!RedactGraph
  <2>2. \A n \in ModelName : g[n] = Prj!RedactModel(p[n])
    OBVIOUS
  <2> HIDE DEF g
  <2>3. \A n \in ModelName : /\ g[n].kind = p[n].kind /\ (g[n] = Prj!None <=> p[n] = Prj!None)
                             /\ Shaped(p[n]) => Shaped(g[n])
    BY <2>2, RedactIs
  <2>4. Prj!Models(g) = Prj!Models(p)
    BY <2>3 DEF Prj!Models
  <2>5. ShapedModels(g)
    BY <2>3, <2>4, DeclaredShape DEF ShapedModels, Prj!Models
  <2>6. \A n \in ModelName : p[n].kind \in Prj!Query => g[n].deps = p[n].deps
    <3> TAKE n \in ModelName
    <3> HAVE p[n].kind \in Prj!Query
    <3>1. p[n].kind # "none" /\ p[n].kind # "external"
      BY DEF Prj!Query
    <3>2. n \in Prj!Models(p)
      BY <3>1 DEF Prj!Models, Prj!None
    <3>3. Shaped(p[n])
      BY <3>1, <3>2, DeclaredShape
    <3> QED
      BY <3>3, <2>2, RedactIs
  <2>7. \A n \in ModelName : Prj!Deps(g, n) = Prj!Deps(p, n)
    BY <2>3, <2>6 DEF Prj!Deps
  <2> QED
    BY <2>1, <2>2, <2>3, <2>4, <2>5, <2>7
<1> QED
  BY <1>1, <1>2

LEMMA GraphedIs ==
    ASSUME NEW p
    PROVE  /\ Prj!Graphed(p) => Known(p) /\ Len(Prj!Drained(p)) = Cardinality(Prj!Models(p))
           /\ Prj!Graphed(p) <=> Known(p) /\ Acyclic(p)
<1>1. Prj!Graphed(p) <=> Known(p) /\ Len(Prj!Drained(p)) = Cardinality(Prj!Models(p))
  BY Count DEF Prj!Graphed, Known
<1>2. Known(p) => (Len(Prj!Drained(p)) = Cardinality(Prj!Models(p)) <=> Acyclic(p))
  BY DrainedIs
<1> QED
  BY <1>1, <1>2

LEMMA GraphedFor ==
    ASSUME NEW e, NEW p \in Projects, Prj!Graphed(p)
    PROVE  Prj!Graphed(Prj!GraphFor(e, p))
<1> DEFINE g == Prj!GraphFor(e, p)
<1>1. Known(p) /\ Acyclic(p)
  BY GraphedIs
<1>2. Prj!Models(g) = Prj!Models(p) /\ \A n \in ModelName : Prj!Deps(g, n) = Prj!Deps(p, n)
  BY GraphIs
<1>3. Prj!Models(p) \subseteq ModelName
  BY DEF Prj!Models
<1> HIDE DEF g
<1>4. Known(g)
  BY <1>1, <1>2, <1>3 DEF Known
<1>5. Acyclic(g)
  <2>1. SUFFICES ASSUME NEW s \in SUBSET Prj!Models(p), s # {}
                 PROVE  \E n \in s : Prj!Deps(g, n) \cap s = {}
    BY <1>2 DEF Acyclic
  <2>2. PICK n \in s : Prj!Deps(p, n) \cap s = {}
    BY <1>1, <2>1 DEF Acyclic
  <2>3. n \in ModelName
    BY <1>3, <2>2
  <2> QED
    BY <1>2, <2>2, <2>3
<1> QED
  BY <1>4, <1>5, GraphedIs DEF g

\* In topological order the models are 1 .. n.
LEMMA OrderIs ==
    ASSUME NEW p, Prj!Graphed(p)
    PROVE  LET order == Prj!Drained(p)
               n == Cardinality(Prj!Models(p))
           IN  /\ n \in Nat /\ DOMAIN order = 1 .. n
               /\ \A i \in 1 .. n : order[i] \in Prj!Models(p)
               /\ \A m \in Prj!Models(p) : \E i \in 1 .. n : order[i] = m
               /\ Once(order) /\ ParentsFirst(p, order)
<1> DEFINE order == Prj!Drained(p)
           M == Prj!Models(p)
           n == Cardinality(M)
<1>1. n \in Nat
  BY FiniteNames DEF Prj!Models
<1>2. order \in Seq(M) /\ Once(order) /\ ParentsFirst(p, order) /\ Len(order) = n /\ Prj!Range(order) = M
  BY GraphedIs, DrainedIs
<1> HIDE DEF order, n, M
<1>3. \A i \in 1 .. Len(order) : order[i] \in Prj!Range(order)
  BY <1>2, RangeIs
<1>4. \A m \in Prj!Range(order) : \E i \in 1 .. Len(order) : order[i] = m
  BY <1>2, RangeIs
<1> QED
  BY <1>1, <1>2, <1>3, <1>4 DEF order, n, M

\* A version is of the declaration.
LEMMA VersionsAre ==
    ASSUME NEW p, Prj!Graphed(p)
    PROVE  LET versions == Prj!Versions(p) IN
           /\ versions = [n \in ModelName |-> versions[n]]
           /\ \A n \in Prj!Models(p) : /\ versions[n].self = Prj!Payload(p[n])
                                       /\ versions[n] # Prj!None
<1> DEFINE n == Cardinality(Prj!Models(p))
           order == Prj!Drained(p)
           start == [m \in ModelName |-> Prj!None]
           F(g) == [i \in 0 .. n |->
                      IF i = 0 THEN start
                      ELSE [g[i - 1] EXCEPT ![order[i]] = Prj!Version(p, order[i], g[i - 1])]]
           q == [what |-> "versions", p |-> p, order |-> order]
           st == Prj!Versioning(p)
<1>0. /\ n \in Nat /\ DOMAIN order = 1 .. n
      /\ \A i \in 1 .. n : order[i] \in Prj!Models(p)
      /\ \A m \in Prj!Models(p) : \E i \in 1 .. n : order[i] = m
  BY OrderIs
<1>1. st = CHOOSE g : g = F(g)
  BY Count DEF Prj!Versioning
<1>2. \E g : g = F(g)
  <2>1. \A i, x : NextOf(q, i, x) = [x EXCEPT ![order[i]] = Prj!Version(p, order[i], x)]
    BY DEF NextOf
  <2> HIDE DEF q, n, start, order
  <2>2. PICK g : g = Loop(q, start, n, g)
    BY <1>0, Iterates
  <2>3. Loop(q, start, n, g) = F(g)
    BY <2>1 DEF Loop
  <2> QED
    BY <2>2, <2>3
<1>3. Prj!Versions(p) = st[n]
  BY Count DEF Prj!Versions
<1> HIDE DEF F, st, n, start, order
<1>4. st = F(st)
  BY <1>1, <1>2
<1>5. /\ st[0] = start
      /\ \A i \in 1 .. n : st[i] = [st[i - 1] EXCEPT ![order[i]] = Prj!Version(p, order[i], st[i - 1])]
  <2>1. \A i \in 0 .. n : st[i] = F(st)[i]
    BY <1>4
  <2>2. \A i \in 0 .. n : F(st)[i] =
           IF i = 0 THEN start
           ELSE [st[i - 1] EXCEPT ![order[i]] = Prj!Version(p, order[i], st[i - 1])]
    BY DEF F
  <2>3. 0 \in 0 .. n /\ \A i \in 1 .. n : i \in 0 .. n /\ i # 0
    BY <1>0
  <2> QED
    BY <2>1, <2>2, <2>3
<1> DEFINE Good(i) == /\ st[i] = [m \in ModelName |-> st[i][m]]
                      /\ \A j \in 1 .. i : /\ st[i][order[j]].self = Prj!Payload(p[order[j]])
                                           /\ st[i][order[j]].kind = "version"
           Bad == {i \in 0 .. n : ~ Good(i)}
<1>6. Good(0)
  BY <1>5 DEF start
<1>7. ASSUME NEW i \in 1 .. n, Good(i - 1) PROVE Good(i)
  <2> DEFINE before == st[i - 1]
             v == Prj!Version(p, order[i], before)
  <2>1. st[i] = [before EXCEPT ![order[i]] = v]
    BY <1>5
  <2>2. before = [m \in ModelName |-> before[m]]
    BY <1>7
  <2>3. v.self = Prj!Payload(p[order[i]]) /\ v.kind = "version"
    BY DEF Prj!Version
  <2>4. order[i] \in ModelName
    BY <1>0 DEF Prj!Models
  <2>5. \A j \in 1 .. i : j \in 1 .. i - 1 \/ j = i
    BY <1>0
  <2>6. \A j \in 1 .. i - 1 : /\ before[order[j]].self = Prj!Payload(p[order[j]])
                              /\ before[order[j]].kind = "version"
    BY <1>7
  <2>7. \A j \in 1 .. i - 1 : order[j] \in ModelName
    BY <1>0 DEF Prj!Models
  <2> HIDE DEF before, v
  <2>8. DOMAIN before = ModelName
    BY <2>2
  <2>9. st[i] = [m \in ModelName |-> st[i][m]]
    BY <2>1, <2>8
  <2>10. st[i][order[i]] = v /\ \A m \in ModelName : m # order[i] => st[i][m] = before[m]
    BY <2>1, <2>4, <2>8
  <2>11. ASSUME NEW j \in 1 .. i
         PROVE  st[i][order[j]].self = Prj!Payload(p[order[j]]) /\ st[i][order[j]].kind = "version"
    <3>1. CASE order[j] = order[i]
      BY <3>1, <2>3, <2>10
    <3>2. CASE order[j] # order[i]
      <4>1. j \in 1 .. i - 1
        BY <2>5, <3>2
      <4> QED
        BY <4>1, <3>2, <2>6, <2>7, <2>10
    <3> QED
      BY <3>1, <3>2
  <2> QED
    BY <2>9, <2>11
<1> HIDE DEF Good
<1>8. Good(n)
  <2>1. SUFFICES ASSUME Bad # {} PROVE FALSE
    BY <1>0
  <2>2. PICK i \in Bad : \A l \in Bad : i <= l
    <3>1. Bad \subseteq Nat
      BY <1>0
    <3> HIDE DEF Bad
    <3> QED
      BY <2>1, <3>1, Least
  <2>3. i \in 1 .. n /\ i - 1 \in 0 .. n
    BY <1>0, <1>6, <2>2
  <2>4. Good(i - 1)
    BY <2>2, <2>3
  <2> QED
    BY <1>7, <2>2, <2>3, <2>4
<1>9. st[n] = [m \in ModelName |-> st[n][m]]
  BY <1>8 DEF Good
<1>10. ASSUME NEW m \in Prj!Models(p)
       PROVE  st[n][m].self = Prj!Payload(p[m]) /\ st[n][m] # Prj!None
  <2>1. PICK i \in 1 .. n : order[i] = m
    BY <1>0
  <2>2. st[n][m].self = Prj!Payload(p[m]) /\ st[n][m].kind = "version"
    BY <1>8, <2>1 DEF Good
  <2> QED
    BY <2>2 DEF Prj!None
<1> QED
  BY <1>3, <1>9, <1>10

-----------------------------------------------------------------------------
(***************************************************************************)
(* The books: what is recorded of versions and their physics.              *)
(***************************************************************************)
\* The columns a version fills in.
Filled(v) == Prj!Result(v.self) \cup Prj!Managed(v.self)

\* The physics of a version is that of a version which has its own, and has all
\* that is declared of it.
Recorded(S, P) ==
    \A k \in DOMAIN S :
        /\ k = <<k[1], k[2]>>
        /\ <<k[1], S[k]>> \in DOMAIN S /\ S[<<k[1], S[k]>>] = S[k]
        /\ <<k[1], S[k]>> \in DOMAIN P
        /\ Filled(k[2]) \subseteq P[<<k[1], S[k]>>]
        /\ Prj!Contract(k[2].self)

\* What a failed build has left is of its version.
Left(S, P) == \A k \in DOMAIN P \ DOMAIN S : P[k] \subseteq Filled(k[2])

\* A redacted version's physics has nothing else until it is widened.
Spared(W, S, P) ==
    \A k \in DOMAIN S :
        k[2].self.keep # {} /\ k[2].self.target # "parquet" /\ <<k[1], S[k]>> \notin W
            => P[<<k[1], S[k]>>] \subseteq Filled(k[2])

Books(W, S, P) == Recorded(S, P) /\ Left(S, P) /\ Spared(W, S, P)

\* What a step of an apply works with.
Stage(st) == st = [ok |-> st.ok, phys |-> st.phys, snap |-> st.snap]

Having(P, key) == IF key \in DOMAIN P THEN P[key] ELSE {}

\* A build writes nothing and fails, or writes the table of the version and,
\* if it is to be served, registers it.
Wrote(p, n, v, pfps, st, after) ==
    LET d == p[n]
        key == <<n, pfps[n]>>
        have == Having(st.phys, key)
        cols == have \cup (Prj!Result(d) \cup Prj!Managed(d))
        built == /\ Prj!Describes(d, Prj!Readable(p, n, st.phys, pfps))
                 /\ Prj!Contract(d)
                 /\ pfps[n] # v /\ ~ Prj!Alive(n, v) => Prj!Evolves(d, have)
                 /\ Prj!Named(d) \subseteq cols
    IN  \/ ~ built /\ after.ok = FALSE /\ after.snap = st.snap /\ after.phys = st.phys
        \/ /\ built
           /\ after.phys = [k \in DOMAIN st.phys \cup {key} |-> IF k = key THEN cols ELSE st.phys[k]]
           /\ after.ok = Prj!Audited(d, cols)
           /\ after.snap = IF Prj!Audited(d, cols) \/ d.kind = "incrementalByTimeRange"
                           THEN [k \in DOMAIN st.snap \cup {<<n, v>>} |->
                                   IF k = <<n, v>> THEN pfps[n] ELSE st.snap[k]]
                           ELSE st.snap

LEMMA BuildOneIs ==
    ASSUME NEW p, NEW n, NEW v, NEW pfps, NEW st, Stage(st)
    PROVE  LET after == Prj!BuildOne(p, n, v, pfps, st)
           IN  Stage(after) /\ Wrote(p, n, v, pfps, st, after)
<1> DEFINE d == p[n]
           key == <<n, pfps[n]>>
           have == Having(st.phys, key)
           cols == have \cup (Prj!Result(d) \cup Prj!Managed(d))
           after == Prj!BuildOne(p, n, v, pfps, st)
           built == /\ Prj!Describes(d, Prj!Readable(p, n, st.phys, pfps))
                    /\ Prj!Contract(d)
                    /\ pfps[n] # v /\ ~ Prj!Alive(n, v) => Prj!Evolves(d, have)
                    /\ Prj!Named(d) \subseteq cols
           phys2 == [k \in DOMAIN st.phys \cup {key} |-> IF k = key THEN cols ELSE st.phys[k]]
           snap2 == IF Prj!Audited(d, cols) \/ d.kind = "incrementalByTimeRange"
                    THEN [k \in DOMAIN st.snap \cup {<<n, v>>} |->
                            IF k = <<n, v>> THEN pfps[n] ELSE st.snap[k]]
                    ELSE st.snap
<1>1. have \cup Prj!Result(d) \cup Prj!Managed(d) = cols
  OBVIOUS
<1>2. after = IF ~ built THEN [st EXCEPT !.ok = FALSE]
              ELSE [ok |-> Prj!Audited(d, cols), phys |-> phys2, snap |-> snap2]
  BY <1>1 DEF Prj!BuildOne, Having
<1> HIDE DEF phys2, snap2, cols, have, after
<1>3. CASE ~ built
  <2>1. after = [st EXCEPT !.ok = FALSE]
    BY <1>2, <1>3
  <2>2. after = [ok |-> FALSE, phys |-> st.phys, snap |-> st.snap]
    BY <2>1 DEF Stage
  <2>3. after.ok = FALSE /\ after.snap = st.snap /\ after.phys = st.phys /\ Stage(after)
    BY <2>2 DEF Stage
  <2> QED
    BY <2>3, <1>3 DEF Wrote, after, have, cols
<1>4. CASE built
  <2>1. after = [ok |-> Prj!Audited(d, cols), phys |-> phys2, snap |-> snap2]
    BY <1>2, <1>4
  <2>2. after.ok = Prj!Audited(d, cols) /\ after.snap = snap2 /\ after.phys = phys2 /\ Stage(after)
    BY <2>1 DEF Stage
  <2> QED
    BY <2>2, <1>4 DEF Wrote, after, have, cols, phys2, snap2
<1> QED
  BY <1>3, <1>4

\* The physics a build writes: of the version itself where it is recorded, new
\* or of a version that is recorded, where a time-range one may inherit it.
Aimed(S, n, v, d, pf) ==
    \/ <<n, v>> \in DOMAIN S /\ pf = S[<<n, v>>]
    \/ <<n, v>> \notin DOMAIN S /\ pf = v
    \/ /\ <<n, v>> \notin DOMAIN S /\ d.kind = "incrementalByTimeRange"
       /\ \E w : <<n, w>> \in DOMAIN S /\ pf = S[<<n, w>>]

\* What a build adds to the widened ones.
Widens(S, n, v, d, pf, W) ==
    (\E j \in DOMAIN S : /\ j[1] = n /\ S[j] = pf /\ j[2].self.keep # {}
                         /\ ~ (Prj!Result(d) \subseteq Prj!Result(j[2].self)))
        /\ <<n, v>> \notin DOMAIN S => <<n, pf>> \in W

LEMMA BuildOneBooks ==
    ASSUME NEW p, NEW n, NEW v, NEW pfps, NEW st, Stage(st), NEW W,
           Books(W, st.snap, st.phys),
           Shaped(p[n]), v.self = Prj!Payload(p[n]),
           Prj!Alive(n, v) <=> <<n, v>> \in DOMAIN st.snap,
           Aimed(st.snap, n, v, p[n], pfps[n]),
           <<n, v>> \in DOMAIN Prj!BuildOne(p, n, v, pfps, st).snap
               => Widens(st.snap, n, v, p[n], pfps[n], W)
    PROVE  LET after == Prj!BuildOne(p, n, v, pfps, st) IN Books(W, after.snap, after.phys)
<1> DEFINE d == p[n]
           pf == pfps[n]
           key == <<n, pf>>
           S == st.snap
           P == st.phys
           have == Having(P, key)
           fill == Prj!Result(d) \cup Prj!Managed(d)
           cols == have \cup fill
           after == Prj!BuildOne(p, n, v, pfps, st)
           S2 == after.snap
           P2 == after.phys
           timed == d.kind = "incrementalByTimeRange"
<1>1. CASE S2 = S /\ P2 = P
  BY <1>1
<1>2. CASE /\ Prj!Contract(d)
           /\ pf # v /\ ~ Prj!Alive(n, v) => Prj!Evolves(d, have)
           /\ P2 = [k \in DOMAIN P \cup {key} |-> IF k = key THEN cols ELSE P[k]]
           /\ \/ S2 = [k \in DOMAIN S \cup {<<n, v>>} |-> IF k = <<n, v>> THEN pf ELSE S[k]]
              \/ S2 = S /\ ~ timed
  <2>1. Recorded(S, P) /\ Left(S, P) /\ Spared(W, S, P)
    BY DEF Books
  <2>2. /\ Aimed(S, n, v, d, pf) /\ (Prj!Alive(n, v) <=> <<n, v>> \in DOMAIN S)
        /\ <<n, v>> \in DOMAIN S2 => Widens(S, n, v, d, pf, W)
    OBVIOUS
  <2>3. /\ Filled(v) = fill /\ Prj!Contract(v.self) /\ v.self.keep = d.keep
        /\ v.self.target = d.target
    BY <1>2, PayloadIs DEF Filled
  <2>4. /\ DOMAIN P2 = DOMAIN P \cup {key} /\ P2[key] = cols
        /\ \A k \in DOMAIN P : k # key => P2[k] = P[k]
        /\ \A k \in DOMAIN P : P[k] \subseteq P2[k]
        /\ key \in DOMAIN P => have = P[key]
        /\ key \notin DOMAIN P => have = {}
    BY <1>2 DEF Having
  <2>5. /\ DOMAIN S \subseteq DOMAIN S2 /\ DOMAIN S2 \subseteq DOMAIN S \cup {<<n, v>>}
        /\ timed => <<n, v>> \in DOMAIN S2
        /\ \A k \in DOMAIN S : k = <<n, v>> \/ S2[k] = S[k]
        /\ <<n, v>> \in DOMAIN S2 /\ <<n, v>> \notin DOMAIN S => S2[<<n, v>>] = pf
        /\ <<n, v>> \in DOMAIN S => S2[<<n, v>>] \in {pf, S[<<n, v>>]}
    BY <1>2
  <2>c. cols = have \cup fill
    OBVIOUS
  <2>e. pf # v /\ <<n, v>> \notin DOMAIN S => d.target = "parquet" \/ have \subseteq Prj!Result(d)
    BY <1>2 DEF Prj!Evolves
  <2>m. timed => Prj!Managed(d) = {}
    BY DEF Prj!Managed
  <2> HIDE DEF S, P, S2, P2, have, cols, fill, pf, timed
  <2>6. <<n, v>> \in DOMAIN S => pf = S[<<n, v>>]
    BY <2>2 DEF Aimed
  <2>7. \A k \in DOMAIN S : S2[k] = S[k]
    BY <2>5, <2>6
  <2>8. <<n, v>> \notin DOMAIN S /\ <<n, pf>> \in DOMAIN S => timed /\ pf # v
    BY <2>2 DEF Aimed, timed
  <2>9. <<n, v>> \notin DOMAIN S /\ pf # v => <<n, pf>> \in DOMAIN S /\ S[<<n, pf>>] = pf
    <3> HAVE <<n, v>> \notin DOMAIN S /\ pf # v
    <3>1. PICK w : <<n, w>> \in DOMAIN S /\ pf = S[<<n, w>>]
      BY <2>2 DEF Aimed
    <3>2. <<n, w>>[1] = n
      OBVIOUS
    <3> QED
      BY <2>1, <3>1, <3>2 DEF Recorded
  <2>10. \A k \in DOMAIN S : S[k] = v /\ k[1] = n => <<n, v>> \in DOMAIN S
    BY <2>1 DEF Recorded
  <2>11. <<n, v>> \notin DOMAIN S /\ pf = v => have \subseteq fill
    <3> HAVE <<n, v>> \notin DOMAIN S /\ pf = v
    <3>1. key \notin DOMAIN S /\ key[2] = v
      OBVIOUS
    <3> QED
      BY <2>1, <2>3, <2>4, <3>1 DEF Left
  <2>12. Recorded(S2, P2)
    <3>1. SUFFICES ASSUME NEW k \in DOMAIN S2
                   PROVE  /\ k = <<k[1], k[2]>>
                          /\ <<k[1], S2[k]>> \in DOMAIN S2 /\ S2[<<k[1], S2[k]>>] = S2[k]
                          /\ <<k[1], S2[k]>> \in DOMAIN P2
                          /\ Filled(k[2]) \subseteq P2[<<k[1], S2[k]>>]
                          /\ Prj!Contract(k[2].self)
      BY DEF Recorded
    <3>2. CASE k \in DOMAIN S
      <4>1. /\ k = <<k[1], k[2]>>
            /\ <<k[1], S[k]>> \in DOMAIN S /\ S[<<k[1], S[k]>>] = S[k]
            /\ <<k[1], S[k]>> \in DOMAIN P
            /\ Filled(k[2]) \subseteq P[<<k[1], S[k]>>]
            /\ Prj!Contract(k[2].self)
        BY <2>1, <3>2 DEF Recorded
      <4>2. S2[k] = S[k] /\ S2[<<k[1], S[k]>>] = S[k] /\ <<k[1], S[k]>> \in DOMAIN S2
        BY <2>5, <2>7, <3>2, <4>1
      <4>3. P[<<k[1], S[k]>>] \subseteq P2[<<k[1], S[k]>>] /\ <<k[1], S[k]>> \in DOMAIN P2
        BY <2>4, <4>1
      <4> QED
        BY <4>1, <4>2, <4>3
    <3>3. CASE k \notin DOMAIN S
      <4>1. k = <<n, v>> /\ S2[k] = pf /\ <<n, v>> \notin DOMAIN S /\ <<n, v>> \in DOMAIN S2
        BY <2>5, <3>1, <3>3
      <4>2. k[1] = n /\ k[2] = v
        BY <4>1
      <4>3. <<n, pf>> \in DOMAIN S2 /\ S2[<<n, pf>>] = pf
        <5>1. CASE pf = v
          BY <4>1, <5>1
        <5>2. CASE pf # v
          BY <4>1, <5>2, <2>5, <2>7, <2>9
        <5> QED
          BY <5>1, <5>2
      <4>4. <<n, pf>> \in DOMAIN P2 /\ Filled(v) \subseteq P2[<<n, pf>>]
        BY <2>3, <2>4, <2>c
      <4> QED
        BY <4>1, <4>2, <4>3, <4>4, <2>3
    <3> QED
      BY <3>2, <3>3
  <2>13. Left(S2, P2)
    <3>1. SUFFICES ASSUME NEW k \in DOMAIN P2, k \notin DOMAIN S2 PROVE P2[k] \subseteq Filled(k[2])
      BY DEF Left
    <3>2. CASE k # key
      <4>1. k \in DOMAIN P /\ k \notin DOMAIN S /\ P2[k] = P[k]
        BY <2>4, <2>5, <3>1, <3>2
      <4> QED
        BY <2>1, <4>1 DEF Left
    <3>3. CASE k = key
      <4>1. <<n, pf>> \notin DOMAIN S2 /\ k[2] = pf
        BY <3>1, <3>3
      <4>2. <<n, pf>> \notin DOMAIN S
        BY <4>1, <2>5
      <4>3. <<n, v>> \notin DOMAIN S
        <5>1. SUFFICES ASSUME <<n, v>> \in DOMAIN S PROVE FALSE
          OBVIOUS
        <5>2. <<n, v>>[1] = n /\ pf = S[<<n, v>>]
          BY <2>6, <5>1
        <5> QED
          BY <2>1, <4>2, <5>1, <5>2 DEF Recorded
      <4>4. pf = v
        BY <2>9, <4>2, <4>3
      <4> QED
        BY <2>3, <2>4, <2>11, <2>c, <3>3, <4>1, <4>3, <4>4
    <3> QED
      BY <3>2, <3>3
  <2>14. Spared(W, S2, P2)
    <3>1. SUFFICES ASSUME NEW k \in DOMAIN S2,
                          k[2].self.keep # {}, k[2].self.target # "parquet", <<k[1], S2[k]>> \notin W
                   PROVE  P2[<<k[1], S2[k]>>] \subseteq Filled(k[2])
      BY DEF Spared
    <3>2. CASE k \in DOMAIN S
      <4>1. /\ S2[k] = S[k] /\ P[<<k[1], S[k]>>] \subseteq Filled(k[2])
            /\ <<k[1], S[k]>> \in DOMAIN P
        BY <2>1, <2>7, <3>1, <3>2 DEF Spared, Recorded
      <4>2. CASE <<k[1], S[k]>> # key
        BY <2>4, <4>1, <4>2
      <4>3. CASE <<k[1], S[k]>> = key
        <5>1. k[1] = n /\ S[k] = pf
          BY <4>3
        <5>2. have \subseteq Filled(k[2]) /\ P2[<<k[1], S2[k]>>] = cols
          BY <2>4, <4>1, <4>3
        <5>3. fill \subseteq Filled(k[2])
          <6>1. CASE <<n, v>> \in DOMAIN S
            <7>1. <<n, v>>[1] = n /\ <<n, v>>[2] = v /\ S[<<n, v>>] = pf
              BY <2>6, <6>1
            <7>2. Filled(v) \subseteq P[<<n, pf>>]
              BY <2>1, <6>1, <7>1 DEF Recorded
            <7> QED
              BY <2>3, <4>1, <4>3, <7>2
          <6>2. CASE <<n, v>> \notin DOMAIN S
            <7>1. pf # v
              BY <2>10, <3>2, <5>1, <6>2
            <7>2. timed
              BY <2>8, <2>9, <6>2, <7>1
            <7>3. Prj!Result(d) \subseteq Prj!Result(k[2].self)
              <8>1. <<n, pf>> \notin W
                BY <3>1, <4>1, <5>1
              <8>2. Widens(S, n, v, d, pf, W)
                BY <2>2, <2>5, <7>2
              <8> QED
                BY <8>2, <3>1, <3>2, <5>1, <6>2, <8>1 DEF Widens
            <7> QED
              BY <2>m, <7>2, <7>3 DEF fill, Filled
          <6> QED
            BY <6>1, <6>2
        <5> QED
          BY <5>2, <5>3, <2>c
      <4> QED
        BY <4>2, <4>3
    <3>3. CASE k \notin DOMAIN S
      <4>1. k = <<n, v>> /\ S2[k] = pf /\ <<n, v>> \notin DOMAIN S
        BY <2>5, <3>1, <3>3
      <4>2. k[1] = n /\ k[2] = v
        BY <4>1
      <4>3. have \subseteq fill
        <5>1. CASE pf = v
          BY <2>11, <4>1, <5>1
        <5>2. CASE pf # v
          <6>1. d.target # "parquet"
            BY <2>3, <3>1, <4>2
          <6> QED
            BY <2>e, <4>1, <5>2, <6>1 DEF fill
        <5> QED
          BY <5>1, <5>2
      <4> QED
        BY <2>3, <2>4, <2>c, <4>1, <4>2, <4>3
    <3> QED
      BY <3>2, <3>3
  <2> QED
    BY <2>12, <2>13, <2>14 DEF Books, S2, P2
<1>3. \/ S2 = S /\ P2 = P
      \/ /\ Prj!Contract(d)
         /\ pf # v /\ ~ Prj!Alive(n, v) => Prj!Evolves(d, have)
         /\ P2 = [k \in DOMAIN P \cup {key} |-> IF k = key THEN cols ELSE P[k]]
         /\ \/ S2 = [k \in DOMAIN S \cup {<<n, v>>} |-> IF k = <<n, v>> THEN pf ELSE S[k]]
            \/ S2 = S /\ ~ timed
  <2>0. Wrote(p, n, v, pfps, st, after)
    BY BuildOneIs
  <2> HIDE DEF after
  <2>1. \/ after.snap = st.snap /\ after.phys = st.phys
        \/ /\ Prj!Contract(d)
           /\ pf # v /\ ~ Prj!Alive(n, v) => Prj!Evolves(d, have)
           /\ after.phys = [k \in DOMAIN st.phys \cup {key} |-> IF k = key THEN cols ELSE st.phys[k]]
           /\ after.snap = IF Prj!Audited(d, cols) \/ d.kind = "incrementalByTimeRange"
                   THEN [k \in DOMAIN st.snap \cup {<<n, v>>} |-> IF k = <<n, v>> THEN pf ELSE st.snap[k]]
                   ELSE st.snap
    BY <2>0, Zenon DEF Wrote
  <2> HIDE DEF have, cols, pf, key
  <2>2. CASE Prj!Audited(d, cols) \/ d.kind = "incrementalByTimeRange"
    BY <2>1, <2>2
  <2>3. CASE ~ (Prj!Audited(d, cols) \/ d.kind = "incrementalByTimeRange")
    BY <2>1, <2>3
  <2> QED
    BY <2>2, <2>3
<1> QED
  BY <1>1, <1>2, <1>3

-----------------------------------------------------------------------------
(***************************************************************************)
(* The builds of a command, one model after another                        *)
(***************************************************************************)
Stepped(p, order, versions, pfps, due, n, st) ==
    \A i \in 1 .. n :
        st[i] = Prj!BuildNext(p, order[i], versions[order[i]], pfps, due, st[i - 1])

LEMMA BuildingIs ==
    ASSUME NEW e, NEW p, NEW forward, NEW due, Prj!Graphed(p)
    PROVE  LET order == Prj!Drained(p)
               versions == Prj!Versions(p)
               pfps == Prj!PhysicsFor(e, versions, forward)
               st == Prj!Building(e, p, forward, due)
               n == Cardinality(Prj!Models(p))
           IN  /\ st[0] = [ok |-> TRUE, snap |-> prjSnap, phys |-> phys]
               /\ Stepped(p, order, versions, pfps, due, n, st)
               /\ Prj!BuildAll(e, p, forward, due) = st[n]
<1> DEFINE n == Cardinality(Prj!Models(p))
           order == Prj!Drained(p)
           versions == Prj!Versions(p)
           pfps == Prj!PhysicsFor(e, versions, forward)
           start == [ok |-> TRUE, snap |-> prjSnap, phys |-> phys]
           Step(i, x) == Prj!BuildNext(p, order[i], versions[order[i]], pfps, due, x)
           F(g) == [i \in 0 .. n |-> IF i = 0 THEN start ELSE Step(i, g[i - 1])]
           q == [what |-> "builds", p |-> p, order |-> order, versions |-> versions,
                 pfps |-> pfps, due |-> due]
           st == Prj!Building(e, p, forward, due)
<1>0. n \in Nat
  BY OrderIs
<1>1. st = CHOOSE g : g = F(g)
  BY Count DEF Prj!Building
<1>2. Prj!BuildAll(e, p, forward, due) = st[n]
  BY Count DEF Prj!BuildAll
<1>3. \E g : g = F(g)
  <2>1. \A i, x : NextOf(q, i, x) = Step(i, x)
    BY DEF NextOf
  <2> HIDE DEF q, n, start, Step
  <2>2. PICK g : g = Loop(q, start, n, g)
    BY <1>0, Iterates
  <2>3. Loop(q, start, n, g) = F(g)
    BY <2>1 DEF Loop
  <2> QED
    BY <2>2, <2>3
<1> HIDE DEF F, st, n, start, Step
<1>4. st = F(st)
  BY <1>1, <1>3
<1>5. st[0] = start /\ \A i \in 1 .. n : st[i] = Step(i, st[i - 1])
  <2>1. \A i \in 0 .. n : st[i] = F(st)[i]
    BY <1>4
  <2>2. \A i \in 0 .. n : F(st)[i] = IF i = 0 THEN start ELSE Step(i, st[i - 1])
    BY DEF F
  <2>3. 0 \in 0 .. n /\ \A i \in 1 .. n : i \in 0 .. n /\ i # 0
    BY <1>0
  <2> QED
    BY <2>1, <2>2, <2>3
<1> QED
  BY <1>2, <1>5 DEF st, n, start, Step, Stepped

\* What the books ask of the models to be widened, they ask of more of them.
LEMMA BooksGrow ==
    ASSUME NEW W, NEW V, NEW S, NEW P, W \subseteq V, Books(W, S, P)
    PROVE  Books(V, S, P)
BY DEF Books, Spared

\* The snapshots that a command has left and added after i models.
Snapped(order, versions, pfps, i, S) ==
    /\ \A k \in DOMAIN prjSnap : k \in DOMAIN S /\ S[k] = prjSnap[k]
    /\ \A k \in DOMAIN S : \/ k \in DOMAIN prjSnap
                           \/ \E j \in 1 .. i : /\ k = <<order[j], versions[order[j]]>>
                                                /\ S[k] = pfps[order[j]]

\* The models built so far are registered.
Registered(p, order, versions, i, S) ==
    \A j \in 1 .. i : p[order[j]].kind # "external" =>
        <<order[j], versions[order[j]]>> \in DOMAIN S

Built(p, order, versions, pfps, i, st) ==
    /\ Stage(st)
    /\ Snapped(order, versions, pfps, i, st.snap)
    /\ Books(widened \cup Prj!Widened(st), st.snap, st.phys)
    /\ st.ok => Registered(p, order, versions, i, st.snap)

\* Forward-only is for time-range models.
Forwarded(p, forward) == \A n \in forward : p[n].kind = "incrementalByTimeRange"

LEMMA BuiltStep ==
    ASSUME NEW e, NEW p, NEW forward, NEW due, Prj!Graphed(p), ShapedModels(p),
           Forwarded(p, forward), Books(widened, prjSnap, phys),
           NEW i \in 1 .. Cardinality(Prj!Models(p)), NEW st,
           Built(p, Prj!Drained(p), Prj!Versions(p),
                 Prj!PhysicsFor(e, Prj!Versions(p), forward), i - 1, st)
    PROVE  LET order == Prj!Drained(p)
               versions == Prj!Versions(p)
               pfps == Prj!PhysicsFor(e, versions, forward)
           IN  Built(p, order, versions, pfps, i,
                     Prj!BuildNext(p, order[i], versions[order[i]], pfps, due, st))
<1> DEFINE order == Prj!Drained(p)
           versions == Prj!Versions(p)
           pfps == Prj!PhysicsFor(e, versions, forward)
           n == order[i]
           v == versions[n]
           after == Prj!BuildNext(p, n, v, pfps, due, st)
           one == Prj!BuildOne(p, n, v, pfps, st)
           S == st.snap
           S2 == one.snap
           W == widened \cup Prj!Widened(st)
           W2 == widened \cup Prj!Widened(one)
<1>1. /\ i \in Nat /\ i - 1 \in Nat
      /\ \A j \in 1 .. i : j \in 1 .. i - 1 \/ j = i
      /\ \A j \in 1 .. i - 1 : j \in 1 .. i /\ j # i
      /\ i \in 1 .. i
  BY OrderIs
<1>2. /\ n \in Prj!Models(p) /\ n \in ModelName
      /\ \A j \in 1 .. i - 1 : order[j] # n
  <2>1. n \in Prj!Models(p) /\ Once(order) /\ i \in DOMAIN order /\ 1 .. i - 1 \subseteq DOMAIN order
    BY OrderIs, <1>1
  <2> QED
    BY <2>1, <1>1 DEF Once, Prj!Models
<1>3. /\ Stage(st) /\ Snapped(order, versions, pfps, i - 1, S) /\ Books(W, S, st.phys)
      /\ st.ok => Registered(p, order, versions, i - 1, S)
  BY DEF Built
<1>4. pfps[n] = Prj!PhysicsOf(e, n, v, forward)
  BY <1>2 DEF Prj!PhysicsFor
<1>5. v.self = Prj!Payload(p[n])
  BY <1>2, VersionsAre
<1> HIDE DEF order, versions, pfps, v, W, W2
<1>6. \A k \in DOMAIN S : k[1] = n => k \in DOMAIN prjSnap
  <2>1. SUFFICES ASSUME NEW k \in DOMAIN S, k[1] = n, k \notin DOMAIN prjSnap PROVE FALSE
    OBVIOUS
  <2>2. PICK j \in 1 .. i - 1 : k = <<order[j], versions[order[j]]>>
    BY <1>3, <2>1 DEF Snapped
  <2>3. k[1] = order[j]
    BY <2>2
  <2> QED
    BY <1>2, <2>1, <2>3
<1>7. Prj!Alive(n, v) <=> <<n, v>> \in DOMAIN S
  <2>1. <<n, v>>[1] = n
    OBVIOUS
  <2> QED
    BY <1>3, <1>6, <2>1 DEF Snapped, Prj!Alive
<1>8. CASE ~ (st.ok /\ Prj!Works(p, n, v, due))
  <2>1. after = st
    BY <1>8 DEF Prj!BuildNext
  <2>2. Snapped(order, versions, pfps, i, S)
    BY <1>1, <1>3 DEF Snapped
  <2>3. st.ok => Registered(p, order, versions, i, S)
    <3>1. SUFFICES ASSUME st.ok, NEW j \in 1 .. i, p[order[j]].kind # "external"
                   PROVE  <<order[j], versions[order[j]]>> \in DOMAIN S
      BY DEF Registered
    <3>2. CASE j = i
      BY <1>7, <1>8, <3>1, <3>2 DEF Prj!Works, v
    <3>3. CASE j \in 1 .. i - 1
      BY <1>3, <3>1, <3>3 DEF Registered
    <3> QED
      BY <1>1, <3>2, <3>3
  <2> HIDE DEF after
  <2> QED
    BY <1>3, <2>1, <2>2, <2>3 DEF Built, W, order, versions, pfps, after, v
<1>9. CASE st.ok /\ Prj!Works(p, n, v, due)
  <2>1. after = one
    BY <1>9 DEF Prj!BuildNext
  <2>2. Shaped(p[n]) /\ p[n].kind # "external"
    BY <1>2, <1>9 DEF Prj!Works, ShapedModels
  <2>3. \A w : <<n, w>> \in DOMAIN prjSnap => <<n, w>> \in DOMAIN S /\ S[<<n, w>>] = prjSnap[<<n, w>>]
    BY <1>3 DEF Snapped
  <2>4. Aimed(S, n, v, p[n], pfps[n])
    <3>1. CASE Prj!Alive(n, v)
      BY <1>4, <2>3, <3>1 DEF Aimed, Prj!PhysicsOf, Prj!Alive
    <3>2. CASE ~ Prj!Alive(n, v) /\ n \in forward /\ Prj!Alive(n, rows[e][n]) /\ pfps[n] = prjSnap[<<n, rows[e][n]>>]
      <4>1. p[n].kind = "incrementalByTimeRange"
        BY <3>2 DEF Forwarded
      <4> QED
        BY <1>7, <2>3, <3>2, <4>1 DEF Aimed, Prj!Alive
    <3>3. CASE ~ Prj!Alive(n, v) /\ pfps[n] = v
      BY <1>7, <3>3 DEF Aimed
    <3> QED
      BY <1>4, <3>1, <3>2, <3>3 DEF Prj!PhysicsOf
  <2>5. Stage(one) /\ Wrote(p, n, v, pfps, st, one)
    BY <1>3, BuildOneIs
  <2>6. \/ S2 = S /\ (one.ok => FALSE)
        \/ /\ DOMAIN S2 = DOMAIN S \cup {<<n, v>>}
           /\ S2[<<n, v>>] = pfps[n] /\ \A k \in DOMAIN S : k # <<n, v>> => S2[k] = S[k]
    <3> HIDE DEF one
    <3>1. \/ S2 = S /\ (one.ok => FALSE)
          \/ S2 = [k \in DOMAIN S \cup {<<n, v>>} |-> IF k = <<n, v>> THEN pfps[n] ELSE S[k]]
      BY <2>5, Zenon DEF Wrote
    <3> HIDE DEF S, S2
    <3> QED
      BY <3>1
  <2> HIDE DEF one
  <2>7. \A k \in DOMAIN S : k \in DOMAIN S2 /\ S2[k] = S[k]
    <3>1. <<n, v>> \in DOMAIN S => S[<<n, v>>] = pfps[n]
      BY <1>4, <1>7, <2>3 DEF Prj!PhysicsOf, Prj!Alive
    <3> HIDE DEF S, S2
    <3> QED
      BY <2>6, <3>1
  <2>8. Snapped(order, versions, pfps, i, S2)
    <3>1. ASSUME NEW k \in DOMAIN prjSnap
          PROVE  k \in DOMAIN S2 /\ S2[k] = prjSnap[k]
      BY <1>3, <2>7 DEF Snapped
    <3>2. ASSUME NEW k \in DOMAIN S2
          PROVE  \/ k \in DOMAIN prjSnap
                 \/ \E j \in 1 .. i : /\ k = <<order[j], versions[order[j]]>>
                                      /\ S2[k] = pfps[order[j]]
      <4>1. CASE k \in DOMAIN S
        BY <1>1, <1>3, <2>7, <4>1 DEF Snapped
      <4>2. CASE k \notin DOMAIN S
        <5>1. k = <<n, v>> /\ S2[k] = pfps[n]
          BY <2>6, <4>2
        <5> QED
          BY <1>1, <5>1 DEF v
      <4> QED
        BY <4>1, <4>2
    <3> QED
      BY <3>1, <3>2 DEF Snapped
  <2>9. W \subseteq W2
    <3>1. SUFFICES ASSUME NEW x \in Prj!Widened(st) PROVE x \in Prj!Widened(one)
      BY DEF W, W2
    <3>2. PICK k \in DOMAIN S \ DOMAIN prjSnap :
            /\ x = <<k[1], S[k]>>
            /\ \E j \in DOMAIN prjSnap :
                 /\ j[1] = k[1] /\ prjSnap[j] = S[k] /\ j[2].self.keep # {}
                 /\ ~ (Prj!Result(k[2].self) \subseteq Prj!Result(j[2].self))
      BY <3>1 DEF Prj!Widened
    <3>3. k \in DOMAIN S2 \ DOMAIN prjSnap /\ S2[k] = S[k]
      BY <2>7, <3>2
    <3> QED
      BY <3>2, <3>3 DEF Prj!Widened
  <2>10. <<n, v>> \in DOMAIN S2 => Widens(S, n, v, p[n], pfps[n], W2)
    <3>1. SUFFICES ASSUME <<n, v>> \in DOMAIN S2, <<n, v>> \notin DOMAIN S,
                          NEW j \in DOMAIN S, j[1] = n, S[j] = pfps[n], j[2].self.keep # {},
                          ~ (Prj!Result(p[n]) \subseteq Prj!Result(j[2].self))
                   PROVE  <<n, pfps[n]>> \in W2
      BY DEF Widens
    <3>2. j \in DOMAIN prjSnap /\ prjSnap[j] = pfps[n]
      BY <1>3, <1>6, <3>1 DEF Snapped
    <3>3. <<n, v>> \notin DOMAIN prjSnap /\ S2[<<n, v>>] = pfps[n]
      BY <1>7, <2>6, <3>1 DEF Prj!Alive
    <3>4. <<n, v>>[1] = n /\ <<n, v>>[2] = v /\ Prj!Result(v.self) = Prj!Result(p[n])
      BY <1>5, <2>2, PayloadIs
    <3>5. <<n, pfps[n]>> \in Prj!Widened(one)
      <4> DEFINE k == <<n, v>>
      <4>1. k \in DOMAIN S2 \ DOMAIN prjSnap /\ k[1] = n /\ S2[k] = pfps[n]
        BY <3>1, <3>3
      <4>2. ~ (Prj!Result(k[2].self) \subseteq Prj!Result(j[2].self))
        BY <3>1, <3>4
      <4> HIDE DEF k
      <4> QED
        BY <3>1, <3>2, <4>1, <4>2 DEF Prj!Widened
    <3> QED
      BY <3>5 DEF W2
  <2>11. Books(W2, S, st.phys)
    BY <1>3, <2>9, BooksGrow
  <2>12. Books(W2, S2, one.phys)
    BY <1>3, <1>5, <1>7, <2>2, <2>4, <2>10, <2>11, BuildOneBooks DEF one
  <2>13. one.ok => Registered(p, order, versions, i, S2)
    <3>1. SUFFICES ASSUME one.ok, NEW j \in 1 .. i, p[order[j]].kind # "external"
                   PROVE  <<order[j], versions[order[j]]>> \in DOMAIN S2
      BY DEF Registered
    <3>2. CASE j = i
      BY <2>6, <3>1, <3>2 DEF v
    <3>3. CASE j \in 1 .. i - 1
      <4>1. <<order[j], versions[order[j]]>> \in DOMAIN S
        BY <1>3, <1>9, <3>1, <3>3 DEF Registered
      <4> QED
        BY <2>7, <4>1
    <3> QED
      BY <1>1, <3>2, <3>3
  <2> HIDE DEF after
  <2>14. Built(p, order, versions, pfps, i, one)
    BY <2>5, <2>8, <2>12, <2>13 DEF Built, W2
  <2> QED
    BY <2>1, <2>14 DEF order, versions, pfps, after, v
<1> QED
  BY <1>8, <1>9

LEMMA AllBuilt ==
    ASSUME NEW e, NEW p, NEW forward, NEW due, Prj!Graphed(p), ShapedModels(p),
           Forwarded(p, forward), Books(widened, prjSnap, phys)
    PROVE  \A i \in 0 .. Cardinality(Prj!Models(p)) :
              Built(p, Prj!Drained(p), Prj!Versions(p),
                    Prj!PhysicsFor(e, Prj!Versions(p), forward), i,
                    Prj!Building(e, p, forward, due)[i])
<1> DEFINE n == Cardinality(Prj!Models(p))
           order == Prj!Drained(p)
           versions == Prj!Versions(p)
           pfps == Prj!PhysicsFor(e, versions, forward)
           st == Prj!Building(e, p, forward, due)
           Good(i) == Built(p, order, versions, pfps, i, st[i])
           Bad == {i \in 0 .. n : ~ Good(i)}
<1>1. n \in Nat
  BY OrderIs
<1>2. st[0] = [ok |-> TRUE, snap |-> prjSnap, phys |-> phys]
  BY BuildingIs
<1>b. Stepped(p, order, versions, pfps, due, n, st)
  BY BuildingIs
<1>3. Good(0)
  <2> DEFINE start == st[0]
  <2>1. Stage(start) /\ start.snap = prjSnap /\ start.phys = phys
    BY <1>2 DEF Stage
  <2> HIDE DEF start, order, versions, pfps
  <2>2. Books(widened \cup Prj!Widened(start), start.snap, start.phys)
    BY <2>1, BooksGrow
  <2>3. Snapped(order, versions, pfps, 0, start.snap) /\ Registered(p, order, versions, 0, start.snap)
    BY <2>1 DEF Snapped, Registered
  <2> QED
    BY <2>1, <2>2, <2>3 DEF Built, start
<1>4. ASSUME NEW i \in 1 .. n, Good(i - 1) PROVE Good(i)
  <2>1. st[i] = Prj!BuildNext(p, order[i], versions[order[i]], pfps, due, st[i - 1])
    BY <1>b, <1>4 DEF Stepped
  <2> QED
    BY <2>1, <1>4, BuiltStep
<1> HIDE DEF Good
<1>5. Bad = {}
  <2>1. SUFFICES ASSUME Bad # {} PROVE FALSE
    OBVIOUS
  <2>2. PICK i \in Bad : \A l \in Bad : i <= l
    <3>1. Bad \subseteq Nat
      BY <1>1
    <3> HIDE DEF Bad
    <3> QED
      BY <2>1, <3>1, Least
  <2>3. i \in 1 .. n /\ i - 1 \in 0 .. n
    BY <1>1, <1>3, <2>2
  <2>4. Good(i - 1)
    BY <1>1, <2>2, <2>3
  <2> QED
    BY <1>4, <2>2, <2>3, <2>4
<1> QED
  BY <1>5 DEF Good

\* A declaration that is built without an engine error where its parents are.
SoundModel(g, n) ==
    LET d == g[n] IN
    /\ d.keep \subseteq d.returns /\ Prj!Contract(d)
    /\ d.reads \subseteq UNION {g[m].cols : m \in Prj!Deps(g, n)}
    /\ Prj!Named(d) \subseteq d.cols
    /\ \A a \in d.audits : a.on \subseteq d.cols

Sound(g) == \A n \in Prj!Models(g) : g[n].kind # "external" => SoundModel(g, n)

\* What is declared is filled in.
LEMMA FilledIs ==
    ASSUME NEW v, Prj!Contract(v.self)
    PROVE  v.self.cols \subseteq Filled(v)
BY DEF Prj!Contract, Filled

LEMMA BuildsOne ==
    ASSUME NEW p, NEW n, NEW v, NEW pfps, NEW st, Stage(st),
           SoundModel(p, n), pfps[n] = v \/ Prj!Alive(n, v),
           \A m \in Prj!Deps(p, n) : p[m].kind # "external" => p[m].cols \subseteq st.phys[<<m, pfps[m]>>]
    PROVE  Prj!BuildOne(p, n, v, pfps, st).ok = TRUE
<1> DEFINE d == p[n]
           after == Prj!BuildOne(p, n, v, pfps, st)
           read == Prj!Readable(p, n, st.phys, pfps)
           have == Having(st.phys, <<n, pfps[n]>>)
           cols == have \cup (Prj!Result(d) \cup Prj!Managed(d))
<1>1. Wrote(p, n, v, pfps, st, after)
  BY BuildOneIs
<1>2. d.reads \subseteq read
  <2>1. SUFFICES ASSUME NEW x \in d.reads PROVE x \in read
    OBVIOUS
  <2>2. PICK m \in Prj!Deps(p, n) : x \in p[m].cols
    BY <2>1 DEF SoundModel
  <2>3. x \in IF p[m].kind = "external" THEN p[m].cols ELSE st.phys[<<m, pfps[m]>>]
    BY <2>2
  <2> QED
    BY <2>2, <2>3 DEF Prj!Readable
<1>3. Prj!Describes(d, read)
  BY <1>2 DEF SoundModel, Prj!Describes
<1>4. d.cols \subseteq cols
  BY DEF SoundModel, Prj!Contract
<1>5. Prj!Contract(d) /\ Prj!Named(d) \subseteq cols /\ Prj!Audited(d, cols)
  BY <1>4 DEF SoundModel, Prj!Audited
<1> HIDE DEF after, cols, have, read
<1>6. after.ok = FALSE => FALSE
  <2> HAVE after.ok = FALSE
  <2>1. Prj!Describes(d, read) /\ Prj!Contract(d) /\ Prj!Named(d) \subseteq cols
    BY <1>3, <1>5
  <2> QED
    BY <1>1, <1>5, <2>1, Zenon DEF Wrote, cols, have, read
<1>7. after.ok = Prj!Audited(d, cols)
  BY <1>1, <1>3, <1>5, Zenon DEF Wrote, cols, have, read
<1>8. after.ok = TRUE
  BY <1>5, <1>7, Zenon
<1> QED
  BY <1>8 DEF after

\* A registered model's physics has the columns it declares.
LEMMA ParentFilled ==
    ASSUME NEW e, NEW p, NEW forward, Prj!Graphed(p), ShapedModels(p), NEW i, NEW st,
           Built(p, Prj!Drained(p), Prj!Versions(p),
                 Prj!PhysicsFor(e, Prj!Versions(p), forward), i, st),
           st.ok = TRUE, NEW m \in Prj!Models(p), p[m].kind # "external",
           NEW j \in 1 .. i, Prj!Drained(p)[j] = m
    PROVE  p[m].cols \subseteq st.phys[<<m, Prj!PhysicsFor(e, Prj!Versions(p), forward)[m]>>]
<1> DEFINE order == Prj!Drained(p)
           versions == Prj!Versions(p)
           pfps == Prj!PhysicsFor(e, versions, forward)
           S == st.snap
           v == versions[m]
           k == <<m, v>>
<1>1. /\ Snapped(order, versions, pfps, i, S) /\ Recorded(S, st.phys)
      /\ Registered(p, order, versions, i, S)
  BY DEF Built, Books
<1>2. v.self = Prj!Payload(p[m]) /\ m \in ModelName /\ Shaped(p[m])
  BY VersionsAre DEF Prj!Models, ShapedModels
<1>3. pfps[m] = Prj!PhysicsOf(e, m, v, forward)
  BY <1>2 DEF Prj!PhysicsFor
<1>4. order[j] = m
  OBVIOUS
<1>5. v.self.cols = p[m].cols
  BY <1>2, PayloadIs
<1> HIDE DEF order, versions, pfps
<1>6. k \in DOMAIN S
  BY <1>1, <1>4 DEF Registered
<1>7. k[1] = m /\ k[2] = v
  OBVIOUS
<1>8. S[k] = pfps[m]
  <2>1. CASE k \in DOMAIN prjSnap
    <3>1. S[k] = prjSnap[k]
      BY <1>1, <2>1 DEF Snapped
    <3> QED
      BY <1>3, <2>1, <3>1 DEF Prj!PhysicsOf, Prj!Alive
  <2>2. CASE k \notin DOMAIN prjSnap
    <3>1. PICK l \in 1 .. i : k = <<order[l], versions[order[l]]>> /\ S[k] = pfps[order[l]]
      BY <1>1, <1>6, <2>2 DEF Snapped
    <3>2. k[1] = order[l]
      BY <3>1
    <3> QED
      BY <1>7, <3>1, <3>2
  <2> QED
    BY <2>1, <2>2
<1> HIDE DEF k, v
<1>9. Filled(v) \subseteq st.phys[<<m, pfps[m]>>] /\ Prj!Contract(v.self)
  BY <1>1, <1>6, <1>7, <1>8 DEF Recorded
<1>10. p[m].cols \subseteq st.phys[<<m, pfps[m]>>]
  BY <1>5, <1>9, FilledIs
<1> QED
  BY <1>10 DEF pfps, versions

LEMMA SoundBuilds ==
    ASSUME NEW e, NEW p, NEW forward, NEW due, Prj!Graphed(p), ShapedModels(p),
           forward = {}, Books(widened, prjSnap, phys), Sound(p)
    PROVE  Prj!BuildAll(e, p, forward, due).ok = TRUE
<1> DEFINE n == Cardinality(Prj!Models(p))
           order == Prj!Drained(p)
           versions == Prj!Versions(p)
           pfps == Prj!PhysicsFor(e, versions, forward)
           st == Prj!Building(e, p, forward, due)
           Fine(i) == st[i].ok = TRUE
           Bad == {i \in 0 .. n : ~ Fine(i)}
<1>1. /\ n \in Nat /\ DOMAIN order = 1 .. n
      /\ \A i \in 1 .. n : order[i] \in Prj!Models(p)
      /\ ParentsFirst(p, order)
  BY OrderIs
<1>2. st[0] = [ok |-> TRUE, snap |-> prjSnap, phys |-> phys]
  BY BuildingIs
<1>3. Stepped(p, order, versions, pfps, due, n, st)
  BY BuildingIs
<1>4. Prj!BuildAll(e, p, forward, due) = st[n]
  BY BuildingIs
<1>5. \A i \in 0 .. n : Built(p, order, versions, pfps, i, st[i])
  BY AllBuilt DEF Forwarded
<1>6. Known(p)
  BY GraphedIs
<1> HIDE DEF n, st
<1>7. ASSUME NEW i \in 1 .. n, st[i - 1].ok = TRUE
      PROVE  st[i].ok = TRUE
  <2> DEFINE m == order[i]
             v == versions[m]
             x == st[i - 1]
  <2>1. st[i] = Prj!BuildNext(p, m, v, pfps, due, x)
    BY <1>3 DEF Stepped
  <2>2. CASE ~ Prj!Works(p, m, v, due)
    BY <2>1, <2>2, <1>7 DEF Prj!BuildNext
  <2>3. CASE Prj!Works(p, m, v, due)
    <3>1. st[i] = Prj!BuildOne(p, m, v, pfps, x)
      BY <2>1, <2>3, <1>7 DEF Prj!BuildNext
    <3>2. i - 1 \in 0 .. n /\ i \in DOMAIN order
      BY <1>1
    <3>3. Built(p, order, versions, pfps, i - 1, x)
      BY <1>5, <3>2
    <3>4. m \in Prj!Models(p) /\ m \in ModelName /\ p[m].kind # "external"
      BY <1>1, <2>3 DEF Prj!Works, Prj!Models
    <3>5. pfps[m] = v \/ Prj!Alive(m, v)
      BY <3>4 DEF Prj!PhysicsFor, Prj!PhysicsOf
    <3>6. ASSUME NEW a \in Prj!Deps(p, m), p[a].kind # "external"
          PROVE  p[a].cols \subseteq x.phys[<<a, pfps[a]>>]
      <4>1. a \in Prj!Models(p)
        BY <1>6, <3>4 DEF Known
      <4>2. PICK j \in 1 .. i - 1 : order[j] = a
        BY <1>1, <3>2 DEF ParentsFirst
      <4> QED
        BY <1>7, <3>3, <3>6, <4>1, <4>2, ParentFilled
    <3>7. SoundModel(p, m) /\ Stage(x)
      BY <3>3, <3>4 DEF Sound, Built
    <3> HIDE DEF m, v, pfps, x
    <3>8. Prj!BuildOne(p, m, v, pfps, x).ok = TRUE
      BY <3>5, <3>6, <3>7, BuildsOne
    <3> QED
      BY <3>1, <3>8
  <2> QED
    BY <2>2, <2>3
<1>e. Fine(0)
  <2> DEFINE start == [ok |-> TRUE, snap |-> prjSnap, phys |-> phys]
  <2>1. start.ok = TRUE
    OBVIOUS
  <2>2. st[0] = start
    BY <1>2
  <2> HIDE DEF start
  <2> QED
    BY <2>1, <2>2, Zenon
<1>f. \A i \in 1 .. n : Fine(i - 1) => Fine(i)
  <2> TAKE i \in 1 .. n
  <2> HAVE Fine(i - 1)
  <2> QED
    BY <1>7, Zenon
<1>g. Fine(n) => Prj!BuildAll(e, p, forward, due).ok = TRUE
  <2> DEFINE all == Prj!BuildAll(e, p, forward, due)
  <2>1. all = st[n]
    BY <1>4
  <2> HIDE DEF all
  <2>2. Fine(n) => all.ok = TRUE
    BY <2>1, Zenon
  <2> QED
    BY <2>2 DEF all
<1> HIDE DEF Fine
<1>8. Bad = {}
  <2>1. SUFFICES ASSUME Bad # {} PROVE FALSE
    OBVIOUS
  <2>2. PICK i \in Bad : \A l \in Bad : i <= l
    <3>1. Bad \subseteq Nat
      BY <1>1
    <3> HIDE DEF Bad
    <3> QED
      BY <2>1, <3>1, Least
  <2>3. i \in 1 .. n /\ i - 1 \in 0 .. n
    BY <1>1, <1>e, <2>2
  <2>4. Fine(i - 1)
    BY <1>1, <2>2, <2>3
  <2> QED
    BY <1>f, <2>2, <2>3, <2>4
<1> QED
  BY <1>1, <1>g, <1>8

\* What a command's builds leave.
LEMMA BuiltAll ==
    ASSUME NEW e, NEW p, NEW forward, NEW due, Prj!Graphed(p), ShapedModels(p),
           Forwarded(p, forward), Books(widened, prjSnap, phys)
    PROVE  LET built == Prj!BuildAll(e, p, forward, due) IN
           /\ Books(widened \cup Prj!Widened(built), built.snap, built.phys)
           /\ \A k \in DOMAIN prjSnap : k \in DOMAIN built.snap
           /\ built.ok => \A m \in Prj!Models(p) : p[m].kind # "external" =>
                             <<m, Prj!Versions(p)[m]>> \in DOMAIN built.snap
           /\ forward = {} => Books(widened, built.snap, built.phys)
<1> DEFINE n == Cardinality(Prj!Models(p))
           order == Prj!Drained(p)
           versions == Prj!Versions(p)
           pfps == Prj!PhysicsFor(e, versions, forward)
           st == Prj!Building(e, p, forward, due)
           built == Prj!BuildAll(e, p, forward, due)
<1>1. n \in Nat /\ \A m \in Prj!Models(p) : \E i \in 1 .. n : order[i] = m
  BY OrderIs
<1>2. built = st[n]
  BY BuildingIs
<1>3. Built(p, order, versions, pfps, n, built)
  BY <1>1, <1>2, AllBuilt
<1>4. \A j \in 1 .. n : order[j] \in ModelName
  BY OrderIs DEF Prj!Models
<1> HIDE DEF built, n, st
<1>5. /\ Books(widened \cup Prj!Widened(built), built.snap, built.phys)
      /\ \A k \in DOMAIN prjSnap : k \in DOMAIN built.snap
  BY <1>3 DEF Built, Snapped
<1>6. built.ok => \A m \in Prj!Models(p) : p[m].kind # "external" =>
                     <<m, versions[m]>> \in DOMAIN built.snap
  BY <1>1, <1>3 DEF Built, Registered
<1>7. ASSUME forward = {} PROVE Prj!Widened(built) = {}
  <2>1. SUFFICES ASSUME NEW k \in DOMAIN built.snap \ DOMAIN prjSnap, NEW j \in DOMAIN prjSnap,
                        j[1] = k[1], prjSnap[j] = built.snap[k]
                 PROVE  FALSE
    BY DEF Prj!Widened
  <2>2. PICK l \in 1 .. n : k = <<order[l], versions[order[l]]>> /\ built.snap[k] = pfps[order[l]]
    BY <1>3, <2>1 DEF Built, Snapped
  <2>3. k[1] = order[l] /\ k[2] = versions[order[l]]
    BY <2>2
  <2>4. pfps[order[l]] = Prj!PhysicsOf(e, order[l], versions[order[l]], forward)
    BY <1>4 DEF Prj!PhysicsFor
  <2>5. pfps[order[l]] = versions[order[l]]
    BY <1>7, <2>1, <2>2, <2>4 DEF Prj!PhysicsOf, Prj!Alive
  <2>6. prjSnap[j] = k[2]
    BY <2>1, <2>2, <2>3, <2>5
  <2>7. k = <<k[1], k[2]>>
    BY <2>2, <2>3
  <2> QED
    BY <2>1, <2>6, <2>7 DEF Books, Recorded
<1> QED
  BY <1>5, <1>6, <1>7 DEF built

-----------------------------------------------------------------------------
(***************************************************************************)
(* Projects that are built                                                 *)
(***************************************************************************)
LEMMA NamedIs ==
    ASSUME NEW d
    PROVE  /\ d.kind = "incrementalByUniqueKey" => Prj!Named(d) = d.key
           /\ d.kind = "incrementalByTimeRange" => Prj!Named(d) = {d.time}
           /\ d.kind \notin {"incrementalByUniqueKey", "incrementalByTimeRange"}
                => Prj!Named(d) = {}
<1>1. CASE d.kind = "incrementalByUniqueKey"
  <2>1. Prj!Named(d) = d.key
    BY <1>1, Zenon DEF Prj!Named
  <2> QED
    BY <1>1, <2>1
<1>2. CASE d.kind = "incrementalByTimeRange"
  <2>1. "incrementalByTimeRange" # "incrementalByUniqueKey"
    OBVIOUS
  <2>2. Prj!Named(d) = {d.time}
    BY <1>2, <2>1, Zenon DEF Prj!Named
  <2> QED
    BY <1>2, <2>2
<1>3. CASE d.kind \notin {"incrementalByUniqueKey", "incrementalByTimeRange"}
  <2>1. d.kind # "incrementalByUniqueKey" /\ d.kind # "incrementalByTimeRange"
    BY <1>3
  <2>2. Prj!Named(d) = {}
    BY <2>1, Zenon DEF Prj!Named
  <2> QED
    BY <1>3, <2>2
<1> QED
  BY <1>1, <1>2, <1>3

\* The statements name columns that are declared.
LEMMA NamedDeclared ==
    ASSUME NEW n, NEW d, Prj!Accepted(n, d)
    PROVE  Prj!Named(d) \subseteq d.cols
<1>1. CASE d.kind \in {"incrementalByUniqueKey", "incrementalByTimeRange"}
  <2>1. d.kind # "external" /\ d.kind # "seed" /\ d.kind # "none"
    BY <1>1
  <2>2. Prj!AcceptedQuery(n, d)
    BY <2>1, Zenon DEF Prj!Accepted
  <2>3. Prj!KeyDeclared(d) /\ Prj!TimeDeclared(d)
    BY <2>2 DEF Prj!AcceptedQuery
  <2>4. CASE d.kind = "incrementalByUniqueKey"
    BY <2>3, <2>4, NamedIs DEF Prj!KeyDeclared, Prj!Refreshed
  <2>5. CASE d.kind = "incrementalByTimeRange"
    BY <2>3, <2>5, NamedIs DEF Prj!TimeDeclared
  <2> QED
    BY <1>1, <2>4, <2>5
<1>2. CASE d.kind \notin {"incrementalByUniqueKey", "incrementalByTimeRange"}
  BY <1>2, NamedIs
<1> QED
  BY <1>1, <1>2

LEMMA HonestSound ==
    ASSUME NEW p \in Projects, Prj!Loads(p), Prj!Honest(p)
    PROVE  Sound(p)
<1>1. SUFFICES ASSUME NEW n \in Prj!Models(p), p[n].kind # "external" PROVE SoundModel(p, n)
  BY DEF Sound
<1> DEFINE d == p[n]
<1>2. d.keep = {}
  BY <1>1, DeclaredShape
<1>3. /\ d.returns = d.cols \ Prj!Managed(d)
      /\ d.reads \subseteq UNION {p[m].cols : m \in Prj!Deps(p, n)}
      /\ \A a \in d.audits : a.on \subseteq d.cols
  BY <1>1 DEF Prj!Honest
<1>4. n \in ModelName
  BY DEF Prj!Models
<1>5. Prj!Named(d) \subseteq d.cols
  BY <1>4, NamedDeclared DEF Prj!Loads
<1>6. Prj!Contract(d)
  BY <1>2, <1>3 DEF Prj!Contract, Prj!Result
<1> QED
  BY <1>2, <1>3, <1>5, <1>6 DEF SoundModel

\* What redacting changes of a declaration.
LEMMA RedactedIs ==
    ASSUME NEW d, Shaped(d)
    PROVE  LET r == Prj!RedactModel(d) IN
           /\ d.kind \notin Prj!Query \/ d.redact = {} => r = d
           /\ d.kind \in Prj!Query /\ d.redact # {} =>
                /\ r.cols = d.cols \ d.redact /\ r.keep = r.cols
                /\ r.audits = Prj!RedactedAudits(d)
                /\ r.returns = d.returns /\ r.reads = d.reads
                /\ Prj!Named(r) = Prj!Named(d) /\ r.kind = d.kind
<1>1. CASE d.kind \notin Prj!Query \/ d.redact = {}
  BY <1>1 DEF Prj!RedactModel
<1>2. CASE ~ (d.kind \notin Prj!Query \/ d.redact = {})
  <2> DEFINE r == [d EXCEPT !.cols = @ \ d.redact, !.keep = d.cols \ d.redact,
                            !.audits = Prj!RedactedAudits(d)]
             gone == Prj!RedactedAudits(d)
  <2>1. Prj!RedactModel(d) = r
    BY <1>2 DEF Prj!RedactModel
  <2> HIDE DEF gone
  <2>2. /\ \A f \in DOMAIN d : f \notin {"cols", "keep", "audits"} => r[f] = d[f]
        /\ r["cols"] = d["cols"] \ d["redact"]
        /\ r["keep"] = d["cols"] \ d["redact"]
    BY DEF Shaped
  <2>3. r["audits"] = gone
    BY DEF Shaped, gone
  <2> HIDE DEF r
  <2>4. /\ {"kind", "returns", "reads"} \subseteq DOMAIN d
        /\ d.kind = "incrementalByUniqueKey" => "key" \in DOMAIN d
        /\ d.kind = "incrementalByTimeRange" => "time" \in DOMAIN d
    BY DEF Shaped
  <2>5. r.kind = d.kind /\ r.returns = d.returns /\ r.reads = d.reads
    BY <2>2, <2>4
  <2>6. /\ d.kind = "incrementalByUniqueKey" => r.key = d.key
        /\ d.kind = "incrementalByTimeRange" => r.time = d.time
    BY <2>2, <2>4
  <2>7. Prj!Named(r) = Prj!Named(d)
    BY <2>5, <2>6, NamedIs
  <2> QED
    BY <1>2, <2>1, <2>2, <2>3, <2>5, <2>7 DEF gone
<1> QED
  BY <1>1, <1>2

LEMMA RedactedSound ==
    ASSUME NEW p \in Projects, Prj!Loads(p), Prj!Honest(p), Prj!Redactable(p)
    PROVE  Sound(Prj!RedactGraph(p))
<1> DEFINE g == Prj!RedactGraph(p)
<1>1. Sound(p)
  BY HonestSound
<1>2. \A n \in ModelName : g[n] = Prj!RedactModel(p[n])
  BY DEF Prj!RedactGraph
<1> HIDE DEF g
<1>3. /\ Prj!Models(g) = Prj!Models(p) /\ Known(p)
      /\ \A n \in ModelName : /\ g[n].kind = p[n].kind
                              /\ n \in Prj!Models(p) => Prj!Deps(g, n) = Prj!Deps(p, n)
  <2>1. \A n \in ModelName : g[n].kind = p[n].kind /\ (g[n] = Prj!None <=> p[n] = Prj!None)
    BY <1>2, RedactIs
  <2>2. ASSUME NEW n \in Prj!Models(p) PROVE Prj!Deps(g, n) = Prj!Deps(p, n)
    <3>1. n \in ModelName
      BY DEF Prj!Models
    <3>2. CASE p[n].kind \in Prj!Query
      <4>1. Shaped(p[n])
        <5>1. p[n].kind # "external"
          BY <3>2 DEF Prj!Query
        <5> QED
          BY <5>1, DeclaredShape
      <4> QED
        BY <1>2, <3>1, <3>2, <4>1, RedactIs DEF Prj!Deps
    <3>3. CASE p[n].kind \notin Prj!Query
      BY <2>1, <3>1, <3>3 DEF Prj!Deps
    <3> QED
      BY <3>2, <3>3
  <2>3. Known(p)
    BY GraphedIs DEF Prj!Loads
  <2> QED
    BY <2>1, <2>2, <2>3 DEF Prj!Models
<1>4. SUFFICES ASSUME NEW n \in Prj!Models(p), p[n].kind # "external" PROVE SoundModel(g, n)
  BY <1>3 DEF Sound, g, Prj!Models
<1> DEFINE d == p[n]
           r == g[n]
<1>5. Shaped(d) /\ d.keep = {} /\ SoundModel(p, n) /\ n \in ModelName
  BY <1>1, <1>4, DeclaredShape DEF Sound, Prj!Models
<1>6. r = Prj!RedactModel(d)
  BY <1>2, <1>5
<1>7. d.reads \subseteq UNION {g[m].cols : m \in Prj!Deps(p, n)}
  <2>1. SUFFICES ASSUME NEW x \in d.reads PROVE \E m \in Prj!Deps(p, n) : x \in g[m].cols
    OBVIOUS
  <2>2. PICK m \in Prj!Deps(p, n) : x \in p[m].cols
    BY <1>5, <2>1 DEF SoundModel
  <2>3. d.kind \in Prj!Query /\ m \in d.deps
    BY <2>2 DEF Prj!Deps
  <2>4. m \in Prj!Models(p) /\ m \in ModelName
    BY <1>3, <1>4, <2>2 DEF Known, Prj!Models
  <2>5. CASE p[m].kind \in Prj!Query /\ p[m].redact # {}
    <3>1. d.reads \cap p[m].redact = {}
      BY <1>4, <2>3, <2>5 DEF Prj!Redactable
    <3>2. p[m].kind # "external"
      BY <2>5 DEF Prj!Query
    <3>3. Shaped(p[m])
      BY <2>4, <3>2, DeclaredShape
    <3>4. g[m].cols = p[m].cols \ p[m].redact
      BY <1>2, <2>4, <2>5, <3>3, RedactedIs
    <3> QED
      BY <2>1, <2>2, <3>1, <3>4
  <2>6. CASE ~ (p[m].kind \in Prj!Query /\ p[m].redact # {})
    <3>1. g[m] = p[m]
      BY <1>2, <2>4, <2>6 DEF Prj!RedactModel
    <3> QED
      BY <2>2, <3>1
  <2> QED
    BY <2>5, <2>6
<1>8. Prj!Deps(g, n) = Prj!Deps(p, n)
  BY <1>3, <1>5
<1>9. CASE d.kind \notin Prj!Query \/ d.redact = {}
  <2>1. r = d
    BY <1>5, <1>6, <1>9, RedactedIs
  <2> HIDE DEF r, d
  <2> QED
    BY <1>5, <1>7, <1>8, <2>1 DEF SoundModel, r, d
<1>10. CASE d.kind \in Prj!Query /\ d.redact # {}
  <2>1. /\ r.cols = d.cols \ d.redact /\ r.keep = r.cols
        /\ r.audits = Prj!RedactedAudits(d)
        /\ r.returns = d.returns /\ r.reads = d.reads
        /\ Prj!Named(r) = Prj!Named(d) /\ r.kind = d.kind
    BY <1>5, <1>6, <1>10, RedactedIs
  <2>2. /\ d.kind # "scdType2" /\ d.cols \ d.redact # {}
        /\ Prj!Named(d) \cap d.redact = {}
        /\ \A a \in d.audits : a.on \cap d.redact # {} => a.mentions \cap d.redact # {}
    BY <1>4, <1>10 DEF Prj!Redactable
  <2>3. Prj!Managed(d) = {} /\ Prj!Managed(r) = {}
    BY <2>1, <2>2 DEF Prj!Managed
  <2>4. /\ d.returns = d.cols \ Prj!Managed(d) /\ Prj!Named(d) \subseteq d.cols
        /\ \A a \in d.audits : a.on \subseteq d.cols
    BY <1>5 DEF SoundModel, Prj!Contract, Prj!Result
  <2> HIDE DEF r, d
  <2>5. Prj!Contract(r) /\ r.keep \subseteq r.returns
    BY <2>1, <2>2, <2>3, <2>4 DEF Prj!Contract, Prj!Result
  <2>6. Prj!Named(r) \subseteq r.cols
    BY <2>1, <2>2, <2>4
  <2>7. ASSUME NEW a \in r.audits PROVE a.on \subseteq r.cols
    <3>1. a \in d.audits /\ a.mentions \cap d.redact = {}
      BY <2>1, <2>7 DEF Prj!RedactedAudits
    <3> QED
      BY <2>1, <2>2, <2>4, <3>1
  <2>8. r.reads \subseteq UNION {g[m].cols : m \in Prj!Deps(g, n)}
    BY <1>7, <1>8, <2>1
  <2> QED
    BY <2>5, <2>6, <2>7, <2>8 DEF SoundModel, r
<1> QED
  BY <1>9, <1>10

-----------------------------------------------------------------------------
(***************************************************************************)
(* The invariant                                                           *)
(***************************************************************************)
\* An environment serves nothing, or the versions of what it was applied with,
\* each of which is registered.
Served(e, a, r, S) ==
    \/ a = <<>> /\ r = [n \in ModelName |-> Prj!None]
    \/ /\ a \in Projects /\ Prj!Graphed(a) /\ r = Prj!Versions(Prj!GraphFor(e, a))
       /\ \A n \in Prj!Models(a) : a[n].kind # "external" => <<n, r[n]>> \in DOMAIN S

ServedAll == \A e \in Deployed : Served(e, applied[e], rows[e], prjSnap)

PrjInv ==
    /\ project \in Projects
    /\ Books(widened, prjSnap, phys)
    /\ DOMAIN rows = Deployed /\ DOMAIN applied = Deployed
    /\ ServedAll
    /\ Prj!AcceptedBuilds /\ Prj!RedactedBuilds

LEMMA PrjInitial == Prj!Init => PrjInv
<1> SUFFICES ASSUME Prj!Init PROVE PrjInv
  OBVIOUS
<1>1. project \in Projects
  BY DEF Prj!Init, Projects
<1>2. Books(widened, prjSnap, phys)
  BY DEF Prj!Init, Books, Recorded, Left, Spared
<1>3. /\ DOMAIN rows = Deployed /\ DOMAIN applied = Deployed
      /\ ServedAll
  BY DEF Prj!Init, ServedAll, Served
<1>4. \A e : ~ Prj!Failed(e)
  BY DEF Prj!Init, Prj!Failed
<1> QED
  BY <1>1, <1>2, <1>3, <1>4 DEF PrjInv, Prj!AcceptedBuilds, Prj!RedactedBuilds

\* The environments serve what they did, where no snapshot is lost.
LEMMA ServedStays ==
    ASSUME NEW e, NEW a, NEW r, NEW S, NEW T, Served(e, a, r, S),
           \A k \in DOMAIN S : k \in DOMAIN T
    PROVE  Served(e, a, r, T)
BY DEF Served

\* What an apply makes an environment serve.
LEMMA ServedIs ==
    ASSUME NEW e, NEW a \in Projects, NEW S, Prj!Graphed(a),
           \A m \in Prj!Models(Prj!GraphFor(e, a)) : Prj!GraphFor(e, a)[m].kind # "external" =>
               <<m, Prj!Versions(Prj!GraphFor(e, a))[m]>> \in DOMAIN S
    PROVE  Served(e, a, Prj!Versions(Prj!GraphFor(e, a)), S)
<1> DEFINE g == Prj!GraphFor(e, a)
           r == Prj!Versions(g)
<1>1. Prj!Models(g) = Prj!Models(a) /\ \A n \in ModelName : g[n].kind = a[n].kind
  BY GraphIs
<1>2. \A n \in Prj!Models(a) : n \in ModelName
  BY DEF Prj!Models
<1>3. \A m \in Prj!Models(g) : g[m].kind # "external" => <<m, r[m]>> \in DOMAIN S
  OBVIOUS
<1> HIDE DEF r, g
<1>4. \A m \in Prj!Models(a) : a[m].kind # "external" => <<m, r[m]>> \in DOMAIN S
  BY <1>1, <1>2, <1>3
<1> QED
  BY <1>4 DEF Served, r, g

\* What a project's graph is planned on.
LEMMA Planned ==
    ASSUME NEW e, NEW p \in Projects, Prj!Loads(p)
    PROVE  /\ Prj!Graphed(Prj!GraphFor(e, p)) /\ ShapedModels(Prj!GraphFor(e, p))
           /\ Prj!Graphed(p) /\ ShapedModels(p)
BY GraphedFor, GraphIs, DeclaredShape DEF Prj!Loads, ShapedModels

LEMMA ApplyStep ==
    ASSUME PrjInv, NEW e \in Deployed, NEW due \in BOOLEAN, NEW forward \in SUBSET Prj!Timed,
           Prj!Apply(e, forward, due)
    PROVE  PrjInv'
<1> DEFINE p == Prj!GraphFor(e, project)
           built == Prj!BuildAll(e, p, forward, due)
           versions == Prj!Versions(p)
<1>1. /\ Prj!Loads(project) /\ project' = project
      /\ prjSnap' = built.snap /\ phys' = built.phys
      /\ widened' = widened \cup Prj!Widened(built)
      /\ \/ /\ built.ok
            /\ last' = [command |-> "apply", env |-> e, outcome |-> "ok"]
            /\ rows' = [rows EXCEPT ![e] = versions]
            /\ applied' = [applied EXCEPT ![e] = project]
         \/ /\ ~ built.ok /\ rows' = rows /\ applied' = applied
            /\ last' = [command |-> "apply", env |-> e,
                        outcome |-> IF forward = {} THEN "failed" ELSE "reuse failed"]
  BY DEF Prj!Apply, Prj!Command
<1>2. /\ project \in Projects /\ Books(widened, prjSnap, phys)
      /\ DOMAIN rows = Deployed /\ DOMAIN applied = Deployed /\ ServedAll
  BY DEF PrjInv
<1>3. Prj!Graphed(p) /\ ShapedModels(p) /\ Prj!Graphed(project)
  BY <1>1, <1>2, Planned
<1>4. Forwarded(p, forward)
  <2>1. SUFFICES ASSUME NEW n \in forward PROVE p[n].kind = "incrementalByTimeRange"
    BY DEF Forwarded
  <2>2. n \in ModelName /\ project[n].kind = "incrementalByTimeRange"
    BY DEF Prj!Timed, Prj!Models
  <2> QED
    BY <1>2, <2>2, GraphIs
<1>5. /\ Books(widened \cup Prj!Widened(built), built.snap, built.phys)
      /\ \A k \in DOMAIN prjSnap : k \in DOMAIN built.snap
  BY <1>2, <1>3, <1>4, BuiltAll
<1>6. built.ok => \A m \in Prj!Models(p) : p[m].kind # "external" =>
                     <<m, versions[m]>> \in DOMAIN built.snap
  BY <1>2, <1>3, <1>4, BuiltAll
<1>7. forward = {} /\ Sound(p) => built.ok = TRUE
  BY <1>2, <1>3, SoundBuilds
<1> HIDE DEF built
<1>8. Books(widened, prjSnap, phys)'
  BY <1>1, <1>5
<1>9. built.ok => Served(e, project, versions, built.snap)
  BY <1>2, <1>3, <1>6, ServedIs
<1> HIDE DEF versions
<1>10. ServedAll'
  <2>1. SUFFICES ASSUME NEW f \in Deployed PROVE Served(f, applied'[f], rows'[f], prjSnap')
    BY DEF ServedAll
  <2>2. Served(f, applied[f], rows[f], built.snap)
    BY <1>2, <1>5, ServedStays DEF ServedAll
  <2>3. CASE f = e /\ built.ok
    <3>1. applied'[f] = project /\ rows'[f] = versions
      BY <1>1, <1>2, <2>3
    <3> QED
      BY <1>1, <1>9, <2>3, <3>1
  <2>4. CASE ~ (f = e /\ built.ok)
    <3>1. applied'[f] = applied[f] /\ rows'[f] = rows[f]
      BY <1>1, <1>2, <2>4
    <3> QED
      BY <1>1, <2>2, <3>1
  <2> QED
    BY <2>3, <2>4
<1>11. ASSUME NEW f \in Deployed, Prj!Failed(f)' PROVE f = e /\ forward = {} /\ ~ built.ok
  <2>1. last'.env = f /\ last'.outcome = "failed"
    BY <1>11 DEF Prj!Failed
  <2>2. CASE last' = [command |-> "apply", env |-> e, outcome |-> "ok"]
    <3>1. last'.outcome = "ok"
      BY <2>2
    <3> QED
      BY <2>1, <3>1
  <2>3. CASE /\ ~ built.ok
             /\ last' = [command |-> "apply", env |-> e,
                         outcome |-> IF forward = {} THEN "failed" ELSE "reuse failed"]
    <3>1. last'.env = e /\ last'.outcome = IF forward = {} THEN "failed" ELSE "reuse failed"
      BY <2>3
    <3>2. f = e /\ forward = {}
      BY <2>1, <3>1
    <3> QED
      BY <2>3, <3>2
  <2> QED
    BY <1>1, <2>2, <2>3, Zenon
<1>12. ASSUME e \notin Redacting, forward = {}, ~ built.ok PROVE ~ Prj!Honest(project)
  <2>1. p = project
    BY <1>12 DEF Prj!GraphFor
  <2> HIDE DEF p
  <2> QED
    BY <1>1, <1>2, <1>7, <1>12, <2>1, HonestSound
<1>13. ASSUME e \in Redacting, forward = {}, ~ built.ok
       PROVE  ~ (Prj!Honest(project) /\ Prj!Redactable(project))
  <2>1. p = Prj!RedactGraph(project)
    BY <1>13 DEF Prj!GraphFor
  <2> HIDE DEF p
  <2> QED
    BY <1>1, <1>2, <1>7, <1>13, <2>1, RedactedSound
<1>14. Prj!AcceptedBuilds'
  BY <1>1, <1>11, <1>12 DEF Prj!AcceptedBuilds
<1>15. Prj!RedactedBuilds'
  <2>1. Redacting \subseteq Deployed
    BY CommandsAssumption DEF Prj!ProjectAssumption
  <2> QED
    BY <1>1, <1>11, <1>13, <2>1 DEF Prj!RedactedBuilds
<1>16. /\ (project \in Projects)'
       /\ (DOMAIN rows = Deployed)' /\ (DOMAIN applied = Deployed)'
  BY <1>1, <1>2
<1> QED
  BY <1>8, <1>10, <1>14, <1>15, <1>16 DEF PrjInv

LEMMA RunStep ==
    ASSUME PrjInv, NEW e \in Deployed, NEW due \in BOOLEAN, Prj!Run(e, due)
    PROVE  PrjInv'
<1> DEFINE built == Prj!BuildAll(e, project, {}, due)
<1>1. /\ Prj!Loads(project) /\ project' = project
      /\ rows' = rows /\ applied' = applied /\ widened' = widened
      /\ \/ /\ last' = [command |-> "run", env |-> e, outcome |-> "awaiting human"]
            /\ prjSnap' = prjSnap /\ phys' = phys
         \/ /\ last' = [command |-> "run", env |-> e,
                        outcome |-> IF built.ok THEN "ok" ELSE "failed"]
            /\ prjSnap' = built.snap /\ phys' = built.phys
  BY DEF Prj!Run, Prj!Command, Prj!Nothing, Prj!TickGraph
<1>2. /\ project \in Projects /\ Books(widened, prjSnap, phys)
      /\ DOMAIN rows = Deployed /\ DOMAIN applied = Deployed /\ ServedAll
  BY DEF PrjInv
<1>3. Prj!Graphed(project) /\ ShapedModels(project)
  BY <1>1, <1>2, Planned
<1>4. Forwarded(project, {})
  BY DEF Forwarded
<1>5. Books(widened, built.snap, built.phys) /\ \A k \in DOMAIN prjSnap : k \in DOMAIN built.snap
  BY <1>2, <1>3, <1>4, BuiltAll
<1>6. Sound(project) => built.ok = TRUE
  BY <1>2, <1>3, SoundBuilds
<1> HIDE DEF built
<1>7. Books(widened, prjSnap, phys)' /\ \A k \in DOMAIN prjSnap : k \in DOMAIN prjSnap'
  BY <1>1, <1>2, <1>5
<1>8. ServedAll'
  <2>1. SUFFICES ASSUME NEW f \in Deployed PROVE Served(f, applied[f], rows[f], prjSnap')
    BY <1>1 DEF ServedAll
  <2> QED
    BY <1>2, <1>7, ServedStays DEF ServedAll
<1>9. last'.command = "run"
  <2>1. \E o : last' = [command |-> "run", env |-> e, outcome |-> o]
    BY <1>1, Zenon
  <2> QED
    BY <2>1
<1>10. ASSUME NEW f \in Deployed, Prj!Failed(f)' PROVE ~ built.ok
  <2>1. last'.outcome = "failed"
    BY <1>10 DEF Prj!Failed
  <2>2. CASE last' = [command |-> "run", env |-> e, outcome |-> "awaiting human"]
    <3>1. last'.outcome = "awaiting human"
      BY <2>2
    <3> QED
      BY <2>1, <3>1
  <2>3. CASE last' = [command |-> "run", env |-> e,
                      outcome |-> IF built.ok THEN "ok" ELSE "failed"]
    <3>1. last'.outcome = IF built.ok THEN "ok" ELSE "failed"
      BY <2>3
    <3> QED
      BY <2>1, <3>1
  <2> QED
    BY <1>1, <2>2, <2>3, Zenon
<1>11. ASSUME ~ built.ok PROVE ~ Prj!Honest(project)
  BY <1>1, <1>2, <1>6, <1>11, HonestSound
<1>12. Prj!AcceptedBuilds'
  BY <1>1, <1>10, <1>11 DEF Prj!AcceptedBuilds
<1>13. Prj!RedactedBuilds'
  BY <1>9 DEF Prj!RedactedBuilds
<1>14. /\ (project \in Projects)'
       /\ (DOMAIN rows = Deployed)' /\ (DOMAIN applied = Deployed)'
  BY <1>1, <1>2
<1> QED
  BY <1>7, <1>8, <1>12, <1>13, <1>14 DEF PrjInv

\* The view of an honest model has the columns that are declared of it.
LEMMA Viewed ==
    ASSUME PrjInv, NEW e \in Deployed \ Redacting, Prj!Loads(project), Prj!Honest(project),
           applied[e] = project, NEW n \in Prj!Models(project), project[n].kind # "external"
    PROVE  Prj!Audited(project[n], Prj!ViewOf(e, n))
<1> DEFINE v == rows[e][n]
           k == <<n, v>>
           d == project[n]
<1>1. project \in Projects /\ Books(widened, prjSnap, phys) /\ Served(e, project, rows[e], prjSnap)
  BY DEF PrjInv, ServedAll
<1>2. n \in ModelName /\ Shaped(d) /\ Prj!Graphed(project) /\ SoundModel(project, n)
  BY <1>1, HonestSound, DeclaredShape DEF Prj!Models, Prj!Loads, Sound
<1>3. CASE project = <<>> /\ rows[e] = [m \in ModelName |-> Prj!None]
  <2>1. DOMAIN project = ModelName
    BY <1>1 DEF Projects
  <2> QED
    BY <1>2, <1>3, <2>1
<1>4. CASE /\ rows[e] = Prj!Versions(Prj!GraphFor(e, project))
           /\ \A m \in Prj!Models(project) : project[m].kind # "external" => <<m, rows[e][m]>> \in DOMAIN prjSnap
  <2>1. Prj!GraphFor(e, project) = project
    BY DEF Prj!GraphFor
  <2>2. v.self = Prj!Payload(d) /\ v # Prj!None
    BY <1>2, <1>4, <2>1, VersionsAre
  <2>3. k \in DOMAIN prjSnap
    BY <1>4
  <2>4. v.self.cols = d.cols
    BY <1>2, <2>2, PayloadIs
  <2>5. k[1] = n /\ k[2] = v
    OBVIOUS
  <2>6. Prj!ViewOf(e, n) = phys[<<n, prjSnap[k]>>]
    BY <2>2, <2>3 DEF Prj!ViewOf, Prj!Alive
  <2> HIDE DEF k, v
  <2>7. Filled(v) \subseteq phys[<<n, prjSnap[k]>>] /\ Prj!Contract(v.self)
    BY <1>1, <2>3, <2>5 DEF Books, Recorded
  <2>8. d.cols \subseteq Prj!ViewOf(e, n)
    BY <2>4, <2>6, <2>7, FilledIs
  <2> QED
    BY <1>2, <2>8 DEF SoundModel, Prj!Audited
<1> QED
  BY <1>1, <1>3, <1>4 DEF Served

LEMMA AuditStep ==
    ASSUME PrjInv, NEW e \in Deployed, Prj!AuditRun(e)
    PROVE  PrjInv'
<1> DEFINE fit == \A n \in Prj!Models(project) : project[n].kind # "external" =>
                     Prj!Audited(project[n], Prj!ViewOf(e, n))
<1>1. /\ Prj!Loads(project) /\ project' = project
      /\ rows' = rows /\ applied' = applied /\ widened' = widened
      /\ prjSnap' = prjSnap /\ phys' = phys
      /\ last' = [command |-> "audit", env |-> e, outcome |-> IF fit THEN "ok" ELSE "failed"]
  BY DEF Prj!AuditRun, Prj!Command, Prj!Nothing, Prj!TickGraph
<1>2. e \notin Redacting /\ applied[e] = project /\ Prj!Honest(project) => fit
  BY <1>1, Viewed
<1> HIDE DEF fit
<1>3. last'.command = "audit" /\ last'.env = e /\ last'.outcome = IF fit THEN "ok" ELSE "failed"
  BY <1>1
<1>4. \A f \in Deployed : Prj!Failed(f)' => f = e /\ ~ fit
  BY <1>3 DEF Prj!Failed
<1>5. Prj!AcceptedBuilds'
  BY <1>1, <1>2, <1>3, <1>4 DEF Prj!AcceptedBuilds
<1>6. Prj!RedactedBuilds'
  BY <1>3 DEF Prj!RedactedBuilds
<1> QED
  BY <1>1, <1>5, <1>6 DEF PrjInv, ServedAll

LEMMA StillStep ==
    ASSUME PrjInv,
           Prj!Edit \/ \E e \in Deployed, name \in {"apply", "run", "audit"} : Prj!Refuse(name, e)
    PROVE  PrjInv'
<1>1. /\ rows' = rows /\ applied' = applied /\ widened' = widened
      /\ prjSnap' = prjSnap /\ phys' = phys
  BY DEF Prj!Edit, Prj!Refuse, Prj!Nothing
<1>2. project' \in Projects
  <2>1. project \in Projects
    BY DEF PrjInv
  <2>2. CASE Prj!Edit
    <3>1. PICK n \in ModelName : \E d \in Declarable[n] : project' = [project EXCEPT ![n] = d]
      BY <2>2 DEF Prj!Edit
    <3> QED
      BY <2>1, <3>1 DEF Projects
  <2>3. CASE project' = project
    BY <2>1, <2>3
  <2> QED
    BY <2>2, <2>3 DEF Prj!Refuse, Prj!Command
<1>3. \A f : ~ Prj!Failed(f)'
  <2>1. CASE Prj!Edit
    BY <2>1 DEF Prj!Edit, Prj!Failed
  <2>2. CASE \E e \in Deployed, name \in {"apply", "run", "audit"} : Prj!Refuse(name, e)
    <3>1. last'.outcome = "refused"
      BY <2>2 DEF Prj!Refuse, Prj!Command
    <3> QED
      BY <3>1 DEF Prj!Failed
  <2> QED
    BY <2>1, <2>2
<1>4. Prj!AcceptedBuilds' /\ Prj!RedactedBuilds'
  BY <1>3 DEF Prj!AcceptedBuilds, Prj!RedactedBuilds
<1> QED
  BY <1>1, <1>2, <1>4 DEF PrjInv, ServedAll

LEMMA PrjStep == PrjInv /\ Prj!Next => PrjInv'
<1> SUFFICES ASSUME PrjInv, Prj!Next PROVE PrjInv'
  OBVIOUS
<1>1. CASE Prj!Edit \/ \E e \in Deployed, name \in {"apply", "run", "audit"} : Prj!Refuse(name, e)
  BY <1>1, StillStep
<1>2. CASE \E e \in Deployed, due \in BOOLEAN, forward \in SUBSET Prj!Timed : Prj!Apply(e, forward, due)
  BY <1>2, ApplyStep
<1>3. CASE \E e \in Deployed, due \in BOOLEAN : Prj!Run(e, due)
  BY <1>3, RunStep
<1>4. CASE \E e \in Deployed : Prj!AuditRun(e)
  BY <1>4, AuditStep
<1> QED
  BY <1>1, <1>2, <1>3, <1>4 DEF Prj!Next

LEMMA PrjIdle == PrjInv /\ UNCHANGED prjVars => PrjInv'
BY DEF PrjInv, prjVars, ServedAll, Prj!AcceptedBuilds, Prj!RedactedBuilds, Prj!Failed

-----------------------------------------------------------------------------
(***************************************************************************)
(* What follows from the invariant                                         *)
(***************************************************************************)
\* An environment that was applied with the project as it is serves its
\* versions.
LEMMA Followed == PrjInv => Prj!RunFollowsApply
<1> SUFFICES ASSUME PrjInv, NEW e \in Deployed \ Redacting, Prj!Loads(project), applied[e] = project
             PROVE  rows[e] = Prj!Versions(project)
  BY DEF Prj!RunFollowsApply, Prj!Blocked, Prj!Unchanged, Prj!TickGraph
<1>1. project \in Projects /\ Served(e, project, rows[e], prjSnap)
  BY DEF PrjInv, ServedAll
<1>2. Prj!GraphFor(e, project) = project
  BY DEF Prj!GraphFor
<1>3. CASE project = <<>> /\ rows[e] = [n \in ModelName |-> Prj!None]
  <2>1. ModelName = {}
    BY <1>1, <1>3 DEF Projects
  <2>2. Prj!Graphed(project)
    BY DEF Prj!Loads
  <2> DEFINE versions == Prj!Versions(project)
  <2>3. versions = [n \in ModelName |-> versions[n]]
    BY <2>2, VersionsAre
  <2> HIDE DEF versions
  <2>4. versions = rows[e]
    BY <1>3, <2>1, <2>3
  <2> QED
    BY <2>4 DEF versions
<1> QED
  BY <1>1, <1>2, <1>3 DEF Served

\* The physics of a redacted version is spared what it does not fill in.
LEMMA Redacted == PrjInv => Prj!NeverWritten
<1> SUFFICES ASSUME PrjInv, NEW e \in Redacting, NEW n \in ModelName,
                    applied[e] # <<>>, applied[e][n].kind \in Prj!Query,
                    applied[e][n].target # "parquet",
                    <<n, prjSnap[<<n, rows[e][n]>>]>> \notin widened
             PROVE  Prj!ViewOf(e, n) \cap (applied[e][n].redact \ Prj!Managed(applied[e][n])) = {}
  BY DEF Prj!NeverWritten
<1> DEFINE a == applied[e]
           d == a[n]
           g == Prj!GraphFor(e, a)
           r == g[n]
           v == rows[e][n]
           k == <<n, v>>
<1>1. e \in Deployed
  BY CommandsAssumption DEF Prj!ProjectAssumption
<1>2. /\ a \in Projects /\ Prj!Graphed(a) /\ rows[e] = Prj!Versions(g)
      /\ Books(widened, prjSnap, phys)
  BY <1>1 DEF PrjInv, ServedAll, Served
<1>3. n \in Prj!Models(a) /\ d.kind # "external"
  BY DEF Prj!Models, Prj!None, Prj!Query
<1>4. Shaped(d)
  BY <1>2, <1>3, DeclaredShape
<1>5. r = Prj!RedactModel(d) /\ Prj!Models(g) = Prj!Models(a) /\ Prj!Graphed(g)
  BY <1>2, GraphIs, GraphedFor DEF Prj!GraphFor, Prj!RedactGraph
<1>6. v.self = Prj!Payload(r)
  BY <1>2, <1>3, <1>5, VersionsAre
<1>7. Shaped(r) /\ Prj!Managed(r) = Prj!Managed(d)
  BY <1>4, <1>5, RedactIs
<1> HIDE DEF g, r, v
<1>8. /\ v.self.keep = r.keep /\ v.self.target = r.target
      /\ Prj!Result(v.self) = Prj!Result(r) /\ Prj!Managed(v.self) = Prj!Managed(r)
      /\ Prj!Contract(v.self) => Prj!Contract(r)
  BY <1>6, <1>7, PayloadIs
<1>9. CASE d.redact = {} \/ Prj!ViewOf(e, n) = {}
  BY <1>9
<1>10. CASE d.redact # {} /\ Prj!ViewOf(e, n) # {}
  <2>1. k \in DOMAIN prjSnap /\ Prj!ViewOf(e, n) = phys[<<n, prjSnap[k]>>]
    BY <1>10 DEF Prj!ViewOf, Prj!Alive, v
  <2>2. r.cols = d.cols \ d.redact /\ r.keep = r.cols /\ r.returns = d.returns
    BY <1>4, <1>5, <1>10, RedactedIs
  <2>3. k[1] = n /\ k[2] = v
    OBVIOUS
  <2>4. r.target = d.target
    BY <1>5, <1>10 DEF Prj!RedactModel
  <2> HIDE DEF k
  <2>5. Prj!Contract(v.self)
    BY <1>2, <2>1, <2>3 DEF Books, Recorded
  <2>6. v.self.keep # {}
    <3>1. SUFFICES ASSUME r.keep = {} PROVE FALSE
      BY <1>8
    <3>2. r.returns = r.cols \ Prj!Managed(r)
      BY <1>8, <2>5, <3>1 DEF Prj!Contract, Prj!Result
    <3>3. r.returns = {}
      BY <2>2, <3>1, <3>2
    <3> QED
      BY <1>7, <3>3 DEF Shaped
  <2>7. phys[<<n, prjSnap[k]>>] \subseteq Filled(v)
    <3>1. v.self.target # "parquet" /\ <<n, prjSnap[k]>> \notin widened
      BY <1>8, <2>4 DEF k, v
    <3> QED
      BY <1>2, <2>1, <2>3, <2>6, <3>1 DEF Books, Spared
  <2>8. Filled(v) \subseteq r.keep \cup Prj!Managed(d)
    BY <1>7, <1>8, <2>6 DEF Filled, Prj!Result
  <2> QED
    BY <2>1, <2>2, <2>7, <2>8
<1> QED
  BY <1>9, <1>10

\* What the runs check.
LEMMA HonestFollows == PrjInv => Prj!HonestBuilds
BY Followed DEF PrjInv, Prj!HonestBuilds

-----------------------------------------------------------------------------
(* The theorems: of whatever part a behaviour is, the project stays as it  *)
(* is or takes a step of its own.                                          *)

LEMMA PrjInvStays == CommandsSpec => []PrjInv
<1>1. CommandsInit => PrjInv
  BY PrjInitial DEF CommandsInit
<1>2. PrjInv /\ [CommandsNext]_<<part, vars, migVars, prjVars, refVars, repVars, schVars, jrnVars>>
        => PrjInv'
  <2>1. [CommandsNext]_<<part, vars, migVars, prjVars, refVars, repVars, schVars, jrnVars>>
          => [Prj!Next]_prjVars
    BY DEF CommandsNext
  <2> QED
    BY <2>1, PrjStep, PrjIdle
<1> QED
  BY <1>1, <1>2, PTL DEF CommandsSpec

\* Whatever is declared, buildGraph refuses an unknown dependency or a cycle and
\* nothing else, and puts parents before children.
THEOREM OrderIsExact == CommandsSpec => []OrderExact
<1>1. OrderExact
  BY OrderAlways DEF OrderExact
<1> QED
  BY <1>1, PTL

\* An accepted project whose queries return what they declare is built, ticked
\* and audited without an engine error, redacted too if its policy leaves alone
\* what the statements name, and no tick after an apply is left to a person,
\* whatever was built before.
THEOREM HonestIsBuilt == CommandsSpec => []HonestBuilds
<1>1. PrjInv => HonestBuilds
  BY HonestFollows DEF HonestBuilds
<1> QED
  BY <1>1, PrjInvStays, PTL

\* However environments share physics, reuse what a failed command left or build
\* forward-only: a table a redacted environment serves has none of its redacted
\* columns until a forward-only version adds one.
THEOREM RedactedIsSpared == CommandsSpec => []NeverWritten
<1>1. PrjInv => NeverWritten
  BY Redacted DEF NeverWritten
<1> QED
  BY <1>1, PrjInvStays, PTL
=============================================================================
