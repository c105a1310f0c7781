--------------------------- MODULE CommandsProofs ---------------------------
(***************************************************************************)
(* What four of the parts of MCCommands keep for any number of processes,  *)
(* versions, environments and rows: opening and migrating the store        *)
(* (Mig), `efmesh schedule` (Sch), what ticks record (Jrn), reconciling    *)
(* the rows of a model (Ref).  Each part has an inductive invariant of its *)
(* own; as the parts share no variable, a step of one leaves the others'.  *)
(* The theorems at the end are about the properties the runs check.        *)
(***************************************************************************)
EXTENDS MCCommands, FiniteSetTheorems, SequenceTheorems, WellFoundedInduction, TLAPS

\* What Migration assumes is among what the instances assume.
LEMMA MAss == Mig!MigrationAssumption
  BY CommandsAssumption

\* An instance counts as its parts do.
LEMMA Counts ==
    ASSUME NEW S
    PROVE  Mig!Cardinality(S) = Cardinality(S) /\ Jrn!Cardinality(S) = Cardinality(S)
  BY DEF Cardinality, Mig!Cardinality, Jrn!Cardinality

-----------------------------------------------------------------------------
(* Opening and migrating the store                                         *)

\* What a statement of the script makes when it comes through.
Makes(s, v) ==
    IF s = "schema" THEN Mig!ToSet(Mig!UpTo(v, Mig!Tables))
    ELSE IF s = "columns" THEN Mig!ToSet(Mig!UpTo(v, Mig!Column)) \cup {"meta"}
    ELSE {s} \cap Mig!Part

\* What a script is made of.
Statements == Mig!Part \cup {"schema", "columns", "delete", "stamp"}

\* The records of a store's versions, what a store is, and a process at work.
Stamp == [id : Nat, version : Nat]
Store == [parts : SUBSET Mig!Part, stamps : SUBSET Stamp, work : BOOLEAN]
Working == [at : {"script", "checks", "reads", "copies", "opened", "done", "refused", "failed"},
            kind : {"open", "migrate"}, version : Binaries, from : Nat \cup {Fresh},
            alone : BOOLEAN, before : Store, step : Nat, seen : SUBSET Stamp, id : Nat]

\* The variables of Migration have values of their kinds, and who writes is at
\* a statement of its script.
StoreTyped ==
    /\ migDialect \in {"sqlite", "postgres"}
    /\ db \in Store /\ file \in Store
    /\ backup \in [DOMAIN backup -> Store]
    /\ proc \in [Proc -> Working \cup {Mig!NoProc}]
    /\ \A p \in Proc : /\ Mig!Writing(p) => proc[p].step \in 1 .. Len(Mig!Script(proc[p].version))
                       /\ proc[p].at \in {"reads", "copies"} => proc[p].step = 1
    /\ ops \in Nat /\ kills \in Nat /\ swallowed \in BOOLEAN

\* Who is alone has nobody running beside it: it no longer is when one connects.
Alone(p) == Mig!Alive(p) /\ proc[p].alone
AloneAlone == \A p \in Proc : Alone(p) => \A q \in Proc \ {p} : ~Mig!Alive(q)

\* The script of a binary has made what came before the statement it is at.
MadeBy(p) == \A i \in 1 .. proc[p].step - 1 :
                 Makes(Mig!Script(proc[p].version)[i], proc[p].version) \subseteq db.parts
ScriptMade == \A p \in Proc : Mig!Writing(p) /\ (~swallowed \/ proc[p].alone) => MadeBy(p)

\* Unless an error was swallowed, a store has all that its stamps say.
StampsTrue == ~swallowed => \A s \in db.stamps : Mig!Layout(s.version) \subseteq db.parts

\* A migrate that is alone: before its stamp no other is left (or is one it has
\* seen), and in the end there is its own only.
AloneDone ==
    \A p \in Proc : Alone(p) =>
        /\ Mig!Writing(p) /\ proc[p].step = Len(Mig!Script(proc[p].version)) =>
              IF migDialect = "sqlite" THEN db.stamps = {} ELSE proc[p].seen = db.stamps
        /\ proc[p].at = "done" =>
              /\ Mig!Layout(proc[p].version) \subseteq db.parts
              /\ db.stamps = {[id |-> proc[p].id, version |-> proc[p].version]}

\* Without a kill the file has all that was written when nobody runs, a migrate
\* that is alone starts from it, and its copy is of that.
FileFollows ==
    kills = 0 =>
        /\ (\A p \in Proc : ~Mig!Alive(p)) => file = db
        /\ \A p \in Proc : Alone(p) =>
              /\ proc[p].at \in {"reads", "copies"} => file = db /\ proc[p].before = db
              /\ /\ migDialect = "sqlite" /\ proc[p].from # proc[p].version
                 /\ proc[p].at \in {"script", "done"}
                 => /\ proc[p].from \in DOMAIN backup
                    /\ backup[proc[p].from] = proc[p].before

\* The inductive invariant of Migration.
MInv ==
    /\ StoreTyped /\ AloneAlone /\ ScriptMade /\ StampsTrue
    /\ Mig!OpenedIsComplete /\ AloneDone /\ FileFollows

-----------------------------------------------------------------------------

\* What a store can have.
LEMMA Parts8 ==
    Mig!Part = {"snapshots", "plans", "orphaned_at", "meta", "applied_by", "fingerprint_version",
            "runs", "canon_cache"}
  BY DEF Mig!Part, Mig!Since

\* The two lists a script is made from.
LEMMA PartsListed ==
    /\ Mig!Tables \in Seq(Statements) /\ DOMAIN Mig!Tables = {1, 2, 3, 4} /\ Len(Mig!Tables) = 4
    /\ Mig!Column \in Seq(Statements) /\ DOMAIN Mig!Column = {1, 2, 3} /\ Len(Mig!Column) = 3
  <1>1. {"snapshots", "plans", "orphaned_at", "applied_by", "fingerprint_version", "runs",
         "canon_cache"} \subseteq Statements
    BY Parts8 DEF Statements
  <1>2. ASSUME NEW S, NEW w \in S, NEW x \in S, NEW y \in S, NEW z \in S
        PROVE  <<w, x, y, z>> \in Seq(S) /\ <<w, x, y>> \in Seq(S)
    OBVIOUS
  <1>3. Mig!Tables \in Seq(Statements)
    BY <1>1, <1>2, Zenon DEF Mig!Tables
  <1>4. Mig!Column \in Seq(Statements)
    BY <1>1, <1>2, Zenon DEF Mig!Column
  <1>5. DOMAIN Mig!Tables = 1 .. 4 /\ Len(Mig!Tables) = 4
    BY DEF Mig!Tables
  <1>6. DOMAIN Mig!Column = 1 .. 3 /\ Len(Mig!Column) = 3
    BY DEF Mig!Column
  <1>7. 1 .. 4 = {1, 2, 3, 4} /\ 1 .. 3 = {1, 2, 3}
    OBVIOUS
  <1> QED
    BY <1>3, <1>4, <1>5, <1>6, <1>7

\* What is in them.
LEMMA ListedSets ==
    /\ Mig!ToSet(Mig!Tables) = {"snapshots", "plans", "runs", "canon_cache"}
    /\ Mig!ToSet(Mig!Column) = {"orphaned_at", "applied_by", "fingerprint_version"}
  <1>1. Mig!ToSet(Mig!Tables) = {Mig!Tables[1], Mig!Tables[2], Mig!Tables[3], Mig!Tables[4]}
    BY PartsListed DEF Mig!ToSet
  <1>2. Mig!ToSet(Mig!Column) = {Mig!Column[1], Mig!Column[2], Mig!Column[3]}
    BY PartsListed DEF Mig!ToSet
  <1>3. /\ Mig!Tables[1] = "snapshots" /\ Mig!Tables[2] = "plans" /\ Mig!Tables[3] = "runs"
        /\ Mig!Tables[4] = "canon_cache"
    BY DEF Mig!Tables
  <1>4. /\ Mig!Column[1] = "orphaned_at" /\ Mig!Column[2] = "applied_by"
        /\ Mig!Column[3] = "fingerprint_version"
    BY DEF Mig!Column
  <1> QED
    BY <1>1, <1>2, <1>3, <1>4

\* The first n of a sequence.
LEMMA Beginnings ==
    ASSUME NEW S, NEW s \in Seq(S), NEW n \in 1 .. Len(s)
    PROVE  /\ SubSeq(s, 1, n) \in Seq(S) /\ Len(SubSeq(s, 1, n)) = n
           /\ \A i \in 1 .. n : SubSeq(s, 1, n)[i] = s[i]
  BY SubSeqProperties

\* The tables up to a version are the first two, three or four.
LEMMA UpToTables ==
    ASSUME NEW v \in Nat \ {0}
    PROVE  \E n \in {2, 3, 4} :
               /\ Mig!UpTo(v, Mig!Tables) \in Seq(Statements) /\ Len(Mig!UpTo(v, Mig!Tables)) = n
               /\ \A i \in 1 .. n : Mig!UpTo(v, Mig!Tables)[i] = Mig!Tables[i]
               /\ (n >= 3 <=> v >= 4) /\ (n = 4 <=> v >= 5)
  <1> DEFINE P(n) == \A i \in DOMAIN Mig!Tables : i <= n <=> Mig!Since[Mig!Tables[i]] <= v
             k == IF v < 4 THEN 2 ELSE IF v = 4 THEN 3 ELSE 4
             c == CHOOSE n \in 0 .. Len(Mig!Tables) : P(n)
  <1>1. k \in 0 .. Len(Mig!Tables) /\ P(k)
    BY DEF Mig!Tables, Mig!Since
  <1>2. \A n \in 0 .. Len(Mig!Tables) : P(n) => n = k
    BY DEF Mig!Tables, Mig!Since
  <1>3. c \in 0 .. Len(Mig!Tables) /\ P(c)
    <2> HIDE DEF P, k
    <2> QED
      BY <1>1, Zenon
  <1>4. c = k
    BY <1>2, <1>3, Zenon
  <1>5. Mig!UpTo(v, Mig!Tables) = SubSeq(Mig!Tables, 1, c)
    BY Zenon DEF Mig!UpTo
  <1>7. Mig!Tables \in Seq(Statements) /\ Len(Mig!Tables) = 4
    BY PartsListed
  <1>8. ASSUME NEW n \in {2, 3, 4}
        PROVE  /\ SubSeq(Mig!Tables, 1, n) \in Seq(Statements) /\ Len(SubSeq(Mig!Tables, 1, n)) = n
               /\ \A i \in 1 .. n : SubSeq(Mig!Tables, 1, n)[i] = Mig!Tables[i]
    <2>1. n \in 1 .. Len(Mig!Tables)
      BY <1>7
    <2> QED
      BY <1>7, <2>1, Beginnings, Zenon
  <1>6. k \in {2, 3, 4} /\ (k >= 3 <=> v >= 4) /\ (k = 4 <=> v >= 5)
    OBVIOUS
  <1> HIDE DEF k, c
  <1> QED
    BY <1>4, <1>5, <1>6, <1>8

\* The columns up to a version are the first one, two or three.
LEMMA UpToColumn ==
    ASSUME NEW v \in Nat \ {0}
    PROVE  \E n \in {1, 2, 3} :
               /\ Mig!UpTo(v, Mig!Column) \in Seq(Statements) /\ Len(Mig!UpTo(v, Mig!Column)) = n
               /\ \A i \in 1 .. n : Mig!UpTo(v, Mig!Column)[i] = Mig!Column[i]
               /\ (n >= 2 <=> v >= 2) /\ (n = 3 <=> v >= 3)
  <1> DEFINE P(n) == \A i \in DOMAIN Mig!Column : i <= n <=> Mig!Since[Mig!Column[i]] <= v
             k == IF v < 2 THEN 1 ELSE IF v = 2 THEN 2 ELSE 3
             c == CHOOSE n \in 0 .. Len(Mig!Column) : P(n)
  <1>1. k \in 0 .. Len(Mig!Column) /\ P(k)
    BY DEF Mig!Column, Mig!Since
  <1>2. \A n \in 0 .. Len(Mig!Column) : P(n) => n = k
    BY DEF Mig!Column, Mig!Since
  <1>3. c \in 0 .. Len(Mig!Column) /\ P(c)
    <2> HIDE DEF P, k
    <2> QED
      BY <1>1, Zenon
  <1>4. c = k
    BY <1>2, <1>3, Zenon
  <1>5. Mig!UpTo(v, Mig!Column) = SubSeq(Mig!Column, 1, c)
    BY Zenon DEF Mig!UpTo
  <1>7. Mig!Column \in Seq(Statements) /\ Len(Mig!Column) = 3
    BY PartsListed
  <1>8. ASSUME NEW n \in {1, 2, 3}
        PROVE  /\ SubSeq(Mig!Column, 1, n) \in Seq(Statements) /\ Len(SubSeq(Mig!Column, 1, n)) = n
               /\ \A i \in 1 .. n : SubSeq(Mig!Column, 1, n)[i] = Mig!Column[i]
    <2>1. n \in 1 .. Len(Mig!Column)
      BY <1>7
    <2> QED
      BY <1>7, <2>1, Beginnings, Zenon
  <1>6. k \in {1, 2, 3} /\ (k >= 2 <=> v >= 2) /\ (k = 3 <=> v >= 3)
    OBVIOUS
  <1> HIDE DEF k, c
  <1> QED
    BY <1>4, <1>5, <1>6, <1>8

\* What a version works with is what its script lists, and meta.
LEMMA Layouts ==
    ASSUME NEW v \in Nat \ {0}
    PROVE  Mig!Layout(v) = Mig!ToSet(Mig!UpTo(v, Mig!Tables)) \cup Mig!ToSet(Mig!UpTo(v, Mig!Column)) \cup {"meta"}
  <1> DEFINE A == Mig!UpTo(v, Mig!Tables)
             B == Mig!UpTo(v, Mig!Column)
  <1>1. PICK n \in {2, 3, 4} :
            /\ A \in Seq(Statements) /\ Len(A) = n /\ (\A i \in 1 .. n : A[i] = Mig!Tables[i])
            /\ (n >= 3 <=> v >= 4) /\ (n = 4 <=> v >= 5)
    BY UpToTables
  <1>2. PICK m \in {1, 2, 3} :
            /\ B \in Seq(Statements) /\ Len(B) = m /\ (\A i \in 1 .. m : B[i] = Mig!Column[i])
            /\ (m >= 2 <=> v >= 2) /\ (m = 3 <=> v >= 3)
    BY UpToColumn
  <1> HIDE DEF A, B
  <1>7. Mig!ToSet(A) = {Mig!Tables[i] : i \in 1 .. n} /\ Mig!ToSet(B) = {Mig!Column[i] : i \in 1 .. m}
    BY <1>1, <1>2 DEF Mig!ToSet
  <1>8. /\ Mig!Tables[1] = "snapshots" /\ Mig!Tables[2] = "plans" /\ Mig!Tables[3] = "runs"
        /\ Mig!Tables[4] = "canon_cache" /\ Mig!Column[1] = "orphaned_at" /\ Mig!Column[2] = "applied_by"
        /\ Mig!Column[3] = "fingerprint_version"
    BY DEF Mig!Tables, Mig!Column
  <1>3. Mig!ToSet(A) = {"snapshots", "plans"} \cup (IF v >= 4 THEN {"runs"} ELSE {})
                                       \cup (IF v >= 5 THEN {"canon_cache"} ELSE {})
    <2>1. n = 2 \/ n = 3 \/ n = 4
      BY <1>1
    <2>2. CASE n = 2
      <3>1. 1 .. n = {1, 2}
        BY <2>2
      <3> QED
        BY <2>2, <3>1, <1>1, <1>7, <1>8
    <2>3. CASE n = 3
      <3>1. 1 .. n = {1, 2, 3}
        BY <2>3
      <3> QED
        BY <2>3, <3>1, <1>1, <1>7, <1>8
    <2>4. CASE n = 4
      <3>1. 1 .. n = {1, 2, 3, 4}
        BY <2>4
      <3> QED
        BY <2>4, <3>1, <1>1, <1>7, <1>8
    <2> QED
      BY <2>1, <2>2, <2>3, <2>4
  <1>4. Mig!ToSet(B) = {"orphaned_at"} \cup (IF v >= 2 THEN {"applied_by"} ELSE {})
                                  \cup (IF v >= 3 THEN {"fingerprint_version"} ELSE {})
    <2>1. m = 1 \/ m = 2 \/ m = 3
      BY <1>2
    <2>2. CASE m = 1
      <3>1. 1 .. m = {1}
        BY <2>2
      <3> QED
        BY <2>2, <3>1, <1>2, <1>7, <1>8
    <2>3. CASE m = 2
      <3>1. 1 .. m = {1, 2}
        BY <2>3
      <3> QED
        BY <2>3, <3>1, <1>2, <1>7, <1>8
    <2>4. CASE m = 3
      <3>1. 1 .. m = {1, 2, 3}
        BY <2>4
      <3> QED
        BY <2>4, <3>1, <1>2, <1>7, <1>8
    <2> QED
      BY <2>1, <2>2, <2>3, <2>4
  <1>6. Mig!Layout(v) = {"snapshots", "plans", "orphaned_at", "meta"}
                    \cup (IF v >= 2 THEN {"applied_by"} ELSE {})
                    \cup (IF v >= 3 THEN {"fingerprint_version"} ELSE {})
                    \cup (IF v >= 4 THEN {"runs"} ELSE {})
                    \cup (IF v >= 5 THEN {"canon_cache"} ELSE {})
    BY Parts8 DEF Mig!Layout, Mig!Since
  <1> QED
    BY <1>3, <1>4, <1>6 DEF A, B

\* A script makes all its version works with, and then deletes the stamps and
\* sets its own.
LEMMA ScriptShape ==
    ASSUME NEW v \in Nat \ {0}, migDialect \in {"sqlite", "postgres"}
    PROVE  /\ Mig!Script(v) \in Seq(Statements) /\ Len(Mig!Script(v)) >= 3
           /\ Mig!Script(v)[Len(Mig!Script(v))] = "stamp"
           /\ Mig!Script(v)[Len(Mig!Script(v)) - 1] = "delete"
           /\ \A i \in 1 .. Len(Mig!Script(v)) - 2 : Mig!Script(v)[i] \notin {"delete", "stamp"}
           /\ \A x \in Mig!Layout(v) : \E i \in 1 .. Len(Mig!Script(v)) - 2 : x \in Makes(Mig!Script(v)[i], v)
  <1> DEFINE A == Mig!UpTo(v, Mig!Tables)
             B == Mig!UpTo(v, Mig!Column)
  <1>1. /\ A \in Seq(Statements) /\ \A i \in 1 .. Len(A) : A[i] \in Mig!ToSet(Mig!Tables)
        /\ B \in Seq(Statements) /\ \A i \in 1 .. Len(B) : B[i] \in Mig!ToSet(Mig!Column)
    <2>1. /\ \A i \in {1, 2, 3, 4} : Mig!Tables[i] \in Mig!ToSet(Mig!Tables)
          /\ \A i \in {1, 2, 3} : Mig!Column[i] \in Mig!ToSet(Mig!Column)
      BY PartsListed DEF Mig!ToSet
    <2>2. PICK n \in {2, 3, 4} : /\ A \in Seq(Statements) /\ Len(A) = n
                                 /\ \A i \in 1 .. n : A[i] = Mig!Tables[i]
      BY UpToTables
    <2>3. PICK m \in {1, 2, 3} : /\ B \in Seq(Statements) /\ Len(B) = m
                                 /\ \A i \in 1 .. m : B[i] = Mig!Column[i]
      BY UpToColumn
    <2> HIDE DEF A, B
    <2>4. 1 .. n \subseteq {1, 2, 3, 4} /\ 1 .. m \subseteq {1, 2, 3}
      OBVIOUS
    <2> QED
      BY <2>1, <2>2, <2>3, <2>4
  <1>2. /\ Mig!ToSet(Mig!Tables) = {"snapshots", "plans", "runs", "canon_cache"}
        /\ Mig!ToSet(Mig!Column) = {"orphaned_at", "applied_by", "fingerprint_version"}
        /\ Mig!Part = {"snapshots", "plans", "orphaned_at", "meta", "applied_by", "fingerprint_version",
                "runs", "canon_cache"}
    BY ListedSets, Parts8
  <1>3. Mig!Layout(v) = Mig!ToSet(A) \cup Mig!ToSet(B) \cup {"meta"}
    BY Layouts
  <1>4. CASE migDialect = "postgres"
    <2>1. Mig!Script(v) = <<"schema", "columns", "delete", "stamp">>
      BY <1>4 DEF Mig!Script
    <2>6. ASSUME NEW S, NEW w \in S, NEW x \in S, NEW y \in S, NEW z \in S
          PROVE  LET t == <<w, x, y, z>>
                 IN  /\ t \in Seq(S) /\ Len(t) = 4
                     /\ t[1] = w /\ t[2] = x /\ t[3] = y /\ t[4] = z
      OBVIOUS
    <2>7. {"schema", "columns", "delete", "stamp"} \subseteq Statements
      BY DEF Statements
    <2>2. \A s : (s = "schema" => Makes(s, v) = Mig!ToSet(A))
                 /\ (s = "columns" => Makes(s, v) = Mig!ToSet(B) \cup {"meta"})
      BY DEF Makes
    <2> HIDE DEF A, B
    <2>4. /\ Mig!Script(v)[1] = "schema" /\ Mig!Script(v)[2] = "columns" /\ Mig!Script(v)[3] = "delete"
          /\ Mig!Script(v)[4] = "stamp" /\ Len(Mig!Script(v)) = 4 /\ Mig!Script(v) \in Seq(Statements)
      <3> DEFINE t == <<"schema", "columns", "delete", "stamp">>
      <3>1. /\ t \in Seq(Statements) /\ Len(t) = 4
            /\ t[1] = "schema" /\ t[2] = "columns" /\ t[3] = "delete" /\ t[4] = "stamp"
        BY <2>6, <2>7, Zenon
      <3>2. Mig!Script(v) = t
        BY <2>1
      <3> HIDE DEF t
      <3> QED
        BY <3>1, <3>2
    <2>5. 1 .. Len(Mig!Script(v)) - 2 = {1, 2}
      BY <2>4
    <2>3. \A x \in Mig!Layout(v) : x \in Makes(Mig!Script(v)[1], v) \/ x \in Makes(Mig!Script(v)[2], v)
      BY <2>4, <2>2, <1>3
    <2> QED
      BY <2>4, <2>5, <2>3
  <1>5. CASE migDialect = "sqlite"
    <2> DEFINE S == (A \o B) \o <<"meta", "delete", "stamp">>
    <2>1. Mig!Script(v) = S
      BY <1>5 DEF Mig!Script
    <2> HIDE DEF A, B
    <2>2. A \in Seq(Statements) /\ B \in Seq(Statements) /\ A \o B \in Seq(Statements)
          /\ Len(A \o B) = Len(A) + Len(B)
      BY <1>1
    <2>3. /\ S \in Seq(Statements) /\ Len(S) = Len(A) + Len(B) + 3
          /\ \A i \in 1 .. Len(A) + Len(B) : S[i] = (A \o B)[i]
          /\ S[Len(A) + Len(B) + 1] = "meta" /\ S[Len(A) + Len(B) + 2] = "delete"
          /\ S[Len(A) + Len(B) + 3] = "stamp"
      <3> DEFINE C == A \o B
                 D == <<"meta", "delete", "stamp">>
      <3>5. ASSUME NEW T, NEW x \in T, NEW y \in T, NEW z \in T
            PROVE  LET t == <<x, y, z>>
                   IN  t \in Seq(T) /\ Len(t) = 3 /\ t[1] = x /\ t[2] = y /\ t[3] = z
        OBVIOUS
      <3>6. {"meta", "delete", "stamp"} \subseteq Statements
        BY Parts8 DEF Statements
      <3>1. D \in Seq(Statements) /\ Len(D) = 3 /\ D[1] = "meta" /\ D[2] = "delete" /\ D[3] = "stamp"
        BY <3>5, <3>6, Zenon
      <3>2. C \in Seq(Statements) /\ Len(C) = Len(A) + Len(B) /\ S = C \o D
        BY <2>2
      <3>3. Len(A) \in Nat /\ Len(B) \in Nat
        BY <2>2
      <3> HIDE DEF C, D, S
      <3>4. /\ S \in Seq(Statements) /\ Len(S) = Len(C) + 3
            /\ \A i \in 1 .. Len(C) : S[i] = C[i]
            /\ \A i \in 1 .. 3 : S[Len(C) + i] = D[i]
        <4> DEFINE E == C \o D
        <4>0. Len(C) \in Nat /\ Len(D) \in Nat
          BY <3>1, <3>2
        <4>2. /\ E \in Seq(Statements) /\ Len(E) = Len(C) + Len(D)
              /\ \A i \in 1 .. Len(C) + Len(D) :
                    E[i] = IF i <= Len(C) THEN C[i] ELSE D[i - Len(C)]
          <5>1. C \in Seq(Statements)
            BY <3>2
          <5>2. D \in Seq(Statements)
            BY <3>1
          <5> QED
            BY <5>1, <5>2, ConcatProperties
        <4> HIDE DEF E
        <4>3. \A i \in 1 .. Len(C) : E[i] = C[i]
          BY <4>0, <4>2
        <4>4. \A i \in 1 .. Len(D) : E[Len(C) + i] = D[i]
          <5> SUFFICES ASSUME NEW i \in 1 .. Len(D)
                       PROVE  E[Len(C) + i] = D[i]
            OBVIOUS
          <5>1. /\ Len(C) + i \in 1 .. Len(C) + Len(D) /\ ~(Len(C) + i <= Len(C))
                /\ (Len(C) + i) - Len(C) = i
            BY <4>0
          <5> QED
            BY <4>2, <5>1
        <4>1. /\ C \o D \in Seq(Statements) /\ Len(C \o D) = Len(C) + Len(D)
              /\ \A i \in 1 .. Len(C) : (C \o D)[i] = C[i]
              /\ \A i \in 1 .. Len(D) : (C \o D)[Len(C) + i] = D[i]
          BY <4>2, <4>3, <4>4 DEF E
        <4> QED
          BY <4>1, <3>1, <3>2
      <3> QED
        BY <3>1, <3>2, <3>3, <3>4 DEF C
    <2>4. /\ \A i \in 1 .. Len(A) : S[i] = A[i]
          /\ \A i \in 1 .. Len(B) : S[Len(A) + i] = B[i]
      BY <2>2, <2>3
    <2>5. \A i \in 1 .. Len(A) + Len(B) : S[i] \in Mig!ToSet(Mig!Tables) \cup Mig!ToSet(Mig!Column)
      <3> SUFFICES ASSUME NEW i \in 1 .. Len(A) + Len(B)
                   PROVE  S[i] \in Mig!ToSet(Mig!Tables) \cup Mig!ToSet(Mig!Column)
        OBVIOUS
      <3>1. CASE i \in 1 .. Len(A)
        BY <3>1, <2>4, <1>1
      <3>2. CASE i > Len(A)
        <4>1. i - Len(A) \in 1 .. Len(B) /\ i = Len(A) + (i - Len(A))
          BY <3>2, <2>2
        <4>2. S[i] = B[i - Len(A)]
          BY <4>1, <2>4
        <4> QED
          BY <4>1, <4>2, <1>1
      <3> QED
        BY <3>1, <3>2, <2>2
    <2> HIDE DEF S
    <2>6. \A i \in 1 .. Len(A) + Len(B) + 1 : S[i] \in Mig!Part \ {"delete", "stamp", "schema", "columns"}
      <3> SUFFICES ASSUME NEW i \in 1 .. Len(A) + Len(B) + 1
                   PROVE  S[i] \in Mig!Part \ {"delete", "stamp", "schema", "columns"}
        OBVIOUS
      <3>1. CASE i \in 1 .. Len(A) + Len(B)
        <4>1. S[i] \in Mig!ToSet(Mig!Tables) \/ S[i] \in Mig!ToSet(Mig!Column)
          BY <3>1, <2>5
        <4> QED
          BY <4>1, <1>2
      <3>2. CASE i = Len(A) + Len(B) + 1
        BY <3>2, <2>3, <1>2
      <3> QED
        BY <3>1, <3>2, <2>2
    <2>7. \A s \in Mig!Part \ {"delete", "stamp", "schema", "columns"} : s \in Makes(s, v)
      BY DEF Makes
    <2>8. \A x \in Mig!Layout(v) : \E i \in 1 .. Len(A) + Len(B) + 1 : S[i] = x
      <3> SUFFICES ASSUME NEW x \in Mig!Layout(v)
                   PROVE  \E i \in 1 .. Len(A) + Len(B) + 1 : S[i] = x
        OBVIOUS
      <3>1. CASE x \in Mig!ToSet(A)
        <4>1. PICK i \in 1 .. Len(A) : A[i] = x
          BY <3>1, <2>2 DEF Mig!ToSet
        <4> QED
          BY <4>1, <2>2, <2>4
      <3>2. CASE x \in Mig!ToSet(B)
        <4>1. PICK i \in 1 .. Len(B) : B[i] = x
          BY <3>2, <2>2 DEF Mig!ToSet
        <4>2. S[Len(A) + i] = x /\ Len(A) + i \in 1 .. Len(A) + Len(B) + 1
          BY <4>1, <2>2, <2>4
        <4> QED
          BY <4>2
      <3>3. CASE x = "meta"
        BY <3>3, <2>2, <2>3
      <3> QED
        BY <1>3, <3>1, <3>2, <3>3
    <2>9. \A x \in Mig!Layout(v) : \E i \in 1 .. Len(A) + Len(B) + 1 : x \in Makes(S[i], v)
      BY <2>6, <2>7, <2>8
    <2>10. Len(S) - 2 = Len(A) + Len(B) + 1 /\ Len(S) - 1 = Len(A) + Len(B) + 2 /\ Len(S) >= 3
      BY <2>2, <2>3
    <2>11. \A i \in 1 .. Len(S) - 2 : S[i] \notin {"delete", "stamp"}
      BY <2>6, <2>10
    <2> QED
      BY <2>1, <2>3, <2>9, <2>10, <2>11
  <1> QED
    BY <1>4, <1>5
-----------------------------------------------------------------------------
\* What a statement does to the parts and to the stamps.
LEMMA PartsGrow ==
    ASSUME NEW s \in Statements, NEW v \in Nat \ {0}, db.parts \subseteq Mig!Part
    PROVE  /\ db.parts \subseteq Mig!Parts(s, v) /\ Makes(s, v) \subseteq Mig!Parts(s, v)
           /\ Mig!Parts(s, v) \subseteq Mig!Part
  <1>1. /\ Mig!ToSet(Mig!UpTo(v, Mig!Tables)) \cup Mig!ToSet(Mig!UpTo(v, Mig!Column)) \cup {"meta"} = Mig!Layout(v)
        /\ Mig!Layout(v) \subseteq Mig!Part
    BY Layouts DEF Mig!Layout
  <1>2. Mig!ToSet(Mig!Tables) \cup Mig!ToSet(Mig!Column) \cup {"meta"} = Mig!Part
        /\ "schema" \notin Mig!Part /\ "columns" \notin Mig!Part
        /\ Mig!ToSet(Mig!Tables) \cap (Mig!ToSet(Mig!Column) \cup {"meta"}) = {}
    BY ListedSets, Parts8
  <1>3. ASSUME NEW ts \in SUBSET Mig!Part
        PROVE  /\ db.parts \cup ts \subseteq Mig!Create(db.parts, ts, v)
               /\ Mig!Create(db.parts, ts, v) \subseteq Mig!Part
    BY <1>1 DEF Mig!Create
  <1>4. CASE s = "schema"
    <2>3. s # "columns" /\ s \notin Mig!ToSet(Mig!Tables) /\ s \notin Mig!ToSet(Mig!Column) \cup {"meta"}
      BY <1>4, <1>2
    <2>1. Mig!Parts(s, v) = Mig!Create(db.parts, Mig!ToSet(Mig!UpTo(v, Mig!Tables)), v)
      BY <1>4, <2>3, Zenon DEF Mig!Parts
    <2>2. Makes(s, v) = Mig!ToSet(Mig!UpTo(v, Mig!Tables))
      BY <1>4, Zenon DEF Makes
    <2> QED
      BY <2>1, <2>2, <1>1, <1>3
  <1>5. CASE s = "columns"
    <2>1. Mig!Parts(s, v) = db.parts \cup Mig!ToSet(Mig!UpTo(v, Mig!Column)) \cup {"meta"}
      BY <1>5, <1>2 DEF Mig!Parts
    <2>2. Makes(s, v) = Mig!ToSet(Mig!UpTo(v, Mig!Column)) \cup {"meta"}
      BY <1>5 DEF Makes
    <2> QED
      BY <2>1, <2>2, <1>1
  <1>6. CASE s \in Mig!ToSet(Mig!Tables)
    <2>1. Mig!Parts(s, v) = Mig!Create(db.parts, {s}, v)
      BY <1>6, <1>2 DEF Mig!Parts
    <2>2. Makes(s, v) = {s}
      BY <1>6, <1>2 DEF Makes
    <2> QED
      BY <2>1, <2>2, <1>2, <1>3, <1>6
  <1>7. CASE s \in Mig!ToSet(Mig!Column) \cup {"meta"}
    <2>1. Mig!Parts(s, v) = db.parts \cup {s}
      BY <1>7, <1>2 DEF Mig!Parts
    <2>2. Makes(s, v) = {s}
      BY <1>7, <1>2 DEF Makes
    <2> QED
      BY <2>1, <2>2, <1>2, <1>7
  <1>8. CASE s \in {"delete", "stamp"}
    <2>1. s \notin Mig!Part /\ s # "schema" /\ s # "columns"
      BY <1>8, Parts8
    <2>2. Mig!Parts(s, v) = db.parts
      BY <2>1, <1>2 DEF Mig!Parts
    <2>3. Makes(s, v) = {}
      BY <2>1 DEF Makes
    <2> QED
      BY <2>2, <2>3
  <1> QED
    BY <1>2, <1>4, <1>5, <1>6, <1>7, <1>8 DEF Statements

\* What a statement makes of the stamps.
LEMMA StampsOf ==
    ASSUME NEW p \in Proc, migDialect \in {"sqlite", "postgres"}
    PROVE  LET own == {[id |-> proc[p].id, version |-> proc[p].version]}
           IN  /\ Mig!Statement(p) = "stamp" =>
                     Mig!Stamps(p) = (IF migDialect = "sqlite" THEN db.stamps
                                  ELSE db.stamps \ proc[p].seen) \cup own
               /\ Mig!Statement(p) # "stamp" =>
                     Mig!Stamps(p) = IF Mig!Statement(p) = "delete" /\ migDialect = "sqlite" THEN {}
                                 ELSE db.stamps
  BY DEF Mig!Stamps
-----------------------------------------------------------------------------

\* A store is found whole, and nobody runs.
THEOREM MigrationInit == Mig!Init => MInv
  <1> SUFFICES ASSUME Mig!Init
               PROVE  MInv
    OBVIOUS
  <1>1. Mig!Empty \in Store /\ \A s \in Mig!Empty.stamps : Mig!Layout(s.version) \subseteq Mig!Empty.parts
    BY DEF Mig!Empty, Store
  <1>2. ASSUME NEW v \in Nat
        PROVE  LET st == [parts |-> Mig!Layout(v), work |-> FALSE,
                          stamps |-> IF v = 0 THEN {} ELSE {[id |-> 0, version |-> v]}]
               IN  st \in Store /\ \A s \in st.stamps : Mig!Layout(s.version) \subseteq st.parts
    BY DEF Mig!Layout, Store, Stamp
  <1>3. \A v \in Stores : /\ Mig!StoreOf(v) \in Store
                           /\ \A s \in Mig!StoreOf(v).stamps : Mig!Layout(s.version) \subseteq Mig!StoreOf(v).parts
    BY <1>1, <1>2, MAss DEF Mig!StoreOf, Mig!MigrationAssumption
  <1>4. db \in Store /\ file = db /\ \A s \in db.stamps : Mig!Layout(s.version) \subseteq db.parts
    BY <1>3 DEF Mig!Init
  <1>5. proc = [p \in Proc |-> Mig!NoProc]
    BY DEF Mig!Init
  <1>6. \A p \in Proc : ~Mig!Alive(p) /\ proc[p].at = "idle" /\ proc[p] = Mig!NoProc
    BY <1>5 DEF Mig!Alive, Mig!NoProc
  <1>7. StoreTyped
    <2>1. migDialect \in {"sqlite", "postgres"}
      BY MAss DEF Mig!Init, Mig!MigrationAssumption
    <2>2. backup \in [DOMAIN backup -> Store]
      BY <1>1 DEF Mig!Init
    <2>3. proc \in [Proc -> Working \cup {Mig!NoProc}]
      BY <1>5
    <2> QED
      BY <1>4, <1>6, <2>1, <2>2, <2>3 DEF StoreTyped, Mig!Init, Mig!Writing
  <1>8. AloneAlone /\ ScriptMade /\ Mig!OpenedIsComplete /\ AloneDone
    BY <1>6 DEF AloneAlone, ScriptMade, Mig!OpenedIsComplete, AloneDone, Alone, Mig!Writing
  <1>9. StampsTrue
    BY <1>4 DEF StampsTrue
  <1>10. FileFollows
    BY <1>4, <1>6 DEF FileFollows, Alone
  <1> QED
    BY <1>7, <1>8, <1>9, <1>10 DEF MInv

\* What is known of a process that is about to take a step.
LEMMA AtWork ==
    ASSUME MInv, NEW p \in Proc, Mig!Alive(p)
    PROVE  /\ proc[p] \in Working /\ proc[p].version \in Nat \ {0}
           /\ \A q \in Proc \ {p} : ~Alone(q)
  <1>1. proc[p] \in Working
    BY DEF MInv, StoreTyped, Mig!Alive, Mig!NoProc
  <1>2. proc[p].version \in Nat \ {0}
    BY <1>1, MAss DEF Working, Mig!MigrationAssumption
  <1>3. \A q \in Proc \ {p} : ~Alone(q)
    BY DEF MInv, AloneAlone
  <1> QED
    BY <1>1, <1>2, <1>3

\* What is known of a process at a statement of its script.
LEMMA AtStatement ==
    ASSUME MInv, NEW p \in Proc, Mig!Writing(p)
    PROVE  /\ Mig!Alive(p) /\ Mig!Statement(p) \in Statements
           /\ Makes(Mig!Statement(p), proc[p].version) \subseteq Mig!Parts(Mig!Statement(p), proc[p].version)
           /\ db.parts \subseteq Mig!Parts(Mig!Statement(p), proc[p].version)
           /\ Mig!Parts(Mig!Statement(p), proc[p].version) \subseteq Mig!Part
           /\ Len(Mig!Script(proc[p].version)) >= 3 /\ Len(Mig!Script(proc[p].version)) \in Nat
           /\ proc[p].step \in 1 .. Len(Mig!Script(proc[p].version))
           /\ (proc[p].step = Len(Mig!Script(proc[p].version)) <=> Mig!Statement(p) = "stamp")
           /\ (proc[p].step = Len(Mig!Script(proc[p].version)) - 1 <=> Mig!Statement(p) = "delete")
           /\ MadeBy(p) /\ proc[p].step = Len(Mig!Script(proc[p].version)) =>
                 Mig!Layout(proc[p].version) \subseteq db.parts
  <1> DEFINE v == proc[p].version
             n == proc[p].step
  <1>1. Mig!Alive(p)
    BY DEF Mig!Writing, Mig!Alive
  <1>2. v \in Nat \ {0}
    BY <1>1, AtWork
  <1>3. migDialect \in {"sqlite", "postgres"} /\ db.parts \subseteq Mig!Part
    BY DEF MInv, StoreTyped, Store
  <1>4. n \in 1 .. Len(Mig!Script(v))
    BY DEF MInv, StoreTyped
  <1>5. /\ Mig!Script(v) \in Seq(Statements) /\ Len(Mig!Script(v)) >= 3
        /\ Mig!Script(v)[Len(Mig!Script(v))] = "stamp"
        /\ Mig!Script(v)[Len(Mig!Script(v)) - 1] = "delete"
        /\ \A i \in 1 .. Len(Mig!Script(v)) - 2 : Mig!Script(v)[i] \notin {"delete", "stamp"}
        /\ \A x \in Mig!Layout(v) : \E i \in 1 .. Len(Mig!Script(v)) - 2 : x \in Makes(Mig!Script(v)[i], v)
    BY <1>2, <1>3, ScriptShape
  <1>6. Mig!Statement(p) = Mig!Script(v)[n] /\ Len(Mig!Script(v)) \in Nat
    BY <1>5 DEF Mig!Statement
  <1>7. Mig!Statement(p) \in Statements
    BY <1>4, <1>5, <1>6
  <1>8. /\ n = Len(Mig!Script(v)) <=> Mig!Statement(p) = "stamp"
        /\ n = Len(Mig!Script(v)) - 1 <=> Mig!Statement(p) = "delete"
    <2> HIDE DEF v, n
    <2>1. n = Len(Mig!Script(v)) \/ n = Len(Mig!Script(v)) - 1 \/ n \in 1 .. Len(Mig!Script(v)) - 2
      BY <1>4, <1>6
    <2> QED
      BY <2>1, <1>5, <1>6
  <1>9. ASSUME MadeBy(p), n = Len(Mig!Script(v))
        PROVE  Mig!Layout(v) \subseteq db.parts
    <2>1. \A i \in 1 .. n - 1 : Makes(Mig!Script(v)[i], v) \subseteq db.parts
      BY <1>9 DEF MadeBy
    <2>2. 1 .. Len(Mig!Script(v)) - 2 \subseteq 1 .. n - 1
      BY <1>9, <1>6
    <2> HIDE DEF v, n
    <2> QED
      BY <2>1, <2>2, <1>5
  <1>10. /\ db.parts \subseteq Mig!Parts(Mig!Statement(p), v)
         /\ Makes(Mig!Statement(p), v) \subseteq Mig!Parts(Mig!Statement(p), v)
         /\ Mig!Parts(Mig!Statement(p), v) \subseteq Mig!Part
    BY <1>2, <1>3, <1>7, PartsGrow
  <1> QED
    BY <1>1, <1>4, <1>5, <1>6, <1>7, <1>8, <1>9, <1>10

\* A statement that comes through.
LEMMA RunsStep ==
    ASSUME MInv, NEW p \in Proc, Mig!Runs(p)
    PROVE  MInv'
  <1> DEFINE v == proc[p].version
             n == proc[p].step
             len == Len(Mig!Script(v))
             own == {[id |-> proc[p].id, version |-> v]}
             moved == proc'[p]
  <1>1. /\ Mig!Writing(p) /\ proc' = [proc EXCEPT ![p] = Mig!Went(p)]
        /\ db' = [db EXCEPT !.parts = Mig!Parts(Mig!Statement(p), v), !.stamps = Mig!Stamps(p)]
        /\ UNCHANGED <<migDialect, file, backup, ops, kills, swallowed>>
    BY DEF Mig!Runs
  <1>2. /\ Mig!Alive(p) /\ Mig!Statement(p) \in Statements
        /\ Makes(Mig!Statement(p), v) \subseteq Mig!Parts(Mig!Statement(p), v)
        /\ db.parts \subseteq Mig!Parts(Mig!Statement(p), v) /\ Mig!Parts(Mig!Statement(p), v) \subseteq Mig!Part
        /\ len >= 3 /\ len \in Nat /\ n \in 1 .. len
        /\ (n = len <=> Mig!Statement(p) = "stamp") /\ (n = len - 1 <=> Mig!Statement(p) = "delete")
        /\ (MadeBy(p) /\ n = len => Mig!Layout(v) \subseteq db.parts)
    BY <1>1, AtStatement
  <1>3. /\ proc[p] \in Working /\ v \in Nat \ {0}
        /\ \A q \in Proc \ {p} : ~Alone(q)
    BY <1>2, AtWork
  <1>4. /\ migDialect \in {"sqlite", "postgres"} /\ migDialect' = migDialect
        /\ db \in Store /\ proc \in [Proc -> Working \cup {Mig!NoProc}]
        /\ UNCHANGED <<file, backup, ops, kills, swallowed>>
    BY <1>1 DEF MInv, StoreTyped
  <1>5. /\ Mig!Statement(p) = "stamp" =>
              Mig!Stamps(p) = (IF migDialect = "sqlite" THEN db.stamps ELSE db.stamps \ proc[p].seen) \cup own
        /\ Mig!Statement(p) # "stamp" =>
              Mig!Stamps(p) = IF Mig!Statement(p) = "delete" /\ migDialect = "sqlite" THEN {} ELSE db.stamps
    BY <1>4, StampsOf
  <1>6. /\ db'.parts = Mig!Parts(Mig!Statement(p), v) /\ db'.stamps = Mig!Stamps(p) /\ db'.work = db.work
    BY <1>1, <1>4 DEF Store
  <1>7. own \subseteq Stamp /\ db.stamps \subseteq Stamp
    BY <1>3, <1>4 DEF Working, Stamp, Store
  <1>8. db' \in Store
    <2>1. Mig!Stamps(p) \subseteq Stamp
      BY <1>5, <1>7
    <2>2. db' = [parts |-> Mig!Parts(Mig!Statement(p), v), stamps |-> Mig!Stamps(p), work |-> db.work]
      BY <1>1, <1>4 DEF Store
    <2> QED
      BY <1>2, <1>4, <2>1, <2>2 DEF Store
  <1>9. /\ proc' \in [Proc -> Working \cup {Mig!NoProc}] /\ moved \in Working
        /\ \A q \in Proc : q # p => proc'[q] = proc[q]
        /\ moved.version = v /\ moved.alone = proc[p].alone /\ moved.from = proc[p].from
        /\ moved.before = proc[p].before /\ moved.id = proc[p].id
        /\ n = len => moved.at \in {"opened", "done"}
        /\ n # len => /\ moved.at = "script" /\ moved.step = n + 1
                      /\ n = len - 1 => moved.seen = db.stamps
    <2>1. /\ Mig!Went(p) \in Working
          /\ Mig!Went(p).version = v /\ Mig!Went(p).alone = proc[p].alone /\ Mig!Went(p).from = proc[p].from
          /\ Mig!Went(p).before = proc[p].before /\ Mig!Went(p).id = proc[p].id
          /\ n = len => Mig!Went(p).at \in {"opened", "done"}
          /\ n # len => /\ Mig!Went(p).at = "script" /\ Mig!Went(p).step = n + 1
                        /\ n = len - 1 => Mig!Went(p).seen = db.stamps
      <3>1. CASE n = len
        <4>1. Mig!Went(p) = [proc[p] EXCEPT !.at = IF proc[p].kind = "open" THEN "opened" ELSE "done"]
          BY <3>1 DEF Mig!Went
        <4> QED
          BY <3>1, <4>1, <1>3 DEF Working
      <3>2. CASE n # len
        <4> DEFINE a == [proc[p] EXCEPT !.step = n + 1]
                   had == IF Mig!Statement(p) = "delete" THEN db.stamps ELSE {}
        <4>1. Mig!Went(p) = [a EXCEPT !.seen = had]
          BY <3>2 DEF Mig!Went
        <4>2. proc[p].at = "script"
          BY <1>1 DEF Mig!Writing
        <4>3. /\ a \in Working /\ a.version = v /\ a.alone = proc[p].alone /\ a.from = proc[p].from
              /\ a.before = proc[p].before /\ a.id = proc[p].id /\ a.at = "script" /\ a.step = n + 1
          BY <4>2, <1>2, <1>3 DEF Working
        <4>4. had \in SUBSET Stamp /\ (n = len - 1 => had = db.stamps)
          BY <1>2, <1>7
        <4> HIDE DEF a, had
        <4>5. /\ Mig!Went(p) \in Working /\ Mig!Went(p).seen = had
              /\ Mig!Went(p).version = a.version /\ Mig!Went(p).alone = a.alone /\ Mig!Went(p).from = a.from
              /\ Mig!Went(p).before = a.before /\ Mig!Went(p).id = a.id /\ Mig!Went(p).at = a.at
              /\ Mig!Went(p).step = a.step
          BY <4>1, <4>3, <4>4 DEF Working
        <4> QED
          BY <3>2, <4>3, <4>4, <4>5
      <3> QED
        BY <3>1, <3>2
    <2>2. proc'[p] = Mig!Went(p) /\ \A q \in Proc : q # p => proc'[q] = proc[q]
      BY <1>1, <1>4
    <2>3. proc' \in [Proc -> Working \cup {Mig!NoProc}]
      BY <1>1, <1>4, <2>1
    <2> QED
      BY <2>1, <2>2, <2>3
  <1>10. \A q \in Proc : ~Alone(q)' \/ (q = p /\ Alone(p))
    BY <1>2, <1>3, <1>9 DEF Alone, Mig!Alive
  <1>11. \A w : Mig!Script(w)' = Mig!Script(w)
    BY <1>4 DEF Mig!Script, Mig!StampFirst, Mig!UpTo
  <1> HIDE DEF moved, own, v, n, len
  <1>12. StoreTyped'
    <2>1. ASSUME NEW q \in Proc
          PROVE  /\ Mig!Writing(q)' => proc'[q].step \in 1 .. Len(Mig!Script(proc'[q].version))
                 /\ proc'[q].at \in {"reads", "copies"} => proc'[q].step = 1
      <3>1. CASE q # p
        BY <3>1, <1>9 DEF MInv, StoreTyped, Mig!Writing
      <3>2. CASE q = p
        <4>1. n = len => ~(Mig!Writing(p)') /\ proc'[p].at \notin {"reads", "copies"}
          BY <1>9 DEF Mig!Writing, moved
        <4>2. n # len => proc'[p].step \in 1 .. len /\ proc'[p].at \notin {"reads", "copies"}
          BY <1>2, <1>9 DEF moved
        <4> QED
          BY <3>2, <4>1, <4>2, <1>9 DEF moved, len
      <3> QED
        BY <3>1, <3>2
    <2> QED
      BY <2>1, <1>4, <1>8, <1>9, <1>11 DEF MInv, StoreTyped
  <1>13. AloneAlone'
    <2> SUFFICES ASSUME NEW q \in Proc, Alone(q)', NEW r \in Proc \ {q}
                 PROVE  ~(Mig!Alive(r)')
      BY DEF AloneAlone
    <2>1. q = p /\ Alone(p)
      BY <1>10
    <2>2. ~Mig!Alive(r)
      BY <2>1 DEF MInv, AloneAlone
    <2> QED
      BY <2>1, <2>2, <1>9 DEF Mig!Alive
  <1>14. ScriptMade'
    <2> SUFFICES ASSUME NEW q \in Proc, Mig!Writing(q)', ~swallowed' \/ proc'[q].alone,
                        NEW i \in 1 .. proc'[q].step - 1
                 PROVE  Makes(Mig!Script(proc'[q].version)[i], proc'[q].version) \subseteq db'.parts
      BY <1>11 DEF ScriptMade, MadeBy, Makes, Mig!UpTo
    <2>1. CASE q # p
      <3>1. Mig!Writing(q) /\ (~swallowed \/ proc[q].alone) /\ proc'[q] = proc[q]
        BY <2>1, <1>4, <1>9 DEF Mig!Writing
      <3>2. MadeBy(q)
        BY <3>1 DEF MInv, ScriptMade
      <3> QED
        BY <3>1, <3>2, <1>2, <1>6 DEF MadeBy
    <2>2. CASE q = p
      <3>1. MadeBy(p)
        BY <2>2, <1>1, <1>4, <1>9 DEF MInv, ScriptMade, moved
      <3>2. n # len /\ proc'[p].step = n + 1 /\ proc'[p].version = v
        BY <2>2, <1>9 DEF Mig!Writing, moved
      <3>3. i \in 1 .. n - 1 \/ i = n
        BY <2>2, <3>2, <1>2
      <3>4. CASE i \in 1 .. n - 1
        BY <2>2, <3>1, <3>2, <3>4, <1>2, <1>6 DEF MadeBy, v, n
      <3>5. CASE i = n
        BY <2>2, <3>2, <3>5, <1>2, <1>6 DEF Mig!Statement, v, n
      <3> QED
        BY <3>3, <3>4, <3>5
    <2> QED
      BY <2>1, <2>2
  <1>15. n = len /\ (~swallowed \/ proc[p].alone) => Mig!Layout(v) \subseteq db'.parts
    BY <1>1, <1>2, <1>6 DEF MInv, ScriptMade
  <1>16. StampsTrue'
    <2> SUFFICES ASSUME ~swallowed, NEW s \in db'.stamps
                 PROVE  Mig!Layout(s.version) \subseteq db'.parts
      BY <1>4 DEF StampsTrue, Mig!Layout
    <2>1. CASE s \in db.stamps
      BY <2>1, <1>2, <1>6 DEF MInv, StampsTrue
    <2>2. CASE s \notin db.stamps
      <3>1. Mig!Statement(p) = "stamp" /\ s \in own
        BY <2>2, <1>5, <1>6
      <3> QED
        BY <3>1, <1>2, <1>15 DEF own
    <2> QED
      BY <2>1, <2>2
  <1>17. Mig!OpenedIsComplete'
    <2> SUFFICES ASSUME ~swallowed, NEW q \in Proc, proc'[q].at = "opened"
                 PROVE  Mig!Layout(proc'[q].version) \subseteq db'.parts
      BY <1>4 DEF Mig!OpenedIsComplete, Mig!Layout
    <2>1. CASE q # p
      BY <2>1, <1>2, <1>6, <1>9 DEF MInv, Mig!OpenedIsComplete
    <2>2. CASE q = p
      BY <2>2, <1>9, <1>15 DEF moved
    <2> QED
      BY <2>1, <2>2
  <1>18. AloneDone'
    <2> SUFFICES ASSUME NEW q \in Proc, Alone(q)'
                 PROVE  /\ Mig!Writing(q)' /\ proc'[q].step = Len(Mig!Script(proc'[q].version)) =>
                              IF migDialect = "sqlite" THEN db'.stamps = {} ELSE proc'[q].seen = db'.stamps
                        /\ proc'[q].at = "done" =>
                              /\ Mig!Layout(proc'[q].version) \subseteq db'.parts
                              /\ db'.stamps = {[id |-> proc'[q].id, version |-> proc'[q].version]}
      BY <1>4, <1>11 DEF AloneDone, Mig!Layout
    <2>1. q = p /\ Alone(p) /\ proc[p].alone
      BY <1>10 DEF Alone
    <2>2. ASSUME Mig!Writing(p)', proc'[p].step = len
          PROVE  IF migDialect = "sqlite" THEN db'.stamps = {} ELSE proc'[p].seen = db'.stamps
      <3>1. n = len - 1
        BY <2>2, <1>2, <1>9 DEF moved, Mig!Writing
      <3>2. Mig!Statement(p) = "delete" /\ Mig!Statement(p) # "stamp"
        BY <3>1, <1>2
      <3> QED
        BY <3>1, <3>2, <1>2, <1>4, <1>5, <1>6, <1>9 DEF moved
    <2>3. ASSUME proc'[p].at = "done"
          PROVE  Mig!Layout(v) \subseteq db'.parts /\ db'.stamps = own
      <3>1. n = len /\ Mig!Statement(p) = "stamp"
        BY <2>3, <1>2, <1>9 DEF moved
      <3>2. IF migDialect = "sqlite" THEN db.stamps = {} ELSE proc[p].seen = db.stamps
        BY <2>1, <3>1, <1>1 DEF MInv, AloneDone, n, len, v
      <3> QED
        BY <2>1, <3>1, <3>2, <1>4, <1>5, <1>6, <1>15
    <2> QED
      BY <2>1, <2>2, <2>3, <1>9 DEF moved, len, own
  <1>19. FileFollows'
    <2>1. Mig!Alive(p)'
      BY <1>9 DEF Mig!Alive, moved
    <2>2. ASSUME kills = 0, NEW q \in Proc, Alone(q)'
          PROVE  /\ proc'[q].at \in {"reads", "copies"} => FALSE
                 /\ /\ migDialect = "sqlite" /\ proc'[q].from # proc'[q].version
                    /\ proc'[q].at \in {"script", "done"}
                    => /\ proc'[q].from \in DOMAIN backup
                       /\ backup[proc'[q].from] = proc'[q].before
      <3>1. q = p /\ Alone(p)
        BY <2>2, <1>10
      <3>2. /\ migDialect = "sqlite" /\ proc[p].from # v
            => proc[p].from \in DOMAIN backup /\ backup[proc[p].from] = proc[p].before
        BY <2>2, <3>1, <1>1 DEF MInv, FileFollows, Mig!Writing, v
      <3> QED
        BY <3>1, <3>2, <1>9 DEF moved
    <2> QED
      BY <2>1, <2>2, <1>4 DEF FileFollows
  <1> QED
    BY <1>12, <1>13, <1>14, <1>16, <1>17, <1>18, <1>19 DEF MInv
\* One that finds the database locked, or the table there.
LEMMA FailsStep ==
    ASSUME MInv, NEW p \in Proc, Mig!Fails(p)
    PROVE  MInv'
  <1> DEFINE v == proc[p].version
             n == proc[p].step
             len == Len(Mig!Script(v))
             moved == proc'[p]
  <1>1. /\ Mig!Writing(p) /\ \E q \in Proc \ {p} : Mig!Alive(q)
        /\ \/ proc' = [proc EXCEPT ![p] = Mig!Went(p)] /\ swallowed' = TRUE
           \/ proc' = [proc EXCEPT ![p].at = "failed"] /\ swallowed' = swallowed
        /\ UNCHANGED <<migDialect, db, file, backup, ops, kills>>
    BY DEF Mig!Fails, Mig!Writing, Mig!Alive
  <1>2. /\ Mig!Alive(p) /\ len >= 3 /\ len \in Nat /\ n \in 1 .. len
    BY <1>1, AtStatement
  <1>3. /\ proc[p] \in Working /\ v \in Nat \ {0} /\ \A q \in Proc : ~Alone(q)
    BY <1>1, <1>2, AtWork
  <1>4. /\ proc \in [Proc -> Working \cup {Mig!NoProc}] /\ swallowed \in BOOLEAN
        /\ db.stamps \subseteq Stamp
    BY DEF MInv, StoreTyped, Store
  <1>5. /\ proc' \in [Proc -> Working \cup {Mig!NoProc}]
        /\ \A q \in Proc : q # p => proc'[q] = proc[q]
        /\ moved.alone = proc[p].alone /\ moved.version = v /\ moved.at # "idle"
        /\ \/ swallowed' = TRUE /\ moved.at \in {"opened", "done"}
           \/ swallowed' = TRUE /\ moved.at = "script" /\ moved.step \in 1 .. len
           \/ swallowed' = swallowed /\ moved.at = "failed"
    <2>1. CASE proc' = [proc EXCEPT ![p].at = "failed"] /\ swallowed' = swallowed
      BY <2>1, <1>3, <1>4 DEF Working
    <2>2. CASE proc' = [proc EXCEPT ![p] = Mig!Went(p)] /\ swallowed' = TRUE
      <3>1. /\ Mig!Went(p) \in Working /\ Mig!Went(p).version = v /\ Mig!Went(p).alone = proc[p].alone
            /\ \/ Mig!Went(p).at \in {"opened", "done"}
               \/ Mig!Went(p).at = "script" /\ Mig!Went(p).step \in 1 .. len
        <4>1. CASE n = len
          <5>1. Mig!Went(p) = [proc[p] EXCEPT !.at = IF proc[p].kind = "open" THEN "opened" ELSE "done"]
            BY <4>1 DEF Mig!Went
          <5> QED
            BY <5>1, <1>3 DEF Working
        <4>2. CASE n # len
          <5> DEFINE a == [proc[p] EXCEPT !.step = n + 1]
                     had == IF Mig!Statement(p) = "delete" THEN db.stamps ELSE {}
          <5>1. Mig!Went(p) = [a EXCEPT !.seen = had]
            BY <4>2 DEF Mig!Went
          <5>2. /\ a \in Working /\ a.version = v /\ a.alone = proc[p].alone
                /\ a.at = "script" /\ a.step = n + 1
            BY <1>1, <1>2, <1>3 DEF Working, Mig!Writing
          <5>3. had \in SUBSET Stamp
            BY <1>4
          <5> HIDE DEF a, had
          <5>4. /\ Mig!Went(p) \in Working /\ Mig!Went(p).version = a.version /\ Mig!Went(p).alone = a.alone
                /\ Mig!Went(p).at = a.at /\ Mig!Went(p).step = a.step
            BY <5>1, <5>2, <5>3 DEF Working
          <5>5. n + 1 \in 1 .. len
            BY <4>2, <1>2
          <5> QED
            BY <5>2, <5>4, <5>5
        <4> QED
          BY <4>1, <4>2
      <3>2. proc'[p] = Mig!Went(p) /\ \A q \in Proc : q # p => proc'[q] = proc[q]
        BY <2>2, <1>4
      <3>3. proc' \in [Proc -> Working \cup {Mig!NoProc}]
        BY <2>2, <1>4, <3>1
      <3>4. Mig!Went(p).at # "idle"
        BY <3>1
      <3> QED
        BY <2>2, <3>1, <3>2, <3>3, <3>4
    <2> QED
      BY <1>1, <2>1, <2>2
  <1>6. \A q \in Proc : ~(Alone(q)')
    BY <1>2, <1>3, <1>5 DEF Alone, Mig!Alive
  <1>7. \A w : Mig!Script(w)' = Mig!Script(w)
    BY <1>1 DEF Mig!Script, Mig!StampFirst, Mig!UpTo
  <1> HIDE DEF moved, v, n, len
  <1>8. StoreTyped'
    <2>1. ASSUME NEW q \in Proc
          PROVE  /\ Mig!Writing(q)' => proc'[q].step \in 1 .. Len(Mig!Script(proc'[q].version))
                 /\ proc'[q].at \in {"reads", "copies"} => proc'[q].step = 1
      <3>1. CASE q # p
        BY <3>1, <1>5 DEF MInv, StoreTyped, Mig!Writing
      <3>2. CASE q = p
        BY <3>2, <1>5 DEF Mig!Writing, moved, len
      <3> QED
        BY <3>1, <3>2
    <2>2. swallowed' \in BOOLEAN
      BY <1>4, <1>5
    <2> QED
      BY <2>1, <2>2, <1>1, <1>5, <1>7 DEF MInv, StoreTyped
  <1>9. AloneAlone' /\ AloneDone'
    BY <1>6 DEF AloneAlone, AloneDone
  <1>10. ScriptMade'
    <2> SUFFICES ASSUME NEW q \in Proc, Mig!Writing(q)', ~swallowed' \/ proc'[q].alone,
                        NEW i \in 1 .. proc'[q].step - 1
                 PROVE  Makes(Mig!Script(proc'[q].version)[i], proc'[q].version) \subseteq db.parts
      BY <1>1, <1>7 DEF ScriptMade, MadeBy, Makes, Mig!UpTo
    <2>1. ~swallowed' /\ swallowed' = swallowed /\ moved.at = "failed"
      BY <1>5, <1>6 DEF Alone, Mig!Alive, Mig!Writing
    <2>2. q # p
      BY <2>1 DEF Mig!Writing, moved
    <2>3. Mig!Writing(q) /\ proc'[q] = proc[q]
      BY <2>2, <1>5 DEF Mig!Writing
    <2>4. MadeBy(q)
      BY <2>1, <2>3 DEF MInv, ScriptMade
    <2> QED
      BY <2>3, <2>4 DEF MadeBy
  <1>11. StampsTrue'
    BY <1>1, <1>5 DEF MInv, StampsTrue, Mig!Layout
  <1>12. Mig!OpenedIsComplete'
    <2> SUFFICES ASSUME ~swallowed', NEW q \in Proc, proc'[q].at = "opened"
                 PROVE  Mig!Layout(proc'[q].version) \subseteq db.parts
      BY <1>1 DEF Mig!OpenedIsComplete, Mig!Layout
    <2>1. ~swallowed /\ q # p /\ proc'[q] = proc[q]
      BY <1>5 DEF moved
    <2> QED
      BY <2>1 DEF MInv, Mig!OpenedIsComplete
  <1>13. FileFollows'
    BY <1>5, <1>6 DEF FileFollows, Mig!Alive, moved
  <1> QED
    BY <1>8, <1>9, <1>10, <1>11, <1>12, <1>13 DEF MInv

\* A process that begins.
LEMMA BeginsStep ==
    ASSUME MInv, NEW p \in Proc, NEW own \in Working, Mig!Begins(p, own),
           own.step = 1, own.at \in {"script", "checks", "reads"},
           own.alone => /\ own.at = "reads" /\ own.before = db
                        /\ \A q \in Proc \ {p} : ~Mig!Alive(q)
    PROVE  MInv'
  <1>1. /\ ~Mig!Alive(p) /\ ops' = ops + 1
        /\ UNCHANGED <<migDialect, db, file, backup, kills, swallowed>>
        /\ proc' = [q \in Proc |->
             IF q = p THEN own
             ELSE IF Mig!Alive(q) THEN [proc[q] EXCEPT !.alone = FALSE, !.before = Mig!Empty] ELSE Mig!NoProc]
    BY DEF Mig!Begins
  <1>2. /\ proc \in [Proc -> Working \cup {Mig!NoProc}] /\ ops \in Nat
    BY DEF MInv, StoreTyped
  <1>0. UNCHANGED <<migDialect, db, file, backup, kills, swallowed>> /\ ops' \in Nat
    <2>1. UNCHANGED <<migDialect, db, file, backup, kills, swallowed>> /\ ops' = ops + 1
      BY Zenon DEF Mig!Begins
    <2> QED
      BY <2>1, <1>2
  <1>3. Mig!Empty \in Store
    BY DEF Mig!Empty, Store
  <1>4. ASSUME NEW q \in Proc, q # p
        PROVE  /\ proc'[q] \in Working \cup {Mig!NoProc} /\ ~(Alone(q)') /\ (Mig!Alive(q)' <=> Mig!Alive(q))
               /\ proc'[q].at = proc[q].at
               /\ Mig!Alive(q) => proc'[q].version = proc[q].version /\ proc'[q].step = proc[q].step
    <2>1. CASE Mig!Alive(q)
      <3> DEFINE a == [proc[q] EXCEPT !.alone = FALSE]
      <3>1. proc'[q] = [a EXCEPT !.before = Mig!Empty]
        BY <1>1, <1>4, <2>1
      <3>2. proc[q] \in Working
        BY <1>2, <2>1 DEF Mig!Alive, Mig!NoProc
      <3>3. /\ a \in Working /\ a.alone = FALSE /\ a.at = proc[q].at /\ a.version = proc[q].version
            /\ a.step = proc[q].step
        BY <3>2 DEF Working
      <3> HIDE DEF a
      <3>4. /\ proc'[q] \in Working /\ proc'[q].alone = FALSE /\ proc'[q].at = proc[q].at
            /\ proc'[q].version = proc[q].version /\ proc'[q].step = proc[q].step
        BY <3>1, <3>3, <1>3 DEF Working
      <3> QED
        BY <2>1, <3>4 DEF Alone, Mig!Alive
    <2>2. CASE ~Mig!Alive(q)
      <3>1. proc'[q] = Mig!NoProc
        BY <1>1, <1>4, <2>2
      <3>2. proc'[q].at = "idle"
        BY <3>1 DEF Mig!NoProc
      <3> QED
        BY <2>2, <3>1, <3>2 DEF Alone, Mig!Alive
    <2> QED
      BY <2>1, <2>2
  <1>5. proc'[p] = own /\ Mig!Alive(p)'
    BY <1>1 DEF Mig!Alive
  <1>6. \A q \in Proc : Alone(q)' => q = p /\ own.alone
    BY <1>4, <1>5 DEF Alone
  <1>7. \A w : Mig!Script(w)' = Mig!Script(w)
    BY <1>0 DEF Mig!Script, Mig!StampFirst, Mig!UpTo
  <1>8. StoreTyped'
    <2>1. own.version \in Nat \ {0}
      BY MAss DEF Working, Mig!MigrationAssumption
    <2>2. Len(Mig!Script(own.version)) >= 3 /\ Len(Mig!Script(own.version)) \in Nat
      BY <2>1, ScriptShape DEF MInv, StoreTyped
    <2>3. ASSUME NEW q \in Proc
          PROVE  /\ Mig!Writing(q)' => proc'[q].step \in 1 .. Len(Mig!Script(proc'[q].version))
                 /\ proc'[q].at \in {"reads", "copies"} => proc'[q].step = 1
      <3>1. CASE q # p
        BY <3>1, <1>4 DEF MInv, StoreTyped, Mig!Writing, Mig!Alive
      <3>2. CASE q = p
        BY <3>2, <1>5, <2>2
      <3> QED
        BY <3>1, <3>2
    <2>4. proc' \in [Proc -> Working \cup {Mig!NoProc}]
      <3>1. \A q \in Proc : proc'[q] \in Working \cup {Mig!NoProc}
        BY <1>4, <1>5
      <3> QED
        BY <3>1, <1>1
    <2> QED
      BY <2>3, <2>4, <1>0, <1>7 DEF MInv, StoreTyped
  <1>9. AloneAlone'
    <2> SUFFICES ASSUME NEW q \in Proc, Alone(q)', NEW r \in Proc \ {q}
                 PROVE  ~(Mig!Alive(r)')
      BY DEF AloneAlone
    <2>1. q = p /\ own.alone
      BY <1>6
    <2> QED
      BY <2>1, <1>4
  <1>10. ScriptMade'
    <2> SUFFICES ASSUME NEW q \in Proc, Mig!Writing(q)', ~swallowed \/ proc'[q].alone,
                        NEW i \in 1 .. proc'[q].step - 1
                 PROVE  Makes(Mig!Script(proc'[q].version)[i], proc'[q].version) \subseteq db.parts
      BY <1>0, <1>7 DEF ScriptMade, MadeBy, Makes, Mig!UpTo
    <2>1. q # p
      BY <1>5
    <2>2. /\ Mig!Writing(q) /\ Mig!Alive(q) /\ ~(Alone(q)')
          /\ proc'[q].version = proc[q].version /\ proc'[q].step = proc[q].step
      BY <2>1, <1>4 DEF Mig!Writing, Mig!Alive
    <2>3. ~swallowed
      BY <2>1, <2>2, <1>4 DEF Alone
    <2>4. MadeBy(q)
      BY <2>2, <2>3 DEF MInv, ScriptMade
    <2> QED
      BY <2>2, <2>4 DEF MadeBy
  <1>11. StampsTrue'
    BY <1>0 DEF MInv, StampsTrue, Mig!Layout
  <1>12. Mig!OpenedIsComplete'
    <2> SUFFICES ASSUME ~swallowed, NEW q \in Proc, proc'[q].at = "opened"
                 PROVE  Mig!Layout(proc'[q].version) \subseteq db.parts
      BY <1>0 DEF Mig!OpenedIsComplete, Mig!Layout
    <2>1. q # p
      BY <1>5
    <2>2. proc[q].at = "opened" /\ proc'[q].version = proc[q].version
      BY <2>1, <1>4 DEF Mig!Alive
    <2> QED
      BY <2>2 DEF MInv, Mig!OpenedIsComplete
  <1>13. AloneDone'
    BY <1>5, <1>6 DEF AloneDone, Mig!Writing
  <1>14. FileFollows'
    <2> SUFFICES ASSUME kills = 0, NEW q \in Proc, Alone(q)'
                 PROVE  file = db /\ proc'[q].before = db /\ proc'[q].at = "reads"
      BY <1>0, <1>5 DEF FileFollows
    <2>1. q = p /\ own.alone
      BY <1>6
    <2>2. \A r \in Proc : ~Mig!Alive(r)
      BY <1>1, <2>1
    <2> QED
      BY <2>1, <2>2, <1>5 DEF MInv, FileFollows
  <1> QED
    BY <1>8, <1>9, <1>10, <1>11, <1>12, <1>13, <1>14 DEF MInv
\* A step that takes one process on, or away, and touches no part and no stamp.
LEMMA MovesStep ==
    ASSUME MInv, NEW p \in Proc, Mig!Alive(p), NEW moved \in Working \cup {Mig!NoProc},
           proc' = [proc EXCEPT ![p] = moved],
           db'.parts = db.parts, db'.stamps = db.stamps, db' \in Store, file' \in Store,
           backup' \in [DOMAIN backup' -> Store], kills' \in Nat,
           UNCHANGED <<migDialect, ops, swallowed>>,
           moved # Mig!NoProc => moved.version = proc[p].version /\ moved.alone = proc[p].alone,
           moved.at \notin {"reads", "done"} \/ moved = proc[p],
           moved.at \in {"script", "copies"} \/ moved = proc[p] => proc[p].step = moved.step,
           moved.at = "script" => proc[p].at \in {"reads", "copies"},
           moved.at = "copies" => proc[p].at = "reads",
           moved.at = "opened" /\ ~swallowed => Mig!Layout(proc[p].version) \subseteq db.parts
    PROVE  StoreTyped' /\ AloneAlone' /\ ScriptMade' /\ StampsTrue' /\ Mig!OpenedIsComplete' /\ AloneDone'
  <1>1. /\ proc \in [Proc -> Working \cup {Mig!NoProc}] /\ proc[p] \in Working
        /\ proc[p].version \in Nat \ {0} /\ \A q \in Proc \ {p} : ~Alone(q)
    BY AtWork DEF MInv, StoreTyped
  <1>2. /\ proc' \in [Proc -> Working \cup {Mig!NoProc}] /\ proc'[p] = moved
        /\ \A q \in Proc : q # p => proc'[q] = proc[q]
    BY <1>1
  <1>3. Mig!NoProc.at = "idle"
    BY DEF Mig!NoProc
  <1>4. \A q \in Proc : Alone(q)' => q = p /\ Alone(p) /\ moved # Mig!NoProc
    BY <1>1, <1>2, <1>3 DEF Alone, Mig!Alive
  <1>5. \A w : Mig!Script(w)' = Mig!Script(w)
    BY DEF Mig!Script, Mig!StampFirst, Mig!UpTo
  <1>6. moved.at = "script" \/ moved.at = "copies" => proc[p].step = 1
    BY DEF MInv, StoreTyped
  <1>7. migDialect' = migDialect /\ ops' = ops /\ swallowed' = swallowed
    OBVIOUS
  <1>8. StoreTyped'
    <2>1. Len(Mig!Script(proc[p].version)) >= 3 /\ Len(Mig!Script(proc[p].version)) \in Nat
      BY <1>1, ScriptShape DEF MInv, StoreTyped
    <2>2. ASSUME NEW q \in Proc
          PROVE  /\ Mig!Writing(q)' => proc'[q].step \in 1 .. Len(Mig!Script(proc'[q].version))
                 /\ proc'[q].at \in {"reads", "copies"} => proc'[q].step = 1
      <3>1. CASE q # p
        BY <3>1, <1>2 DEF MInv, StoreTyped, Mig!Writing
      <3>2. CASE q = p
        <4>1. moved.at = "script" => moved # Mig!NoProc /\ moved.step = 1
          BY <1>3, <1>6
        <4>2. moved.at \in {"reads", "copies"} => moved.step = 1
          BY <1>6 DEF MInv, StoreTyped
        <4> QED
          BY <3>2, <4>1, <4>2, <2>1, <1>2 DEF Mig!Writing
      <3> QED
        BY <3>1, <3>2
    <2> QED
      BY <2>2, <1>2, <1>5, <1>7 DEF MInv, StoreTyped
  <1>9. AloneAlone'
    <2> SUFFICES ASSUME NEW q \in Proc, Alone(q)', NEW r \in Proc \ {q}
                 PROVE  ~(Mig!Alive(r)')
      BY DEF AloneAlone
    <2>1. q = p /\ Alone(p)
      BY <1>4
    <2> QED
      BY <2>1, <1>2 DEF MInv, AloneAlone, Mig!Alive
  <1>10. ScriptMade'
    <2> SUFFICES ASSUME NEW q \in Proc, Mig!Writing(q)', ~swallowed \/ proc'[q].alone,
                        NEW i \in 1 .. proc'[q].step - 1
                 PROVE  Makes(Mig!Script(proc'[q].version)[i], proc'[q].version) \subseteq db.parts
      <3> USE <1>5, <1>7
      <3>1. \A x, w : Makes(x, w)' = Makes(x, w)
        BY Zenon DEF Makes, Mig!UpTo
      <3>2. \A q \in Proc : MadeBy(q)' <=>
              \A i \in 1 .. proc'[q].step - 1 :
                  Makes(Mig!Script(proc'[q].version)[i], proc'[q].version) \subseteq db.parts
        BY DEF MadeBy
      <3>3. \A q \in Proc : Mig!Writing(q)' /\ (~swallowed \/ proc'[q].alone) =>
              \A i \in 1 .. proc'[q].step - 1 :
                  Makes(Mig!Script(proc'[q].version)[i], proc'[q].version) \subseteq db.parts
        OBVIOUS
      <3> QED
        BY <3>2, <3>3, <1>7 DEF ScriptMade
    <2>1. q # p
      BY <1>2, <1>6 DEF Mig!Writing
    <2>2. Mig!Writing(q) /\ proc'[q] = proc[q]
      BY <2>1, <1>2 DEF Mig!Writing
    <2>3. MadeBy(q)
      BY <2>2 DEF MInv, ScriptMade
    <2> QED
      BY <2>2, <2>3 DEF MadeBy
  <1>11. StampsTrue'
    BY <1>7 DEF MInv, StampsTrue, Mig!Layout
  <1>12. Mig!OpenedIsComplete'
    <2> SUFFICES ASSUME ~swallowed, NEW q \in Proc, proc'[q].at = "opened"
                 PROVE  Mig!Layout(proc'[q].version) \subseteq db.parts
      BY <1>7 DEF Mig!OpenedIsComplete, Mig!Layout
    <2>1. CASE q # p
      BY <2>1, <1>2 DEF MInv, Mig!OpenedIsComplete
    <2>2. CASE q = p
      <3>1. moved # Mig!NoProc
        BY <2>2, <1>2, <1>3
      <3> QED
        BY <2>2, <3>1, <1>2
    <2> QED
      BY <2>1, <2>2
  <1>13. AloneDone'
    <2> SUFFICES ASSUME NEW q \in Proc, Alone(q)'
                 PROVE  /\ Mig!Writing(q)' /\ proc'[q].step = Len(Mig!Script(proc'[q].version)) =>
                              IF migDialect = "sqlite" THEN db.stamps = {} ELSE proc'[q].seen = db.stamps
                        /\ proc'[q].at = "done" =>
                              /\ Mig!Layout(proc'[q].version) \subseteq db.parts
                              /\ db.stamps = {[id |-> proc'[q].id, version |-> proc'[q].version]}
      BY <1>5, <1>7 DEF AloneDone, Mig!Layout
    <2>1. q = p /\ Alone(p) /\ moved # Mig!NoProc
      BY <1>4
    <2>2. Len(Mig!Script(proc[p].version)) >= 3 /\ Len(Mig!Script(proc[p].version)) \in Nat
      BY <1>1, ScriptShape DEF MInv, StoreTyped
    <2>3. ~(moved.at = "script" /\ moved.step = Len(Mig!Script(moved.version)))
      BY <2>1, <2>2, <1>6
    <2>4. moved.at = "done" => moved = proc[p]
      OBVIOUS
    <2> QED
      BY <2>1, <2>3, <2>4, <1>2 DEF MInv, AloneDone, Mig!Writing
  <1> QED
    BY <1>8, <1>9, <1>10, <1>11, <1>12, <1>13
\* FileFollows after a step of one process.
LEMMA FileAfter ==
    ASSUME MInv, NEW p \in Proc, Mig!Alive(p), NEW moved \in Working,
           proc' = [proc EXCEPT ![p] = moved], moved.at # "idle",
           moved.alone = proc[p].alone, moved.before = proc[p].before,
           UNCHANGED <<migDialect, file, kills>>,
           kills = 0 /\ Alone(p) =>
               /\ moved.at \in {"reads", "copies"} => file = db' /\ proc[p].before = db'
               /\ /\ migDialect = "sqlite" /\ moved.from # moved.version
                  /\ moved.at \in {"script", "done"}
                  => moved.from \in DOMAIN backup' /\ backup'[moved.from] = proc[p].before
    PROVE  FileFollows'
  <1>1. /\ proc \in [Proc -> Working \cup {Mig!NoProc}] /\ \A q \in Proc \ {p} : ~Alone(q)
    BY AtWork DEF MInv, StoreTyped
  <1>2. proc'[p] = moved /\ \A q \in Proc : q # p => proc'[q] = proc[q]
    BY <1>1
  <1>3. \A q \in Proc : Alone(q)' => q = p /\ Alone(p)
    BY <1>1, <1>2 DEF Alone, Mig!Alive
  <1>4. Mig!Alive(p)'
    BY <1>2 DEF Mig!Alive
  <1> QED
    BY <1>2, <1>3, <1>4 DEF FileFollows

\* A process reads the version of a store it has not made, opens it or refuses.
LEMMA ChecksStep ==
    ASSUME MInv, NEW p \in Proc, Mig!Checks(p)
    PROVE  MInv'
  <1>1. PICK version \in Mig!ReadVersion :
            /\ proc[p].at = "checks"
            /\ proc' = [proc EXCEPT ![p].at = IF version = proc[p].version THEN "opened" ELSE "refused"]
            /\ UNCHANGED <<migDialect, db, file, backup, ops, kills, swallowed>>
    BY DEF Mig!Checks
  <1>2. Mig!Alive(p)
    BY <1>1 DEF Mig!Alive
  <1>3. proc[p] \in Working /\ proc[p].version \in Nat \ {0}
    BY <1>2, AtWork
  <1> DEFINE moved == [proc[p] EXCEPT !.at = IF version = proc[p].version THEN "opened" ELSE "refused"]
  <1>4. /\ moved \in Working /\ moved.version = proc[p].version /\ moved.alone = proc[p].alone
        /\ moved.before = proc[p].before /\ moved.from = proc[p].from
        /\ moved.at \in {"opened", "refused"}
        /\ moved.at = "opened" => version = proc[p].version
    BY <1>3 DEF Working
  <1>5. proc' = [proc EXCEPT ![p] = moved]
    BY <1>1 DEF MInv, StoreTyped
  <1>6. moved # proc[p] /\ moved # Mig!NoProc
    BY <1>1, <1>4 DEF Mig!NoProc
  <1>7. moved.at = "opened" /\ ~swallowed => Mig!Layout(proc[p].version) \subseteq db.parts
    <2> SUFFICES ASSUME version = proc[p].version, ~swallowed
                 PROVE  Mig!Layout(proc[p].version) \subseteq db.parts
      BY <1>4
    <2>1. PICK s \in db.stamps : s.version = version
      BY <1>1, <1>3 DEF Mig!ReadVersion
    <2> QED
      BY <2>1 DEF MInv, StampsTrue
  <1>8. /\ db' \in Store /\ file' \in Store /\ backup' \in [DOMAIN backup' -> Store] /\ kills' \in Nat
        /\ db' = db /\ UNCHANGED <<migDialect, ops, swallowed>> /\ UNCHANGED <<migDialect, file, kills>>
    BY <1>1 DEF MInv, StoreTyped
  <1> HIDE DEF moved
  <1>9. StoreTyped' /\ AloneAlone' /\ ScriptMade' /\ StampsTrue' /\ Mig!OpenedIsComplete' /\ AloneDone'
    BY <1>2, <1>4, <1>5, <1>6, <1>7, <1>8, MovesStep
  <1>10. FileFollows'
    BY <1>2, <1>4, <1>5, <1>8, FileAfter
  <1> QED
    BY <1>9, <1>10 DEF MInv

\* A migrate reads the version it starts from.
LEMMA ReadsStep ==
    ASSUME MInv, NEW p \in Proc, Mig!Reads(p)
    PROVE  MInv'
  <1>1. PICK version \in Mig!ReadVersion :
            /\ proc[p].at = "reads"
            /\ proc' = [proc EXCEPT ![p].from = version,
                    ![p].at = IF migDialect = "sqlite" /\ version # proc[p].version THEN "copies"
                              ELSE "script"]
            /\ UNCHANGED <<migDialect, db, file, backup, ops, kills, swallowed>>
    BY DEF Mig!Reads
  <1>2. Mig!Alive(p)
    BY <1>1 DEF Mig!Alive
  <1>3. proc[p] \in Working /\ proc[p].version \in Nat \ {0}
    BY <1>2, AtWork
  <1>4. version \in Nat
    BY DEF Mig!ReadVersion, MInv, StoreTyped, Store, Stamp
  <1> DEFINE goes == IF migDialect = "sqlite" /\ version # proc[p].version THEN "copies" ELSE "script"
             a == [proc[p] EXCEPT !.from = version]
             moved == [a EXCEPT !.at = goes]
  <1>5. /\ a \in Working /\ a.version = proc[p].version /\ a.alone = proc[p].alone
        /\ a.before = proc[p].before /\ a.from = version /\ a.step = proc[p].step
    BY <1>3, <1>4 DEF Working
  <1>6. proc' = [proc EXCEPT ![p] = moved]
    BY <1>1 DEF MInv, StoreTyped
  <1> HIDE DEF a
  <1>7. /\ moved \in Working /\ moved.version = proc[p].version /\ moved.alone = proc[p].alone
        /\ moved.before = proc[p].before /\ moved.from = version /\ moved.step = proc[p].step
        /\ moved.at = goes
    BY <1>5 DEF Working
  <1>8. /\ moved.at \in {"copies", "script"} /\ moved # Mig!NoProc
        /\ moved.at = "script" => migDialect # "sqlite" \/ moved.from = moved.version
    <2>1. moved.at \in {"copies", "script"}
      BY <1>7
    <2>2. moved.at # Mig!NoProc.at
      BY <2>1 DEF Mig!NoProc
    <2>3. moved.at = "script" => migDialect # "sqlite" \/ version = proc[p].version
      BY <1>7
    <2> HIDE DEF moved
    <2>4. moved # Mig!NoProc
      BY <2>2
    <2> QED
      BY <2>1, <2>3, <2>4, <1>7
  <1>9. /\ db' \in Store /\ file' \in Store /\ backup' \in [DOMAIN backup' -> Store] /\ kills' \in Nat
        /\ db' = db /\ UNCHANGED <<migDialect, ops, swallowed>> /\ UNCHANGED <<migDialect, file, kills>>
    BY <1>1 DEF MInv, StoreTyped
  <1> HIDE DEF moved
  <1>10. StoreTyped' /\ AloneAlone' /\ ScriptMade' /\ StampsTrue' /\ Mig!OpenedIsComplete' /\ AloneDone'
    BY <1>1, <1>2, <1>6, <1>7, <1>8, <1>9, MovesStep
  <1>11. kills = 0 /\ Alone(p) => file = db /\ proc[p].before = db
    BY <1>1 DEF MInv, FileFollows
  <1>12. FileFollows'
    BY <1>2, <1>6, <1>7, <1>8, <1>9, <1>11, FileAfter
  <1> QED
    BY <1>10, <1>12 DEF MInv

\* A migrate on SQLite copies the file.
LEMMA CopiesStep ==
    ASSUME MInv, NEW p \in Proc, Mig!Copies(p)
    PROVE  MInv'
  <1>1. /\ proc[p].at = "copies" /\ backup' = Mig!Copied(proc[p].from, file)
        /\ proc' = [proc EXCEPT ![p].at = "script"]
        /\ UNCHANGED <<migDialect, db, file, ops, kills, swallowed>>
    BY DEF Mig!Copies
  <1>2. Mig!Alive(p)
    BY <1>1 DEF Mig!Alive
  <1>3. proc[p] \in Working
    BY <1>2, AtWork
  <1> DEFINE moved == [proc[p] EXCEPT !.at = "script"]
  <1>4. /\ moved \in Working /\ moved.version = proc[p].version /\ moved.alone = proc[p].alone
        /\ moved.before = proc[p].before /\ moved.from = proc[p].from /\ moved.step = proc[p].step
        /\ moved.at = "script"
    BY <1>3 DEF Working
  <1>5. proc' = [proc EXCEPT ![p] = moved]
    BY <1>1 DEF MInv, StoreTyped
  <1>6. moved # Mig!NoProc
    BY <1>4 DEF Mig!NoProc
  <1>7. /\ db' \in Store /\ file' \in Store /\ kills' \in Nat
        /\ db' = db /\ UNCHANGED <<migDialect, ops, swallowed>> /\ UNCHANGED <<migDialect, file, kills>>
    BY <1>1 DEF MInv, StoreTyped
  <1>8. /\ backup' \in [DOMAIN backup' -> Store]
        /\ proc[p].from \in DOMAIN backup' /\ backup'[proc[p].from] = file
    <2>1. backup \in [DOMAIN backup -> Store] /\ file \in Store
      BY DEF MInv, StoreTyped
    <2> QED
      BY <1>1, <2>1 DEF Mig!Copied
  <1> HIDE DEF moved
  <1>9. StoreTyped' /\ AloneAlone' /\ ScriptMade' /\ StampsTrue' /\ Mig!OpenedIsComplete' /\ AloneDone'
    BY <1>1, <1>2, <1>4, <1>5, <1>6, <1>7, <1>8, MovesStep
  <1>10. kills = 0 /\ Alone(p) => file = db /\ proc[p].before = db
    BY <1>1 DEF MInv, FileFollows
  <1>11. FileFollows'
    BY <1>2, <1>4, <1>5, <1>7, <1>8, <1>10, FileAfter
  <1> QED
    BY <1>9, <1>11 DEF MInv

\* A process that has opened the store writes to it.
LEMMA RecordsStep ==
    ASSUME MInv, NEW p \in Proc, Mig!Records(p)
    PROVE  MInv'
  <1>1. /\ proc[p].at = "opened" /\ db' = [db EXCEPT !.work = TRUE]
        /\ UNCHANGED <<migDialect, file, backup, proc, ops, kills, swallowed>>
    BY DEF Mig!Records
  <1>2. Mig!Alive(p)
    BY <1>1 DEF Mig!Alive
  <1>3. proc[p] \in Working
    BY <1>2, AtWork
  <1>4. proc' = [proc EXCEPT ![p] = proc[p]] /\ proc[p] # Mig!NoProc
    BY <1>1, <1>2 DEF MInv, StoreTyped, Mig!NoProc
  <1>5. /\ db' \in Store /\ db'.parts = db.parts /\ db'.stamps = db.stamps
        /\ file' \in Store /\ backup' \in [DOMAIN backup' -> Store] /\ kills' \in Nat
        /\ UNCHANGED <<migDialect, ops, swallowed>> /\ UNCHANGED <<migDialect, file, kills>>
    BY <1>1 DEF MInv, StoreTyped, Store
  <1>6. ~swallowed => Mig!Layout(proc[p].version) \subseteq db.parts
    BY <1>1 DEF MInv, Mig!OpenedIsComplete
  <1>7. StoreTyped' /\ AloneAlone' /\ ScriptMade' /\ StampsTrue' /\ Mig!OpenedIsComplete' /\ AloneDone'
    BY <1>1, <1>2, <1>3, <1>4, <1>5, <1>6, MovesStep
  <1>8. FileFollows'
    BY <1>1, <1>2, <1>3, <1>4, <1>5, FileAfter
  <1> QED
    BY <1>7, <1>8 DEF MInv

\* A process that leaves, by itself or not.
LEMMA LeavesStep ==
    ASSUME MInv, NEW p \in Proc, Mig!Closes(p) \/ Mig!Killed(p)
    PROVE  MInv'
  <1>1. /\ Mig!Alive(p) /\ proc' = [proc EXCEPT ![p] = Mig!NoProc]
        /\ UNCHANGED <<migDialect, db, backup, ops, swallowed>>
        /\ \/ /\ file' = IF \E q \in Proc \ {p} : Mig!Alive(q) THEN file ELSE db
              /\ kills' = kills
           \/ file' = file /\ kills' = kills + 1
    BY DEF Mig!Closes, Mig!Killed, Mig!Alive
  <1>2. Mig!NoProc \in Working \cup {Mig!NoProc} /\ Mig!NoProc.at = "idle" /\ Mig!NoProc # proc[p]
    BY <1>1 DEF Mig!NoProc, Mig!Alive
  <1>3. /\ db \in Store /\ file \in Store /\ backup \in [DOMAIN backup -> Store] /\ kills \in Nat
        /\ proc \in [Proc -> Working \cup {Mig!NoProc}] /\ \A q \in Proc \ {p} : ~Alone(q)
    BY <1>1, AtWork DEF MInv, StoreTyped
  <1>4. /\ db' \in Store /\ file' \in Store /\ backup' \in [DOMAIN backup' -> Store]
        /\ kills' \in Nat /\ db' = db
    BY <1>1, <1>3
  <1>5. StoreTyped' /\ AloneAlone' /\ ScriptMade' /\ StampsTrue' /\ Mig!OpenedIsComplete' /\ AloneDone'
    BY <1>1, <1>2, <1>4, MovesStep
  <1>6. /\ \A q \in Proc : q # p => proc'[q] = proc[q]
        /\ ~(Mig!Alive(p)')
    BY <1>1, <1>2, <1>3 DEF Mig!Alive
  <1>7. \A q \in Proc : ~(Alone(q)')
    BY <1>3, <1>6 DEF Alone, Mig!Alive
  <1>8. kills' = 0 /\ (\A q \in Proc : ~(Mig!Alive(q)')) => file' = db'
    <2> SUFFICES ASSUME kills' = 0, \A q \in Proc : ~(Mig!Alive(q)')
                 PROVE  file' = db
      BY <1>4
    <2>1. \A q \in Proc \ {p} : ~Mig!Alive(q)
      BY <1>6 DEF Mig!Alive
    <2>2. kills' # kills + 1
      BY <1>3
    <2> QED
      BY <1>1, <2>1, <2>2
  <1>9. FileFollows'
    BY <1>7, <1>8 DEF FileFollows
  <1> QED
    BY <1>5, <1>9 DEF MInv

\* A process starts to open the store.
LEMMA OpensStep ==
    ASSUME MInv, NEW p \in Proc, NEW v \in Binaries, Mig!Opens(p, v)
    PROVE  MInv'
  <1> DEFINE own == [at |-> IF "snapshots" \notin db.parts THEN "script" ELSE "checks",
                     kind |-> "open", version |-> v, from |-> Fresh, alone |-> FALSE,
                     before |-> Mig!Empty, step |-> 1, seen |-> {}, id |-> ops + 1]
  <1>1. Mig!Begins(p, own)
    BY DEF Mig!Opens
  <1>2. ops + 1 \in Nat /\ Mig!Empty \in Store
    BY DEF MInv, StoreTyped, Mig!Empty, Store
  <1>3. own \in Working /\ own.step = 1 /\ own.at \in {"script", "checks", "reads"} /\ ~own.alone
    BY <1>2 DEF Working
  <1> HIDE DEF own
  <1> QED
    BY <1>1, <1>3, BeginsStep

\* A process starts to migrate the store.
LEMMA MigratesStep ==
    ASSUME MInv, NEW p \in Proc, NEW v \in Binaries, Mig!Migrates(p, v)
    PROVE  MInv'
  <1> DEFINE alone == \A q \in Proc \ {p} : ~Mig!Alive(q)
             own == [at |-> "reads", kind |-> "migrate", version |-> v, from |-> Fresh,
                     alone |-> alone, before |-> IF alone THEN db ELSE Mig!Empty,
                     step |-> 1, seen |-> {}, id |-> ops + 1]
  <1>1. Mig!Begins(p, own)
    BY DEF Mig!Migrates
  <1>2. ops + 1 \in Nat /\ Mig!Empty \in Store /\ db \in Store
    BY DEF MInv, StoreTyped, Mig!Empty, Store
  <1>3. /\ own \in Working /\ own.step = 1 /\ own.at = "reads"
        /\ own.alone => alone /\ own.before = db
    <2>1. alone \in BOOLEAN
      OBVIOUS
    <2> HIDE DEF alone
    <2> QED
      BY <1>2, <2>1 DEF Working
  <1> HIDE DEF own
  <1> QED
    BY <1>1, <1>3, BeginsStep

\* Every step of Migration keeps its invariant.
THEOREM MigrationStep == MInv /\ [Mig!Next]_migVars => MInv'
  <1> SUFFICES ASSUME MInv, [Mig!Next]_migVars
               PROVE  MInv'
    OBVIOUS
  <1>1. CASE UNCHANGED migVars
    <2>1. UNCHANGED <<migDialect, db, file, backup, proc, ops, kills, swallowed>>
      BY <1>1 DEF migVars
    <2>2. \A w : Mig!Script(w)' = Mig!Script(w)
      BY <2>1 DEF Mig!Script, Mig!StampFirst, Mig!UpTo
    <2>3. \A x, w : Makes(x, w)' = Makes(x, w)
      BY Zenon DEF Makes, Mig!UpTo
    <2>4. StoreTyped'
      BY <2>1, <2>2 DEF MInv, StoreTyped, Mig!Writing
    <2>5. AloneAlone' /\ FileFollows'
      BY <2>1 DEF MInv, AloneAlone, FileFollows, Alone, Mig!Alive
    <2>6. \A p \in Proc : MadeBy(p)' <=> MadeBy(p)
      BY <2>1, <2>2, <2>3 DEF MadeBy
    <2>7. ScriptMade'
      BY <2>1, <2>6 DEF MInv, ScriptMade, Mig!Writing
    <2>8. StampsTrue' /\ Mig!OpenedIsComplete'
      BY <2>1 DEF MInv, StampsTrue, Mig!OpenedIsComplete, Mig!Layout
    <2>9. AloneDone'
      BY <2>1, <2>2 DEF MInv, AloneDone, Alone, Mig!Alive, Mig!Writing, Mig!Layout
    <2> QED
      BY <2>4, <2>5, <2>7, <2>8, <2>9 DEF MInv
  <1>2. CASE Mig!Next
    BY <1>2, OpensStep, MigratesStep, ChecksStep, ReadsStep, CopiesStep, RunsStep, FailsStep,
       RecordsStep, LeavesStep DEF Mig!Next
  <1> QED
    BY <1>1, <1>2

\* The invariant of Migration says what the runs check.
LEMMA MigrationMeans == MInv => Mig!OpenedIsComplete /\ Mig!MigrateRepairs /\ Mig!BackupIsTheStore
  <1> SUFFICES ASSUME MInv
               PROVE  Mig!MigrateRepairs /\ Mig!BackupIsTheStore
    BY DEF MInv
  <1>1. ASSUME NEW p \in Proc, proc[p].at = "done", proc[p].alone
        PROVE  Alone(p) /\ proc[p] \in Working
    BY <1>1 DEF Alone, Mig!Alive, MInv, StoreTyped, Mig!NoProc
  <1>2. Mig!MigrateRepairs
    <2> SUFFICES ASSUME NEW p \in Proc, proc[p].at = "done", proc[p].alone
                 PROVE  /\ Mig!Layout(proc[p].version) \subseteq db.parts
                        /\ {s.version : s \in db.stamps} = {proc[p].version}
                        /\ Mig!Cardinality(db.stamps) = 1
      BY DEF Mig!MigrateRepairs
    <2> DEFINE own == [id |-> proc[p].id, version |-> proc[p].version]
    <2>1. Mig!Layout(proc[p].version) \subseteq db.parts /\ db.stamps = {own}
      BY <1>1 DEF MInv, AloneDone
    <2>2. {s.version : s \in {own}} = {proc[p].version}
      OBVIOUS
    <2>3. Mig!Cardinality({own}) = 1
      BY FS_Singleton, Counts
    <2> QED
      BY <2>1, <2>2, <2>3
  <1>3. Mig!BackupIsTheStore
    BY <1>1 DEF Mig!BackupIsTheStore, MInv, FileFollows, StoreTyped
  <1> QED
    BY <1>2, <1>3

-----------------------------------------------------------------------------
(* `efmesh schedule`                                                       *)

\* The variables of Schedule have values of their kinds, and the entry of a
\* title is for a target of that title.
ScheduleTyped ==
    /\ worker \subseteq Sch!Target /\ asked \subseteq Sch!Target /\ overlapped \subseteq Sch!Target
    /\ \A x \in DOMAIN entry : entry[x] \in Sch!Target /\ Sch!Title(entry[x]) = x
    /\ cmd \in [Proc -> {Sch!Idle} \cup [at : {"enter", "leave"}, target : Sch!Target]]

\* A process that is amid a command.
Commanding(p) == cmd[p] # Sch!Idle

\* Two commands about one target are known to overlap.
OneEach ==
    \A p, q \in Proc :
        p # q /\ Commanding(p) /\ Commanding(q) /\ cmd[p].target = cmd[q].target
        => cmd[p].target \in overlapped

\* A command that is to enter its target has its worker, and one that is to
\* take the worker away has taken the entry.
HalfWay ==
    \A p \in Proc :
        /\ cmd[p].at = "enter" => cmd[p].target \in worker \cup overlapped
        /\ cmd[p].at = "leave" =>
              \/ cmd[p].target \in overlapped
              \/ \A x \in DOMAIN entry : entry[x] # cmd[p].target

\* The inductive invariant of Schedule.
SInv == ScheduleTyped /\ OneEach /\ HalfWay /\ Sch!EntriesRun

\* A command is idle or has a target.
LEMMA Commands ==
    ASSUME ScheduleTyped, NEW p \in Proc
    PROVE  /\ Commanding(p) <=> cmd[p].at \in {"enter", "leave"}
           /\ Commanding(p) => cmd[p].target \in Sch!Target
           /\ ~Commanding(p) <=> cmd[p].at = "idle"
  BY DEF ScheduleTyped, Commanding, Sch!Idle

\* At first there is nothing.
LEMMA ScheduleInit == Sch!Init => SInv
  BY DEF Sch!Init, SInv, ScheduleTyped, OneEach, HalfWay, Commanding, Sch!EntriesRun, Sch!Idle

\* A command that starts is the only one about its target, or both are known.
LEMMA StartsStep ==
    ASSUME SInv, NEW p \in Proc, NEW t \in Sch!Target, Sch!Starts(p, t),
           NEW c \in [at : {"enter", "leave"}, target : {t}], Sch!Goes(p, c)
    PROVE  /\ OneEach' /\ overlapped \subseteq overlapped' /\ overlapped' \subseteq Sch!Target
           /\ cmd' \in [Proc -> {Sch!Idle} \cup [at : {"enter", "leave"}, target : Sch!Target]]
           /\ cmd'[p] = c /\ ~Commanding(p)
           /\ \A q \in Proc \ {p} : cmd'[q] = cmd[q]
           /\ \A q \in Proc \ {p} : Commanding(q) /\ cmd[q].target = t => t \in overlapped'
  <1>1. /\ cmd \in [Proc -> {Sch!Idle} \cup [at : {"enter", "leave"}, target : Sch!Target]]
        /\ overlapped \subseteq Sch!Target
    BY DEF SInv, ScheduleTyped
  <1>2. c \in [at : {"enter", "leave"}, target : Sch!Target] /\ c.target = t
    OBVIOUS
  <1>3. cmd' = [cmd EXCEPT ![p] = c]
    BY DEF Sch!Goes
  <1>4. cmd'[p] = c /\ \A q \in Proc \ {p} : cmd'[q] = cmd[q]
    BY <1>1, <1>3
  <1>5. cmd' \in [Proc -> {Sch!Idle} \cup [at : {"enter", "leave"}, target : Sch!Target]]
    BY <1>1, <1>2, <1>3
  <1>6. ~Commanding(p)
    BY Commands DEF SInv, Sch!Starts, Sch!At
  <1>7. overlapped \subseteq overlapped' /\ overlapped' \subseteq Sch!Target
    BY <1>1 DEF Sch!Starts
  <1>8. ASSUME NEW q \in Proc \ {p}, Commanding(q), cmd[q].target = t
        PROVE  t \in overlapped'
    BY <1>8 DEF Sch!Starts, Commanding
  <1>9. OneEach'
    <2> SUFFICES ASSUME NEW q \in Proc, NEW r \in Proc, q # r, Commanding(q)', Commanding(r)',
                        cmd'[q].target = cmd'[r].target
                 PROVE  cmd'[q].target \in overlapped'
      BY DEF OneEach
    <2>1. CASE q = p
      BY <2>1, <1>2, <1>4, <1>8 DEF Commanding
    <2>2. CASE r = p
      BY <2>2, <1>2, <1>4, <1>8 DEF Commanding
    <2>3. CASE q # p /\ r # p
      BY <2>3, <1>4, <1>7 DEF Commanding, SInv, OneEach
    <2> QED
      BY <2>1, <2>2, <2>3
  <1> QED
    BY <1>4, <1>5, <1>6, <1>7, <1>8, <1>9

\* The worker is written.
LEMMA WriteWorkerStep ==
    ASSUME SInv, NEW p \in Proc, NEW t \in Sch!Target, Sch!WriteWorker(p, t)
    PROVE  SInv'
  <1> DEFINE c == [at |-> "enter", target |-> t]
  <1>1. c \in [at : {"enter", "leave"}, target : {t}] /\ c.at = "enter" /\ c.target = t
    OBVIOUS
  <1>2. /\ Sch!Starts(p, t) /\ Sch!Goes(p, c)
        /\ worker' = worker \cup {t} /\ entry' = entry /\ asked' = asked
    BY DEF Sch!WriteWorker
  <1> HIDE DEF c
  <1>3. /\ OneEach' /\ overlapped \subseteq overlapped' /\ overlapped' \subseteq Sch!Target
        /\ cmd' \in [Proc -> {Sch!Idle} \cup [at : {"enter", "leave"}, target : Sch!Target]]
        /\ cmd'[p] = c /\ \A q \in Proc \ {p} : cmd'[q] = cmd[q]
    BY <1>1, <1>2, StartsStep
  <1>4. ScheduleTyped'
    BY <1>2, <1>3 DEF SInv, ScheduleTyped
  <1>5. HalfWay'
    <2> SUFFICES ASSUME NEW q \in Proc
                 PROVE  /\ cmd'[q].at = "enter" => cmd'[q].target \in worker' \cup overlapped'
                        /\ cmd'[q].at = "leave" =>
                              \/ cmd'[q].target \in overlapped'
                              \/ \A x \in DOMAIN entry' : entry'[x] # cmd'[q].target
      BY DEF HalfWay
    <2>1. CASE q = p
      BY <2>1, <1>1, <1>2, <1>3
    <2>2. CASE q # p
      BY <2>2, <1>2, <1>3 DEF SInv, HalfWay
    <2> QED
      BY <2>1, <2>2
  <1>6. Sch!EntriesRun'
    BY <1>2, <1>3 DEF SInv, Sch!EntriesRun, Sch!Alike
  <1> QED
    BY <1>3, <1>4, <1>5, <1>6 DEF SInv

\* The entry is taken out, and nothing else runs the target.
LEMMA RemoveEntryStep ==
    ASSUME SInv, NEW p \in Proc, NEW t \in Sch!Target, Sch!RemoveEntry(p, t)
    PROVE  SInv'
  <1> DEFINE c == [at |-> "leave", target |-> t]
  <1>1. c \in [at : {"enter", "leave"}, target : {t}] /\ c.at = "leave" /\ c.target = t
    OBVIOUS
  <1>2. /\ Sch!Starts(p, t) /\ Sch!Goes(p, c)
        /\ worker' = worker /\ asked' = asked \ {t}
        /\ entry' = [x \in DOMAIN entry \ {Sch!Title(t)} |-> entry[x]]
    BY DEF Sch!RemoveEntry, Sch!Without
  <1> HIDE DEF c
  <1>3. /\ OneEach' /\ overlapped \subseteq overlapped' /\ overlapped' \subseteq Sch!Target
        /\ cmd' \in [Proc -> {Sch!Idle} \cup [at : {"enter", "leave"}, target : Sch!Target]]
        /\ cmd'[p] = c /\ \A q \in Proc \ {p} : cmd'[q] = cmd[q]
    BY <1>1, <1>2, StartsStep
  <1>4. /\ DOMAIN entry' = DOMAIN entry \ {Sch!Title(t)}
        /\ \A x \in DOMAIN entry' : entry'[x] = entry[x]
    BY <1>2
  <1>5. ScheduleTyped'
    BY <1>2, <1>3, <1>4 DEF SInv, ScheduleTyped
  <1>6. \A x \in DOMAIN entry' : entry'[x] # t
    BY <1>4 DEF SInv, ScheduleTyped
  <1>7. HalfWay'
    <2> SUFFICES ASSUME NEW q \in Proc
                 PROVE  /\ cmd'[q].at = "enter" => cmd'[q].target \in worker' \cup overlapped'
                        /\ cmd'[q].at = "leave" =>
                              \/ cmd'[q].target \in overlapped'
                              \/ \A x \in DOMAIN entry' : entry'[x] # cmd'[q].target
      BY DEF HalfWay
    <2>1. CASE q = p
      BY <2>1, <1>1, <1>3, <1>6
    <2>2. CASE q # p
      BY <2>2, <1>2, <1>3, <1>4 DEF SInv, HalfWay
    <2> QED
      BY <2>1, <2>2
  <1>8. Sch!EntriesRun'
    <2>1. \A x \in DOMAIN entry' : entry'[x] \in worker' \cup overlapped'
      BY <1>2, <1>3, <1>4 DEF SInv, Sch!EntriesRun
    <2>2. ASSUME NEW u \in asked' \ overlapped', Sch!Alike(u) = {u}
          PROVE  Sch!Title(u) \in DOMAIN entry' /\ entry'[Sch!Title(u)] = u
      <3>1. u \in asked \ overlapped /\ u # t /\ u \in Sch!Target
        BY <1>2, <1>3 DEF SInv, ScheduleTyped
      <3>2. Sch!Title(u) # Sch!Title(t)
        BY <2>2, <3>1 DEF Sch!Alike
      <3> QED
        BY <1>4, <2>2, <3>1, <3>2 DEF SInv, Sch!EntriesRun
    <2> QED
      BY <2>1, <2>2 DEF Sch!EntriesRun, Sch!Alike
  <1> QED
    BY <1>3, <1>5, <1>7, <1>8 DEF SInv

\* A command ends.
LEMMA EndsStep ==
    ASSUME SInv, NEW p \in Proc, Sch!Goes(p, Sch!Idle), overlapped' = overlapped
    PROVE  /\ OneEach'
           /\ cmd' \in [Proc -> {Sch!Idle} \cup [at : {"enter", "leave"}, target : Sch!Target]]
           /\ cmd'[p] = Sch!Idle /\ cmd'[p].at = "idle"
           /\ \A q \in Proc \ {p} : cmd'[q] = cmd[q]
  <1>1. cmd \in [Proc -> {Sch!Idle} \cup [at : {"enter", "leave"}, target : Sch!Target]]
    BY DEF SInv, ScheduleTyped
  <1>2. cmd' = [cmd EXCEPT ![p] = Sch!Idle]
    BY DEF Sch!Goes
  <1>3. cmd'[p] = Sch!Idle /\ \A q \in Proc \ {p} : cmd'[q] = cmd[q]
    BY <1>1, <1>2
  <1>4. cmd' \in [Proc -> {Sch!Idle} \cup [at : {"enter", "leave"}, target : Sch!Target]]
    BY <1>1, <1>2
  <1>5. OneEach'
    <2> SUFFICES ASSUME NEW q \in Proc, NEW r \in Proc, q # r, Commanding(q)', Commanding(r)',
                        cmd'[q].target = cmd'[r].target
                 PROVE  cmd'[q].target \in overlapped'
      BY DEF OneEach
    <2>1. q # p /\ r # p
      BY <1>3 DEF Commanding
    <2> QED
      BY <2>1, <1>3 DEF Commanding, SInv, OneEach
  <1>6. cmd'[p].at = "idle"
    BY <1>3 DEF Sch!Idle
  <1> QED
    BY <1>3, <1>4, <1>5, <1>6

\* The entry is written, in the place of another of its title.
LEMMA EnterStep ==
    ASSUME SInv, NEW p \in Proc, Sch!Enter(p)
    PROVE  SInv'
  <1> DEFINE t == cmd[p].target
             y == Sch!Title(t)
  <1>1. /\ cmd[p].at = "enter" /\ Sch!Goes(p, Sch!Idle)
        /\ worker' = worker /\ overlapped' = overlapped /\ asked' = asked \cup {t}
    BY DEF Sch!Enter, Sch!At
  <1>2. entry' = [x \in DOMAIN entry \cup {y} |-> IF x = y THEN t ELSE entry[x]]
    BY DEF Sch!Enter
  <1>3. Commanding(p) /\ t \in Sch!Target
    BY <1>1, Commands DEF SInv
  <1>4. t \in worker \cup overlapped
    BY <1>1 DEF SInv, HalfWay
  <1> HIDE DEF y
  <1>5. /\ DOMAIN entry' = DOMAIN entry \cup {y} /\ entry'[y] = t
        /\ \A x \in DOMAIN entry \ {y} : entry'[x] = entry[x]
    BY <1>2
  <1>6. /\ OneEach' /\ cmd'[p].at = "idle"
        /\ cmd' \in [Proc -> {Sch!Idle} \cup [at : {"enter", "leave"}, target : Sch!Target]]
        /\ \A q \in Proc \ {p} : cmd'[q] = cmd[q]
    BY <1>1, EndsStep
  <1>7. y = Sch!Title(t)
    BY DEF y
  <1>8. ASSUME NEW q \in Proc \ {p}, cmd[q].at \in {"enter", "leave"}, cmd[q].target = t
        PROVE  t \in overlapped
    BY <1>3, <1>8, Commands DEF SInv, OneEach
  <1> HIDE DEF t
  <1>9. ScheduleTyped'
    <2>1. \A x \in DOMAIN entry' : entry'[x] \in Sch!Target /\ Sch!Title(entry'[x]) = x
      BY <1>3, <1>5, <1>7 DEF SInv, ScheduleTyped
    <2> QED
      BY <2>1, <1>1, <1>3, <1>6 DEF SInv, ScheduleTyped
  <1>10. HalfWay'
    <2> SUFFICES ASSUME NEW q \in Proc
                 PROVE  /\ cmd'[q].at = "enter" => cmd'[q].target \in worker' \cup overlapped'
                        /\ cmd'[q].at = "leave" =>
                              \/ cmd'[q].target \in overlapped'
                              \/ \A x \in DOMAIN entry' : entry'[x] # cmd'[q].target
      BY DEF HalfWay
    <2>1. CASE q = p
      BY <2>1, <1>6
    <2>2. CASE q # p
      <3>1. /\ cmd'[q] = cmd[q]
            /\ cmd[q].at = "enter" => cmd[q].target \in worker \cup overlapped
            /\ cmd[q].at = "leave" =>
                  \/ cmd[q].target \in overlapped
                  \/ \A x \in DOMAIN entry : entry[x] # cmd[q].target
        BY <2>2, <1>6 DEF SInv, HalfWay
      <3> QED
        BY <2>2, <3>1, <1>1, <1>5, <1>8
    <2> QED
      BY <2>1, <2>2
  <1>11. Sch!EntriesRun'
    <2>1. \A x \in DOMAIN entry' : entry'[x] \in worker' \cup overlapped'
      BY <1>1, <1>4, <1>5 DEF SInv, Sch!EntriesRun
    <2>2. ASSUME NEW u \in asked' \ overlapped', Sch!Alike(u) = {u}
          PROVE  Sch!Title(u) \in DOMAIN entry' /\ entry'[Sch!Title(u)] = u
      <3>1. CASE u = t
        BY <3>1, <1>5, <1>7
      <3>2. CASE u # t
        <4>1. Sch!Title(u) # y
          BY <2>2, <3>2, <1>3, <1>7 DEF Sch!Alike
        <4> QED
          BY <4>1, <2>2, <3>2, <1>1, <1>5 DEF SInv, Sch!EntriesRun
      <3> QED
        BY <3>1, <3>2
    <2> QED
      BY <2>1, <2>2 DEF Sch!EntriesRun, Sch!Alike
  <1> QED
    BY <1>6, <1>9, <1>10, <1>11 DEF SInv

\* The worker is taken away, or the command ends with what there is.
LEMMA LeaveStep ==
    ASSUME SInv, NEW p \in Proc, Sch!RemoveWorker(p) \/ Sch!EnterFails(p) \/ Sch!Kill(p)
    PROVE  SInv'
  <1>1. /\ Sch!Goes(p, Sch!Idle) /\ entry' = entry /\ asked' = asked /\ overlapped' = overlapped
        /\ \/ worker' = worker
           \/ cmd[p].at = "leave" /\ worker' = worker \ {cmd[p].target}
    BY DEF Sch!RemoveWorker, Sch!EnterFails, Sch!Kill, Sch!At
  <1>2. /\ OneEach' /\ cmd'[p].at = "idle"
        /\ cmd' \in [Proc -> {Sch!Idle} \cup [at : {"enter", "leave"}, target : Sch!Target]]
        /\ \A q \in Proc \ {p} : cmd'[q] = cmd[q]
    BY <1>1, EndsStep
  <1>3. ScheduleTyped'
    BY <1>1, <1>2 DEF SInv, ScheduleTyped
  <1>4. ASSUME NEW q \in Proc \ {p}, cmd[q].at = "enter"
        PROVE  cmd[q].target \in worker' \cup overlapped
    <2>1. cmd[q].target \in worker \cup overlapped
      BY <1>4 DEF SInv, HalfWay
    <2>2. CASE worker' = worker
      BY <2>1, <2>2
    <2>3. CASE cmd[p].at = "leave" /\ worker' = worker \ {cmd[p].target}
      <3>1. Commanding(p) /\ Commanding(q)
        BY <2>3, <1>4, Commands DEF SInv
      <3>2. cmd[q].target = cmd[p].target => cmd[q].target \in overlapped
        BY <3>1 DEF SInv, OneEach
      <3> QED
        BY <2>1, <2>3, <3>2
    <2> QED
      BY <1>1, <2>2, <2>3
  <1>5. HalfWay'
    <2> SUFFICES ASSUME NEW q \in Proc
                 PROVE  /\ cmd'[q].at = "enter" => cmd'[q].target \in worker' \cup overlapped'
                        /\ cmd'[q].at = "leave" =>
                              \/ cmd'[q].target \in overlapped'
                              \/ \A x \in DOMAIN entry' : entry'[x] # cmd'[q].target
      BY DEF HalfWay
    <2>1. CASE q = p
      BY <2>1, <1>2
    <2>2. CASE q # p
      BY <2>2, <1>1, <1>2, <1>4 DEF SInv, HalfWay
    <2> QED
      BY <2>1, <2>2
  <1>6. Sch!EntriesRun'
    <2>1. \A x \in DOMAIN entry : entry[x] \in worker' \cup overlapped
      BY <1>1 DEF SInv, Sch!EntriesRun, HalfWay
    <2> QED
      BY <2>1, <1>1 DEF SInv, Sch!EntriesRun, Sch!Alike
  <1> QED
    BY <1>2, <1>3, <1>5, <1>6 DEF SInv

\* Every step keeps what commands rely on.
LEMMA ScheduleStep == SInv /\ [Sch!Next]_schVars => SInv'
  <1> SUFFICES ASSUME SInv, [Sch!Next]_schVars
               PROVE  SInv'
    OBVIOUS
  <1>1. CASE UNCHANGED schVars
    BY <1>1 DEF schVars, SInv, ScheduleTyped, OneEach, HalfWay, Commanding, Sch!EntriesRun,
                Sch!Alike
  <1>2. CASE Sch!Next
    BY <1>2, WriteWorkerStep, RemoveEntryStep, EnterStep, LeaveStep DEF Sch!Next
  <1> QED
    BY <1>1, <1>2

-----------------------------------------------------------------------------
(* What ticks record                                                       *)

\* What a tick can come to.
Outcome == {"ok", "awaiting-human", "lock-held", "error"}

\* The variables of Journal have values of their kinds.
JournalTyped ==
    /\ journal \in Seq(Outcome) /\ ended \in Seq(Outcome)
    /\ act \in [Proc -> [at : {"idle", "tick", "apply"}] \cup [at : {"ended"}, outcome : Outcome]]
    /\ silent \in BOOLEAN /\ crossed \in BOOLEAN

\* The ticks that have ended and are not recorded yet, and those with an outcome.
Pending == {p \in Proc : act[p].at = "ended"}
Unrecorded(o) == {p \in Pending : act[p].outcome = o}

\* An outcome ended as often as it is recorded or will be.
Balanced ==
    /\ IsFiniteSet(Pending)
    /\ ~silent => \A o \in Outcome :
          Jrn!Times(o, ended) = Jrn!Times(o, journal) + Cardinality(Unrecorded(o))

\* One at a time, ticks are recorded in the order they end.
InOrder ==
    ~silent /\ ~crossed =>
        \/ Pending = {} /\ ended = journal
        \/ \E p \in Proc : Pending = {p} /\ ended = Append(journal, act[p].outcome)

\* The inductive invariant of Journal.
JInv == JournalTyped /\ Balanced /\ InOrder

\* What one more outcome adds to how often each is there.
LEMMA TimesAppend ==
    ASSUME NEW s \in Seq(Outcome), NEW x \in Outcome, NEW o \in Outcome
    PROVE  /\ Jrn!Times(o, s) \in Nat
           /\ Jrn!Times(o, Append(s, x)) = Jrn!Times(o, s) + IF x = o THEN 1 ELSE 0
  <1> DEFINE A == {i \in DOMAIN s : s[i] = o}
             B == {i \in DOMAIN Append(s, x) : Append(s, x)[i] = o}
             n == Len(s) + 1
  <1>1. DOMAIN s = 1 .. Len(s) /\ Len(s) \in Nat
    OBVIOUS
  <1>2. /\ DOMAIN Append(s, x) = 1 .. n /\ Append(s, x)[n] = x
        /\ \A i \in 1 .. Len(s) : Append(s, x)[i] = s[i]
    OBVIOUS
  <1>3. 1 .. n = 1 .. Len(s) \cup {n} /\ n \notin 1 .. Len(s)
    BY <1>1
  <1>4. IsFiniteSet(A)
    <2>1. A \subseteq 1 .. Len(s)
      BY <1>1
    <2>2. IsFiniteSet(1 .. Len(s))
      BY <1>1, FS_Interval
    <2> QED
      BY <2>1, <2>2, FS_Subset
  <1>5. n \notin A
    BY <1>1
  <1>6. x = o => B = A \cup {n}
    BY <1>1, <1>2, <1>3
  <1>7. x # o => B = A
    BY <1>1, <1>2, <1>3
  <1>8. Cardinality(A) \in Nat
    BY <1>4, FS_CardinalityType
  <1>9. x = o => Cardinality(B) = Cardinality(A) + 1
    BY <1>4, <1>5, <1>6, FS_AddElement
  <1>10. Jrn!Times(o, s) = Cardinality(A) /\ Jrn!Times(o, Append(s, x)) = Cardinality(B)
    BY Counts DEF Jrn!Times
  <1> HIDE DEF A, B
  <1> QED
    BY <1>7, <1>8, <1>9, <1>10

\* At first nothing has ended.
LEMMA JournalInit == Jrn!Init => JInv
  <1> SUFFICES ASSUME Jrn!Init
               PROVE  JInv
    OBVIOUS
  <1>1. /\ act = [p \in Proc |-> [at |-> "idle"]] /\ journal = <<>> /\ ended = <<>>
        /\ silent = FALSE /\ crossed = FALSE
    BY DEF Jrn!Init, Jrn!Idle
  <1>2. Pending = {}
    BY <1>1 DEF Pending
  <1>3. JournalTyped
    <2>1. <<>> \in Seq(Outcome)
      OBVIOUS
    <2> QED
      BY <2>1, <1>1 DEF JournalTyped
  <1>4. Balanced
    <2>1. IsFiniteSet(Pending) /\ Cardinality({}) = 0
      BY <1>2, FS_EmptySet
    <2>2. ASSUME NEW o \in Outcome
          PROVE  Jrn!Times(o, ended) = Jrn!Times(o, journal) + Cardinality(Unrecorded(o))
      <3>1. Unrecorded(o) = {}
        BY <1>2 DEF Unrecorded
      <3>2. Jrn!Times(o, ended) = Jrn!Times(o, journal) /\ Jrn!Times(o, journal) \in Nat
        BY <1>1, <1>3, TimesAppend DEF JournalTyped
      <3> QED
        BY <2>1, <3>1, <3>2
    <2> QED
      BY <2>1, <2>2 DEF Balanced
  <1>5. InOrder
    BY <1>1, <1>2 DEF InOrder
  <1> QED
    BY <1>3, <1>4, <1>5 DEF JInv

\* A process that is not at the journal, before or after, changes nothing of it.
LEMMA BesideStep ==
    ASSUME JInv, NEW p \in Proc, act[p].at # "ended",
           NEW a \in [at : {"idle", "tick", "apply"}], Jrn!Goes(p, a),
           journal' = journal, ended' = ended, crossed' = crossed,
           silent' \in BOOLEAN, silent => silent'
    PROVE  JInv'
  <1>1. /\ journal \in Seq(Outcome) /\ ended \in Seq(Outcome) /\ crossed \in BOOLEAN
        /\ silent \in BOOLEAN
        /\ act \in [Proc -> [at : {"idle", "tick", "apply"}] \cup [at : {"ended"}, outcome : Outcome]]
    BY DEF JInv, JournalTyped
  <1>2. act' = [act EXCEPT ![p] = a] /\ a.at # "ended"
    BY DEF Jrn!Goes
  <1>3. /\ act'[p] = a /\ \A q \in Proc \ {p} : act'[q] = act[q]
        /\ act' \in [Proc -> [at : {"idle", "tick", "apply"}] \cup [at : {"ended"}, outcome : Outcome]]
    BY <1>1, <1>2
  <1>4. Pending' = Pending /\ \A o : Unrecorded(o)' = Unrecorded(o)
    BY <1>2, <1>3 DEF Pending, Unrecorded
  <1>5. JournalTyped'
    BY <1>1, <1>3 DEF JournalTyped
  <1>6. Balanced'
    BY <1>1, <1>4 DEF JInv, Balanced, Jrn!Times
  <1>7. InOrder'
    <2>1. \A q \in Proc : Pending = {q} => act'[q] = act[q]
      BY <1>3 DEF Pending
    <2> QED
      BY <1>1, <1>4, <2>1 DEF JInv, InOrder
  <1> QED
    BY <1>5, <1>6, <1>7 DEF JInv

\* A tick that ends is one more to be recorded.
LEMMA EndsTickStep ==
    ASSUME JInv, NEW p \in Proc, act[p].at # "ended", NEW x \in Outcome, Jrn!EndsTick(p, x),
           journal' = journal, silent' = silent
    PROVE  JInv'
  <1> DEFINE a == [at |-> "ended", outcome |-> x]
  <1>1. /\ journal \in Seq(Outcome) /\ ended \in Seq(Outcome) /\ crossed \in BOOLEAN
        /\ silent \in BOOLEAN
        /\ act \in [Proc -> [at : {"idle", "tick", "apply"}] \cup [at : {"ended"}, outcome : Outcome]]
    BY DEF JInv, JournalTyped
  <1>2. /\ act' = [act EXCEPT ![p] = a] /\ ended' = Append(ended, x)
        /\ crossed' = (crossed \/ \E q \in Proc \ {p} : act[q].at = "ended")
    BY DEF Jrn!EndsTick, Jrn!Goes, Jrn!At
  <1>3. a \in [at : {"ended"}, outcome : Outcome] /\ a.at = "ended" /\ a.outcome = x
    OBVIOUS
  <1> HIDE DEF a
  <1>4. /\ act'[p] = a /\ \A q \in Proc \ {p} : act'[q] = act[q]
        /\ act' \in [Proc -> [at : {"idle", "tick", "apply"}] \cup [at : {"ended"}, outcome : Outcome]]
    BY <1>1, <1>2, <1>3
  <1>5. Pending' = Pending \cup {p} /\ p \notin Pending
    BY <1>3, <1>4 DEF Pending
  <1>6. /\ Unrecorded(x)' = Unrecorded(x) \cup {p}
        /\ \A o : o # x => Unrecorded(o)' = Unrecorded(o)
        /\ \A o : p \notin Unrecorded(o)
    BY <1>3, <1>4, <1>5 DEF Pending, Unrecorded
  <1>7. Append(ended, x) \in Seq(Outcome)
    BY <1>1
  <1>8. JournalTyped'
    BY <1>1, <1>2, <1>4, <1>7 DEF JournalTyped
  <1>9. Balanced'
    <2>1. IsFiniteSet(Pending) /\ IsFiniteSet(Pending')
      BY <1>5, FS_AddElement DEF JInv, Balanced
    <2>2. ASSUME ~silent, NEW o \in Outcome
          PROVE  Jrn!Times(o, ended') = Jrn!Times(o, journal') + Cardinality(Unrecorded(o)')
      <3>1. /\ Jrn!Times(o, ended) = Jrn!Times(o, journal) + Cardinality(Unrecorded(o))
        BY <2>2 DEF JInv, Balanced
      <3>2. IsFiniteSet(Unrecorded(o))
        BY <2>1, FS_Subset DEF Unrecorded
      <3>3. Cardinality(Unrecorded(o)) \in Nat
        BY <3>2, FS_CardinalityType
      <3>4. /\ Jrn!Times(o, ended') = Jrn!Times(o, ended) + IF x = o THEN 1 ELSE 0
            /\ Jrn!Times(o, ended) \in Nat /\ Jrn!Times(o, journal) \in Nat
        BY <1>1, <1>2, TimesAppend
      <3>5. Cardinality(Unrecorded(o)') = Cardinality(Unrecorded(o)) + IF x = o THEN 1 ELSE 0
        <4>1. CASE x = o
          BY <4>1, <1>6, <3>2, FS_AddElement
        <4>2. CASE x # o
          BY <4>2, <1>6, <3>3
        <4> QED
          BY <4>1, <4>2
      <3> QED
        BY <3>1, <3>3, <3>4, <3>5
    <2> QED
      BY <2>1, <2>2 DEF Balanced
  <1>10. InOrder'
    <2> SUFFICES ASSUME ~silent, ~crossed'
                 PROVE  Pending' = {p} /\ ended' = Append(journal', act'[p].outcome)
      BY DEF InOrder
    <2>1. ~crossed /\ Pending = {}
      BY <1>2, <1>5 DEF Pending
    <2>2. ended = journal
      BY <2>1 DEF JInv, InOrder
    <2> QED
      BY <2>1, <2>2, <1>2, <1>3, <1>4, <1>5
  <1> QED
    BY <1>8, <1>9, <1>10 DEF JInv

\* What is recorded was to be recorded.
LEMMA RecordedStep ==
    ASSUME JInv, NEW p \in Proc, Jrn!Records(p), NEW x \in Outcome, act[p].outcome = x
    PROVE  JInv'
  <1> DEFINE a == Jrn!Idle
  <1>1. /\ journal \in Seq(Outcome) /\ ended \in Seq(Outcome) /\ crossed \in BOOLEAN
        /\ silent \in BOOLEAN
        /\ act \in [Proc -> [at : {"idle", "tick", "apply"}] \cup [at : {"ended"}, outcome : Outcome]]
    BY DEF JInv, JournalTyped
  <1>2. /\ act' = [act EXCEPT ![p] = a] /\ journal' = Append(journal, x)
        /\ act[p].at = "ended" /\ ended' = ended /\ crossed' = crossed /\ silent' = silent
    BY DEF Jrn!Records, Jrn!Goes, Jrn!At
  <1>3. a \in [at : {"idle", "tick", "apply"}] /\ a.at = "idle"
    BY DEF Jrn!Idle
  <1>5. p \in Pending /\ x = act[p].outcome
    BY <1>2 DEF Pending
  <1> HIDE DEF a
  <1>6. /\ act'[p] = a /\ \A q \in Proc \ {p} : act'[q] = act[q]
        /\ act' \in [Proc -> [at : {"idle", "tick", "apply"}] \cup [at : {"ended"}, outcome : Outcome]]
    BY <1>1, <1>2, <1>3
  <1>7. Pending' = Pending \ {p}
    BY <1>3, <1>6 DEF Pending
  <1>8. /\ Unrecorded(x)' = Unrecorded(x) \ {p} /\ p \in Unrecorded(x)
        /\ \A o : o # x => Unrecorded(o)' = Unrecorded(o)
    BY <1>5, <1>6, <1>7 DEF Pending, Unrecorded
  <1>9. Append(journal, x) \in Seq(Outcome)
    BY <1>1
  <1>10. JournalTyped'
    BY <1>1, <1>2, <1>6, <1>9 DEF JournalTyped
  <1>11. Balanced'
    <2>1. IsFiniteSet(Pending) /\ IsFiniteSet(Pending')
      BY <1>7, FS_RemoveElement DEF JInv, Balanced
    <2>2. ASSUME ~silent, NEW o \in Outcome
          PROVE  Jrn!Times(o, ended') = Jrn!Times(o, journal') + Cardinality(Unrecorded(o)')
      <3>1. /\ Jrn!Times(o, ended) = Jrn!Times(o, journal) + Cardinality(Unrecorded(o))
        BY <2>2 DEF JInv, Balanced
      <3>2. IsFiniteSet(Unrecorded(o))
        BY <2>1, FS_Subset DEF Unrecorded
      <3>3. Cardinality(Unrecorded(o)) \in Nat
        BY <3>2, FS_CardinalityType
      <3>4. /\ Jrn!Times(o, journal') = Jrn!Times(o, journal) + IF x = o THEN 1 ELSE 0
            /\ Jrn!Times(o, ended) \in Nat /\ Jrn!Times(o, journal) \in Nat
        BY <1>1, <1>2, TimesAppend
      <3>5. Cardinality(Unrecorded(o)') = Cardinality(Unrecorded(o)) - IF x = o THEN 1 ELSE 0
        <4>1. CASE x = o
          BY <4>1, <1>8, <3>2, FS_RemoveElement
        <4>2. CASE x # o
          BY <4>2, <1>8, <3>3
        <4> QED
          BY <4>1, <4>2
      <3> QED
        BY <1>2, <3>1, <3>3, <3>4, <3>5
    <2> QED
      BY <2>1, <2>2, <1>2 DEF Balanced
  <1>12. InOrder'
    <2> SUFFICES ASSUME ~silent, ~crossed
                 PROVE  Pending' = {} /\ ended = Append(journal, x)
      BY <1>2 DEF InOrder
    <2>1. PICK q \in Proc : Pending = {q} /\ ended = Append(journal, act[q].outcome)
      BY <1>5 DEF JInv, InOrder
    <2>2. q = p
      BY <2>1, <1>5
    <2> QED
      BY <2>1, <2>2, <1>5, <1>7
  <1> QED
    BY <1>10, <1>11, <1>12 DEF JInv

\* What is not recorded is known not to be.
LEMMA SilentStep ==
    ASSUME JInv, NEW p \in Proc, Jrn!Goes(p, Jrn!Idle), silent' = TRUE,
           journal' = journal, ended' = ended, crossed' = crossed
    PROVE  JInv'
  <1>1. /\ journal \in Seq(Outcome) /\ ended \in Seq(Outcome) /\ crossed \in BOOLEAN
        /\ act \in [Proc -> [at : {"idle", "tick", "apply"}] \cup [at : {"ended"}, outcome : Outcome]]
    BY DEF JInv, JournalTyped
  <1>2. act' = [act EXCEPT ![p] = Jrn!Idle] /\ Jrn!Idle \in [at : {"idle", "tick", "apply"}]
    BY DEF Jrn!Goes, Jrn!Idle
  <1>3. /\ act' \in [Proc -> [at : {"idle", "tick", "apply"}] \cup [at : {"ended"}, outcome : Outcome]]
        /\ \A q \in Proc \ {p} : act'[q] = act[q]
    BY <1>1, <1>2
  <1>4. JournalTyped'
    BY <1>1, <1>3 DEF JournalTyped
  <1>5. Pending' \subseteq Pending \cup {p}
    BY <1>3 DEF Pending
  <1>6. IsFiniteSet(Pending \cup {p})
    BY FS_AddElement DEF JInv, Balanced
  <1>7. Balanced'
    BY <1>5, <1>6, FS_Subset DEF Balanced
  <1>8. InOrder'
    BY DEF InOrder
  <1> QED
    BY <1>4, <1>7, <1>8 DEF JInv

\* Every step keeps the balance.
LEMMA JournalStep == JInv /\ [Jrn!Next]_jrnVars => JInv'
  <1> SUFFICES ASSUME JInv, [Jrn!Next]_jrnVars
               PROVE  JInv'
    OBVIOUS
  <1>1. /\ [at |-> "tick"] \in [at : {"idle", "tick", "apply"}]
        /\ [at |-> "apply"] \in [at : {"idle", "tick", "apply"}]
        /\ Jrn!Idle \in [at : {"idle", "tick", "apply"}]
    BY DEF Jrn!Idle
  <1>2. silent \in BOOLEAN
    BY DEF JInv, JournalTyped
  <1>3. CASE UNCHANGED <<act, journal, ended, silent, crossed>>
    BY <1>3 DEF JInv, JournalTyped, Balanced, InOrder, Pending, Unrecorded, Jrn!Times
  <1>4. ASSUME NEW p \in Proc, NEW what \in {"tick", "apply"}, Jrn!Begin(p, what)
        PROVE  JInv'
    <2>1. [at |-> what] \in [at : {"idle", "tick", "apply"}]
      BY <1>1
    <2>2. /\ act[p].at # "ended" /\ Jrn!Goes(p, [at |-> what]) /\ silent' = silent
          /\ journal' = journal /\ ended' = ended /\ crossed' = crossed
      BY <1>4 DEF Jrn!Begin, Jrn!At
    <2> QED
      BY <2>1, <2>2, <1>2, BesideStep
  <1>5. ASSUME NEW p \in Proc, Jrn!Refused(p)
        PROVE  JInv'
    BY <1>5, EndsTickStep DEF Jrn!Refused, Jrn!At, Outcome
  <1>6. ASSUME NEW p \in Proc, Jrn!End(p)
        PROVE  JInv'
    <2>1. PICK x \in {"ok", "awaiting-human", "error"} : Jrn!EndsTick(p, x)
      BY <1>6 DEF Jrn!End
    <2> QED
      BY <2>1, <1>6, EndsTickStep DEF Jrn!End, Jrn!At, Outcome
  <1>7. ASSUME NEW p \in Proc, Jrn!EndApply(p)
        PROVE  JInv'
    BY <1>1, <1>2, <1>7, BesideStep DEF Jrn!EndApply, Jrn!At
  <1>8. ASSUME NEW p \in Proc, Jrn!RecordFails(p)
        PROVE  JInv'
    BY <1>8, SilentStep DEF Jrn!RecordFails
  <1>9. ASSUME NEW p \in Proc, Jrn!Stops(p)
        PROVE  JInv'
    <2>1. CASE act[p].at = "apply"
      BY <1>1, <1>2, <1>9, <2>1, BesideStep DEF Jrn!Stops, Jrn!At
    <2>2. CASE act[p].at # "apply"
      BY <1>9, <2>2, SilentStep DEF Jrn!Stops, Jrn!At
    <2> QED
      BY <2>1, <2>2
  <1>10. Jrn!Reclaim => JInv'
    BY <1>3 DEF Jrn!Reclaim
  <1>11. UNCHANGED jrnVars => JInv'
    BY <1>3 DEF jrnVars
  <1>12. ASSUME NEW p \in Proc, Jrn!Records(p)
         PROVE  JInv'
    <2>1. PICK x \in Outcome : act[p].outcome = x
      BY <1>12 DEF Jrn!Records, Jrn!At, JInv, JournalTyped
    <2> QED
      BY <1>12, <2>1, RecordedStep
  <1> QED
    BY <1>4, <1>5, <1>6, <1>7, <1>8, <1>9, <1>10, <1>11, <1>12 DEF Jrn!Next

\* Where nothing is to be recorded any more, the journal is what ended.
LEMMA JournalMeans == JInv => Jrn!JournalExact
  <1> SUFFICES ASSUME JInv, Jrn!Resting, ~silent
               PROVE  /\ \A o \in Jrn!ToSet(ended) \cup Jrn!ToSet(journal) :
                             Jrn!Times(o, ended) = Jrn!Times(o, journal)
                      /\ ~crossed => ended = journal
    BY DEF Jrn!JournalExact, Jrn!Healthy, Jrn!Latest
  <1>1. Pending = {}
    BY DEF Jrn!Resting, Jrn!At, Pending
  <1>2. \A s \in Seq(Outcome) : Jrn!ToSet(s) \subseteq Outcome
    BY DEF Jrn!ToSet
  <1>3. ASSUME NEW o \in Outcome
        PROVE  Jrn!Times(o, ended) = Jrn!Times(o, journal)
    <2>1. Unrecorded(o) = {} /\ Cardinality({}) = 0
      BY <1>1, FS_EmptySet DEF Unrecorded
    <2>2. Jrn!Times(o, ended) = Jrn!Times(o, journal) + Cardinality(Unrecorded(o))
      BY DEF JInv, Balanced
    <2>3. Jrn!Times(o, journal) \in Nat
      BY TimesAppend DEF JInv, JournalTyped
    <2> QED
      BY <2>1, <2>2, <2>3
  <1>4. journal \in Seq(Outcome) /\ ended \in Seq(Outcome)
    BY DEF JInv, JournalTyped
  <1>5. ~crossed => ended = journal
    BY <1>1 DEF JInv, InOrder
  <1> QED
    BY <1>2, <1>3, <1>4, <1>5

-----------------------------------------------------------------------------
(* Sums                                                                    *)

\* A non-empty set of natural numbers has a least one.
LEMMA LeastOf ==
    ASSUME NEW set, set \subseteq Nat, set # {}
    PROVE  \E m \in set : \A k \in set : m <= k
  <1>1. PICK m \in set : \A k \in set : ~ (<<k, m>> \in OpToRel(<, Nat))
    BY WFMin, NatLessThanWellFounded
  <1>2. \A k \in set : ~ (k < m)
    BY <1>1 DEF OpToRel
  <1> QED
    BY <1>2

\* What MapThenSumSet and BagCardinality compute: a sum over each set of
\* some members of S, of the values f has for them, one chosen after another.
AnyOf(s) == CHOOSE x \in s : TRUE
Chosen(f, S, g) ==
    g = [s \in S |-> IF s = {} THEN 0 ELSE f[AnyOf(s)] + g[s \ {AnyOf(s)}]]

\* The same, whichever is taken first.
Additive(f, S, g) ==
    /\ g \in [SUBSET S -> Int] /\ g[{}] = 0
    /\ \A s \in SUBSET S : \A x \in s : g[s] = f[x] + g[s \ {x}]

\* The sets of at most so many members.
UpTo(S, n) == {s \in SUBSET S : Cardinality(s) <= n}

\* There are such sums: those over one member more come of those before.
LEMMA ChosenExists ==
    ASSUME NEW f, NEW S, IsFiniteSet(S)
    PROVE  \E g : Chosen(f, SUBSET S, g)
  <1> DEFINE Bad == {n \in Nat : ~ \E g : Chosen(f, UpTo(S, n), g)}
  <1>1. \A s \in SUBSET S : IsFiniteSet(s) /\ Cardinality(s) \in Nat /\ Cardinality(s) <= Cardinality(S)
    BY FS_Subset, FS_CardinalityType
  <1>2. Cardinality(S) \in Nat /\ UpTo(S, Cardinality(S)) = SUBSET S
    BY <1>1, FS_CardinalityType DEF UpTo
  <1>3. SUFFICES ASSUME Bad # {} PROVE FALSE
    <2>1. ASSUME Bad = {}
          PROVE  \E g : Chosen(f, SUBSET S, g)
      <3>1. \E g : Chosen(f, UpTo(S, Cardinality(S)), g)
        BY <1>2, <2>1
      <3> QED
        BY <1>2, <3>1
    <2> QED
      BY <2>1
  <1>4. PICK n \in Bad : \A k \in Bad : n <= k
    BY <1>3, LeastOf
  <1>5. \A s \in SUBSET S : s # {} => AnyOf(s) \in s
    BY DEF AnyOf
  <1>6. n # 0
    <2> DEFINE g == [s \in UpTo(S, 0) |-> 0]
    <2>1. \A s \in UpTo(S, 0) : s = {}
      BY <1>1, FS_EmptySet DEF UpTo
    <2>2. g = [s \in UpTo(S, 0) |-> IF s = {} THEN 0 ELSE f[AnyOf(s)] + g[s \ {AnyOf(s)}]]
      BY <2>1
    <2> QED
      BY <1>4, <2>2 DEF Chosen
  <1>7. PICK h : Chosen(f, UpTo(S, n - 1), h)
    BY <1>4, <1>6
  <1> DEFINE g == [s \in UpTo(S, n) |-> IF s = {} THEN 0 ELSE f[AnyOf(s)] + h[s \ {AnyOf(s)}]]
  <1>8. ASSUME NEW s \in UpTo(S, n), s # {}
        PROVE  s \ {AnyOf(s)} \in UpTo(S, n - 1)
    <2>1. s \in SUBSET S /\ IsFiniteSet(s) /\ Cardinality(s) \in Nat /\ Cardinality(s) <= n /\ AnyOf(s) \in s
      BY <1>1, <1>5, <1>8 DEF UpTo
    <2>2. Cardinality(s \ {AnyOf(s)}) = Cardinality(s) - 1
      BY <2>1, FS_RemoveElement
    <2> QED
      BY <1>4, <2>1, <2>2 DEF UpTo
  <1>9. \A s \in UpTo(S, n - 1) : s \in UpTo(S, n)
    BY <1>1, <1>4 DEF UpTo
  <1>10. \A s \in UpTo(S, n - 1) : g[s] = h[s]
    BY <1>7, <1>9 DEF Chosen
  <1>11. ASSUME NEW s \in UpTo(S, n)
         PROVE  g[s] = IF s = {} THEN 0 ELSE f[AnyOf(s)] + g[s \ {AnyOf(s)}]
    BY <1>8, <1>10
  <1>12. g = [s \in UpTo(S, n) |-> IF s = {} THEN 0 ELSE f[AnyOf(s)] + g[s \ {AnyOf(s)}]]
    <2> HIDE DEF g
    <2>1. g = [s \in UpTo(S, n) |-> g[s]]
      BY DEF g
    <2> QED
      BY <1>11, <2>1
  <1> QED
    BY <1>4, <1>12 DEF Chosen

\* The order does not matter.
LEMMA SumsAdd ==
    ASSUME NEW S, IsFiniteSet(S), NEW f \in [S -> Int], NEW g, Chosen(f, SUBSET S, g)
    PROVE  Additive(f, S, g)
  <1> DEFINE Good(s) == g[s] \in Int /\ \A x \in s : g[s] = f[x] + g[s \ {x}]
             Bad == {n \in Nat : \E s \in SUBSET S : Cardinality(s) = n /\ ~ Good(s)}
  <1>1. \A s \in SUBSET S : IsFiniteSet(s) /\ Cardinality(s) \in Nat
    BY FS_Subset, FS_CardinalityType
  <1>2. \A s \in SUBSET S : g[s] = IF s = {} THEN 0 ELSE f[AnyOf(s)] + g[s \ {AnyOf(s)}]
    BY DEF Chosen
  <1>3. g = [s \in SUBSET S |-> g[s]]
    BY DEF Chosen
  <1>4. ASSUME Bad # {} PROVE FALSE
    <2>1. PICK n \in Bad : \A k \in Bad : n <= k
      BY <1>4, LeastOf
    <2>2. PICK s \in SUBSET S : Cardinality(s) = n /\ ~ Good(s)
      BY <2>1
    <2> DEFINE c == AnyOf(s)
    <2>3. s # {}
      BY <1>2, <2>2
    <2>4. c \in s /\ g[s] = f[c] + g[s \ {c}]
      BY <1>2, <2>3 DEF AnyOf
    <2> HIDE DEF c
    <2>5. ASSUME NEW t \in SUBSET s, t # s
          PROVE  Good(t)
      <3>1. t \in SUBSET S /\ Cardinality(t) \in Nat /\ IsFiniteSet(s) /\ Cardinality(s) \in Nat
        BY <1>1
      <3>2. Cardinality(t) < n
        BY <2>2, <2>5, <3>1, FS_Subset
      <3> HIDE DEF Good
      <3> QED
        BY <2>1, <3>1, <3>2
    <2>6. f[c] \in Int /\ g[s \ {c}] \in Int /\ g[s] \in Int
      <3>1. s \ {c} \in SUBSET s /\ s \ {c} # s
        BY <2>4
      <3>2. f[c] \in Int /\ g[s \ {c}] \in Int
        BY <2>2, <2>4, <2>5, <3>1
      <3> QED
        BY <2>4, <3>2
    <2>7. ASSUME NEW x \in s
          PROVE  g[s] = f[x] + g[s \ {x}]
      <3>1. CASE x = c
        BY <2>4, <3>1
      <3>2. CASE x # c
        <4>1. x \in s \ {c} /\ c \in s \ {x} /\ (s \ {c}) \ {x} = (s \ {x}) \ {c}
          BY <2>4, <3>2
        <4>2. /\ s \ {c} \in SUBSET s /\ s \ {c} # s /\ s \ {x} \in SUBSET s /\ s \ {x} # s
              /\ (s \ {x}) \ {c} \in SUBSET s /\ (s \ {x}) \ {c} # s
          BY <2>4
        <4>3. g[s \ {c}] = f[x] + g[(s \ {c}) \ {x}]
          BY <2>5, <4>2, <4>1
        <4>4. g[s \ {x}] = f[c] + g[(s \ {x}) \ {c}]
          BY <2>5, <4>2, <4>1
        <4>5. g[(s \ {x}) \ {c}] \in Int
          BY <2>5, <4>2, <4>1
        <4>6. f[x] \in Int
          BY <2>2
        <4>7. g[(s \ {c}) \ {x}] = g[(s \ {x}) \ {c}]
          BY <4>1
        <4> QED
          BY <2>4, <2>6, <4>3, <4>4, <4>5, <4>6, <4>7
      <3> QED
        BY <3>1, <3>2
    <2> QED
      BY <2>2, <2>6, <2>7
  <1>5. \A s \in SUBSET S : Good(s)
    BY <1>1, <1>4
  <1> QED
    BY <1>2, <1>3, <1>5 DEF Additive

\* A sum of ones counts, and one of larger numbers is larger.
LEMMA SumCounts ==
    ASSUME NEW S, IsFiniteSet(S), NEW f \in [S -> Nat \ {0}], NEW g, Additive(f, S, g)
    PROVE  /\ g[S] \in Nat /\ g[S] >= Cardinality(S)
           /\ g[S] = Cardinality(S) <=> \A x \in S : f[x] = 1
  <1> DEFINE Good(s) == /\ g[s] >= Cardinality(s)
                        /\ (\A x \in s : f[x] = 1) => g[s] = Cardinality(s)
             Bad == {n \in Nat : \E s \in SUBSET S : Cardinality(s) = n /\ ~ Good(s)}
  <1>1. \A s \in SUBSET S : IsFiniteSet(s) /\ Cardinality(s) \in Nat /\ g[s] \in Int
    BY FS_Subset, FS_CardinalityType DEF Additive
  <1>2. ASSUME Bad # {} PROVE FALSE
    <2>1. PICK n \in Bad : \A k \in Bad : n <= k
      BY <1>2, LeastOf
    <2>2. PICK s \in SUBSET S : Cardinality(s) = n /\ ~ Good(s)
      BY <2>1
    <2>3. s # {}
      <3>1. Good({})
        <4>1. g[{}] = 0 /\ Cardinality({}) = 0
          BY FS_EmptySet DEF Additive
        <4> QED
          BY <4>1
      <3> QED
        BY <2>2, <3>1
    <2>4. PICK x \in s : TRUE
      BY <2>3
    <2>5. Cardinality(s \ {x}) = n - 1 /\ s \ {x} \in SUBSET S /\ Cardinality(s \ {x}) \in Nat
      BY <1>1, <2>2, FS_RemoveElement
    <2>6. Good(s \ {x})
      BY <2>1, <2>5
    <2>7. g[s] = f[x] + g[s \ {x}] /\ f[x] \in Nat /\ f[x] >= 1
      BY DEF Additive
    <2>8. g[s] >= Cardinality(s)
      BY <1>1, <2>2, <2>5, <2>6, <2>7
    <2>9. (\A y \in s : f[y] = 1) => g[s] = Cardinality(s)
      BY <1>1, <2>2, <2>5, <2>6, <2>7
    <2> QED
      BY <2>2, <2>8, <2>9
  <1>3. \A s \in SUBSET S : Good(s)
    BY <1>1, <1>2
  <1>4. g[S] \in Nat /\ g[S] >= Cardinality(S) /\ ((\A x \in S : f[x] = 1) => g[S] = Cardinality(S))
    BY <1>1, <1>3
  <1>5. ASSUME g[S] = Cardinality(S), NEW x \in S
        PROVE  f[x] = 1
    <2>1. Cardinality(S \ {x}) = Cardinality(S) - 1 /\ S \ {x} \in SUBSET S
      BY FS_RemoveElement
    <2>2. g[S \ {x}] >= Cardinality(S \ {x})
      BY <1>3, <2>1
    <2>3. g[S] = f[x] + g[S \ {x}] /\ f[x] \in Nat /\ f[x] >= 1
      BY DEF Additive
    <2> QED
      BY <1>1, <1>5, <2>1, <2>2, <2>3
  <1> QED
    BY <1>4, <1>5

\* Sets with a bijection between them.
LEMMA ImageSize ==
    ASSUME NEW S, IsFiniteSet(S), NEW f, DOMAIN f = S
    PROVE  LET T == {f[x] : x \in S}
           IN  /\ IsFiniteSet(T) /\ Cardinality(T) \in Nat /\ Cardinality(T) <= Cardinality(S)
               /\ Cardinality(T) = Cardinality(S) <=> \A x, y \in S : f[x] = f[y] => x = y
  <1> DEFINE T == {f[x] : x \in S}
             h == [x \in S |-> f[x]]
  <1>1. h \in Surjection(S, T)
    BY DEF Surjection
  <1>2. h \in Injection(S, T) <=> \A x, y \in S : f[x] = f[y] => x = y
    BY DEF Injection, IsInjective
  <1> HIDE DEF h, T
  <1>3. /\ IsFiniteSet(T) /\ Cardinality(T) <= Cardinality(S)
        /\ Cardinality(T) = Cardinality(S) <=> h \in Injection(S, T)
    BY <1>1, FS_Surjection
  <1> QED
    BY <1>2, <1>3, FS_CardinalityType DEF T

-----------------------------------------------------------------------------
(* Reconciliations                                                         *)

\* The bags of finitely many members of a set.
Bag(S) == UNION {[T -> Nat \ {0}] : T \in {U \in SUBSET S : IsFiniteSet(U)}}

\* What (+) and (-) make.
Plus(a, b) ==
    [e \in DOMAIN a \cup DOMAIN b |-> (IF e \in DOMAIN a THEN a[e] ELSE 0)
                                      + (IF e \in DOMAIN b THEN b[e] ELSE 0)]
Left(a, b) == [e \in DOMAIN a |-> IF e \in DOMAIN b THEN a[e] - b[e] ELSE a[e]]
Minus(a, b) == [e \in {d \in DOMAIN Left(a, b) : Left(a, b)[d] > 0} |-> Left(a, b)[e]]

\* The rows tables of this kind have, and an apply amid a reconciliation.
RowOf == IF kind = "scdType2" THEN Ref!Valid ELSE Ref!Row
Job == [step : {"first", "second", "commit", "audit"}, now : 0 .. MaxTime,
        out : Bag(RowOf), in : Bag(RowOf), held : BOOLEAN]

\* The variables of Refresh have values of their kinds.
RefreshTyped ==
    /\ kind \in {"incrementalByUniqueKey", "scdType2"} /\ refDialect \in {"duckdb", "postgres"}
    /\ at \in [Env -> RefVersion] /\ source \in Ref!Source
    /\ table \in [RefVersion -> Bag(RowOf)]
    /\ job \in [Env -> {Ref!NoJob} \cup Job]
    /\ clock \in 0 .. MaxTime
    /\ latest \in [RefVersion -> [Key -> Value \cup {Absent}]]
    /\ seen \in [RefVersion -> [0 .. MaxTime -> Ref!Source \cup {Ref!None}]]

\* Whoever reconciles has the one connection, and versions have times.
OnDuckdb == refDialect = "duckdb" /\ kind = "scdType2"

\* One connection: one apply.
OneAtATime ==
    refDialect = "duckdb" => \A e, f \in Env : e # f => job[e] = Ref!NoJob \/ job[f] = Ref!NoJob

\* No row of a table is from after a time, or ends after it.
Until(D, t) == \A r \in D : r.from <= t /\ (Ref!Open(r) \/ r.to <= t)

\* An apply has read its time, and on one connection what is in the tables was
\* written by then.
Behind ==
    /\ \A e \in Env : job[e] # Ref!NoJob => job[e].now \in 0 .. clock
    /\ OnDuckdb => \A v \in RefVersion :
          /\ Until(DOMAIN table[v], clock)
          /\ \A e \in Env : job[e] # Ref!NoJob => Until(DOMAIN table[v], job[e].now)

\* An UPDATE takes open rows only.
OutOpen ==
    kind = "scdType2" =>
        \A e \in Env : job[e] # Ref!NoJob => \A r \in DOMAIN job[e].out : Ref!Open(r)

\* What a table returns as of a time, and what the query did.
Pair(r) == [key |-> r.key, val |-> r.val]
ValidAt(D, t) == {r \in D : r.from <= t /\ (Ref!Open(r) \/ t < r.to)}
PairsAt(D, t) == {Pair(r) : r \in ValidAt(D, t)}
Returned(s) == {[key |-> k, val |-> s[k]] : k \in {l \in Key \cup {Null} : s[l] # Absent}}

\* The rows of a table that have a key, and those its last values make.
Keyed(D) == {r \in D : r.key # Null}
Upserts(L) == {[key |-> k, val |-> L[k]] : k \in {m \in Key : L[m] # Absent}}

\* AsOf at every time, those to come too.
AsOfAlways ==
    OnDuckdb => \A v \in RefVersion, t \in 0 .. MaxTime :
        seen[v][t] # Ref!None =>
            PairsAt(DOMAIN table[v], t) = Returned(seen[v][t])

\* The inductive invariant of Refresh.
RInv == RefreshTyped /\ OneAtATime /\ Behind /\ OutOpen /\ Ref!Upserted /\ AsOfAlways

\* A bag is a function to how many there are.
LEMMA BagIs ==
    ASSUME NEW S, NEW b
    PROVE  b \in Bag(S) <=> /\ b \in [DOMAIN b -> Nat \ {0}] /\ DOMAIN b \subseteq S
                            /\ IsFiniteSet(DOMAIN b)
  BY DEF Bag

\* What is in a union of two bags.
LEMMA PlusBag ==
    ASSUME NEW S, NEW a \in Bag(S), NEW b \in Bag(S)
    PROVE  /\ Plus(a, b) \in Bag(S) /\ DOMAIN Plus(a, b) = DOMAIN a \cup DOMAIN b
           /\ \A r : Ref!Copies(r, Plus(a, b)) = Ref!Copies(r, a) + Ref!Copies(r, b)
           /\ \A r : Ref!Copies(r, a) \in Nat /\ Ref!Copies(r, b) \in Nat
  <1>1. /\ a \in [DOMAIN a -> Nat \ {0}] /\ DOMAIN a \subseteq S /\ IsFiniteSet(DOMAIN a)
        /\ b \in [DOMAIN b -> Nat \ {0}] /\ DOMAIN b \subseteq S /\ IsFiniteSet(DOMAIN b)
    BY BagIs
  <1>2. \A r : Ref!Copies(r, a) \in Nat /\ Ref!Copies(r, b) \in Nat
    BY <1>1 DEF Ref!Copies
  <1>3. /\ DOMAIN Plus(a, b) = DOMAIN a \cup DOMAIN b
        /\ \A r \in DOMAIN a \cup DOMAIN b :
              Plus(a, b)[r] = Ref!Copies(r, a) + Ref!Copies(r, b)
    BY DEF Plus, Ref!Copies
  <1>4. Plus(a, b) \in [DOMAIN Plus(a, b) -> Nat \ {0}]
    <2>1. \A r \in DOMAIN a \cup DOMAIN b : Ref!Copies(r, a) + Ref!Copies(r, b) \in Nat \ {0}
      BY <1>1 DEF Ref!Copies
    <2>2. Plus(a, b) = [r \in DOMAIN a \cup DOMAIN b |-> Plus(a, b)[r]]
      BY DEF Plus
    <2> QED
      BY <1>3, <2>1, <2>2
  <1>5. ASSUME NEW r
        PROVE  Ref!Copies(r, Plus(a, b)) = Ref!Copies(r, a) + Ref!Copies(r, b)
    <2>1. CASE r \in DOMAIN a \cup DOMAIN b
      BY <1>3, <2>1 DEF Ref!Copies
    <2>2. CASE r \notin DOMAIN a \cup DOMAIN b
      BY <1>3, <2>2 DEF Ref!Copies
    <2> QED
      BY <2>1, <2>2
  <1>6. IsFiniteSet(DOMAIN Plus(a, b))
    BY <1>1, <1>3, FS_Union
  <1> QED
    BY <1>1, <1>2, <1>3, <1>4, <1>5, <1>6, BagIs

\* What is left of a bag.
LEMMA MinusBag ==
    ASSUME NEW S, NEW a \in Bag(S), NEW b \in Bag(S)
    PROVE  /\ Minus(a, b) \in Bag(S) /\ DOMAIN Minus(a, b) \subseteq DOMAIN a
           /\ \A r : r \notin DOMAIN b => Ref!Copies(r, Minus(a, b)) = Ref!Copies(r, a)
           /\ \A r \in DOMAIN a : r \in DOMAIN Minus(a, b) <=> r \notin DOMAIN b \/ b[r] < a[r]
  <1>1. /\ a \in [DOMAIN a -> Nat \ {0}] /\ DOMAIN a \subseteq S /\ IsFiniteSet(DOMAIN a)
        /\ b \in [DOMAIN b -> Nat \ {0}] /\ DOMAIN b \subseteq S /\ IsFiniteSet(DOMAIN b)
    BY BagIs
  <1>2. /\ DOMAIN Left(a, b) = DOMAIN a
        /\ \A r \in DOMAIN a : Left(a, b)[r] = IF r \in DOMAIN b THEN a[r] - b[r] ELSE a[r]
    BY DEF Left
  <1>3. /\ DOMAIN Minus(a, b) = {d \in DOMAIN a : Left(a, b)[d] > 0}
        /\ \A r \in DOMAIN Minus(a, b) : Minus(a, b)[r] = Left(a, b)[r]
        /\ Minus(a, b) = [r \in DOMAIN Minus(a, b) |-> Minus(a, b)[r]]
    BY <1>2 DEF Minus
  <1>4. \A r \in DOMAIN a : Left(a, b)[r] \in Int
    BY <1>1, <1>2
  <1>5. Minus(a, b) \in [DOMAIN Minus(a, b) -> Nat \ {0}] /\ DOMAIN Minus(a, b) \subseteq S
    BY <1>1, <1>3, <1>4
  <1>6. \A r \in DOMAIN a : r \in DOMAIN Minus(a, b) <=> r \notin DOMAIN b \/ b[r] < a[r]
    BY <1>1, <1>2, <1>3
  <1>7. ASSUME NEW r, r \notin DOMAIN b
        PROVE  Ref!Copies(r, Minus(a, b)) = Ref!Copies(r, a)
    <2>1. CASE r \in DOMAIN a
      BY <1>2, <1>3, <1>6, <1>7, <2>1 DEF Ref!Copies
    <2>2. CASE r \notin DOMAIN a
      BY <1>3, <2>2 DEF Ref!Copies
    <2> QED
      BY <2>1, <2>2
  <1>8. IsFiniteSet(DOMAIN Minus(a, b)) /\ DOMAIN Minus(a, b) \subseteq DOMAIN a
    BY <1>1, <1>3, FS_Subset
  <1> QED
    BY <1>5, <1>6, <1>7, <1>8, BagIs

\* Some rows of a bag, and the bag without them.
LEMMA RestrictedBag ==
    ASSUME NEW S, NEW a \in Bag(S), NEW W, W \subseteq DOMAIN a
    PROVE  /\ Ref!Restricted(a, W) \in Bag(S) /\ DOMAIN Ref!Restricted(a, W) = W
           /\ DOMAIN Minus(a, Ref!Restricted(a, W)) = DOMAIN a \ W
  <1> DEFINE b == Ref!Restricted(a, W)
  <1>1. a \in [DOMAIN a -> Nat \ {0}] /\ DOMAIN a \subseteq S /\ IsFiniteSet(DOMAIN a)
    BY BagIs
  <1>2. DOMAIN b = W /\ b \in [W -> Nat \ {0}] /\ \A r \in W : b[r] = a[r]
    BY <1>1 DEF Ref!Restricted
  <1>3. b \in Bag(S)
    BY <1>1, <1>2, BagIs, FS_Subset
  <1> HIDE DEF b
  <1>4. /\ DOMAIN Minus(a, b) \subseteq DOMAIN a
        /\ \A r \in DOMAIN a : r \in DOMAIN Minus(a, b) <=> r \notin DOMAIN b \/ b[r] < a[r]
    BY <1>3, MinusBag
  <1>5. DOMAIN Minus(a, b) = DOMAIN a \ W
    BY <1>1, <1>2, <1>4
  <1> QED
    BY <1>2, <1>3, <1>5 DEF b

\* Each of a set, once.
LEMMA OnceBag ==
    ASSUME NEW S, NEW W \in SUBSET S, IsFiniteSet(W)
    PROVE  /\ Ref!SetToBag(W) \in Bag(S) /\ DOMAIN Ref!SetToBag(W) = W
           /\ \A r : Ref!Copies(r, Ref!SetToBag(W)) = IF r \in W THEN 1 ELSE 0
  <1>1. DOMAIN Ref!SetToBag(W) = W /\ Ref!SetToBag(W) \in [W -> Nat \ {0}]
        /\ \A r \in W : Ref!SetToBag(W)[r] = 1
    BY DEF Ref!SetToBag
  <1> QED
    BY <1>1, BagIs DEF Ref!Copies

\* None of anything.
LEMMA EmptyIs ==
    ASSUME NEW S
    PROVE  /\ Ref!EmptyBag \in Bag(S) /\ DOMAIN Ref!EmptyBag = {}
           /\ \A r : Ref!Copies(r, Ref!EmptyBag) = 0
  <1>1. DOMAIN Ref!EmptyBag = {} /\ Ref!EmptyBag \in [{} -> Nat \ {0}]
    BY DEF Ref!SetToBag, Ref!EmptyBag
  <1> QED
    BY <1>1, BagIs, FS_EmptySet DEF Ref!Copies

\* What Refresh assumes is among what the instances assume.
LEMMA RefreshAssumed ==
    /\ Key \subseteq Nat /\ IsFiniteSet(Key) /\ Null \notin Int /\ Absent \notin Value
    /\ MaxTime \in Nat /\ RefSources \subseteq Ref!Source /\ Places \subseteq [Env -> RefVersion]
  BY CommandsAssumption DEF Ref!RefreshAssumption, IsFiniteSet, Ref!IsFiniteSet

\* What the query returns are rows, of values it has.
LEMMA QueryRows ==
    ASSUME source \in Ref!Source
    PROVE  /\ Ref!Query \subseteq Ref!Row /\ Ref!Query = Returned(source)
           /\ IsFiniteSet(Ref!Query)
           /\ \A q \in Ref!Query : Pair(q) = q
           /\ \A k \in Key \cup {Null} :
                 (\E q \in Ref!Query : q.key = k) <=> source[k] # Absent
  <1>1. DOMAIN source = Key \cup {Null} /\ \A k \in DOMAIN source : source[k] \in Value \cup {Absent}
    BY DEF Ref!Source
  <1>2. Ref!Query = {[key |-> k, val |-> source[k]] : k \in {l \in DOMAIN source : source[l] # Absent}}
    BY DEF Ref!Query
  <1>3. Ref!Query = Returned(source)
    BY <1>1, <1>2 DEF Returned
  <1>4. Ref!Query \subseteq Ref!Row
    BY <1>1, <1>2 DEF Ref!Row
  <1>5. \A q \in Ref!Query : Pair(q) = q
    BY <1>2 DEF Pair
  <1>6. ASSUME NEW k \in Key \cup {Null}
        PROVE  (\E q \in Ref!Query : q.key = k) <=> source[k] # Absent
    <2>1. ASSUME source[k] # Absent
          PROVE  \E q \in Ref!Query : q.key = k
      <3>1. [key |-> k, val |-> source[k]] \in Ref!Query /\ [key |-> k, val |-> source[k]].key = k
        BY <1>1, <1>2, <2>1
      <3> QED
        BY <3>1
    <2>2. \A q \in Ref!Query : source[q.key] # Absent
      BY <1>2
    <2> QED
      BY <2>1, <2>2
  <1>7. IsFiniteSet(Ref!Query)
    <2> DEFINE ks == {l \in DOMAIN source : source[l] # Absent}
               f == [k \in ks |-> [key |-> k, val |-> source[k]]]
    <2>1. IsFiniteSet(Key \cup {Null})
      BY RefreshAssumed, FS_AddElement
    <2>2. IsFiniteSet(ks)
      BY <1>1, <2>1, FS_Subset
    <2>3. DOMAIN f = ks /\ Ref!Query = {f[k] : k \in ks}
      BY <1>2
    <2> HIDE DEF f, ks
    <2> QED
      BY <2>2, <2>3, ImageSize
  <1> QED
    BY <1>3, <1>4, <1>5, <1>6, <1>7

\* The rows the first statement takes out.
Found(D) ==
    IF kind = "incrementalByUniqueKey"
    THEN {r \in D : r.key # Null /\ \E q \in Ref!Query : q.key = r.key}
    ELSE {r \in D : Ref!Open(r) /\ ~\E q \in Ref!Query : Ref!Same(r, q)}

\* The first statement takes out what it finds, open rows only.
LEMMA FirstStatement ==
    ASSUME NEW rows1 \in Bag(RowOf)
    PROVE  /\ Ref!TakenOut(rows1) = Ref!Restricted(rows1, Found(DOMAIN rows1))
           /\ Ref!TakenOut(rows1) \in Bag(RowOf)
           /\ DOMAIN Ref!TakenOut(rows1) = Found(DOMAIN rows1)
           /\ DOMAIN Minus(rows1, Ref!TakenOut(rows1)) = DOMAIN rows1 \ Found(DOMAIN rows1)
           /\ kind = "scdType2" => \A r \in Found(DOMAIN rows1) : Ref!Open(r)
  <1>1. Ref!TakenOut(rows1) = Ref!Restricted(rows1, Found(DOMAIN rows1))
    BY DEF Ref!TakenOut, Found, Ref!BagToSet
  <1>2. Found(DOMAIN rows1) \subseteq DOMAIN rows1
    BY DEF Found
  <1>3. kind = "scdType2" => \A r \in Found(DOMAIN rows1) : Ref!Open(r)
    BY DEF Found
  <1> QED
    BY <1>1, <1>2, <1>3, RestrictedBag

\* A row with its end, and a new one.
Ended(r, now) == [r EXCEPT !.to = now]

\* A row with its end is a row.
LEMMA EndedRow ==
    ASSUME NEW r \in Ref!Valid, NEW now \in 0 .. MaxTime
    PROVE  /\ Ended(r, now) \in Ref!Valid /\ Ended(r, now).to = now /\ ~Ref!Open(Ended(r, now))
           /\ Ended(r, now).from = r.from /\ Pair(Ended(r, now)) = Pair(r)
  <1>1. /\ Ended(r, now) \in Ref!Valid /\ Ended(r, now).to = now
        /\ Ended(r, now).from = r.from /\ Pair(Ended(r, now)) = Pair(r)
    BY DEF Ended, Ref!Valid, Pair
  <1>2. now # Null
    BY RefreshAssumed
  <1> QED
    BY <1>1, <1>2 DEF Ref!Open

\* The rows that are written back.
LEMMA WrittenBackBag ==
    ASSUME NEW out \in Bag(RowOf), NEW now \in 0 .. MaxTime,
           kind \in {"incrementalByUniqueKey", "scdType2"}
    PROVE  /\ Ref!WrittenBack(out, now) \in Bag(RowOf)
           /\ DOMAIN Ref!WrittenBack(out, now) =
                 IF kind = "scdType2" THEN {Ended(r, now) : r \in DOMAIN out} ELSE {}
           /\ kind = "incrementalByUniqueKey" => Ref!WrittenBack(out, now) = Ref!EmptyBag
  <1>1. CASE kind = "incrementalByUniqueKey"
    <2>1. Ref!WrittenBack(out, now) = Ref!EmptyBag
      BY <1>1 DEF Ref!WrittenBack
    <2> QED
      BY <1>1, <2>1, EmptyIs
  <1>2. CASE kind = "scdType2"
    <2> DEFINE E == {Ended(r, now) : r \in DOMAIN out}
               n(e) == out[CHOOSE r \in DOMAIN out : Ended(r, now) = e]
    <2>1. Ref!WrittenBack(out, now) = [e \in E |-> n(e)]
      BY <1>2 DEF Ref!WrittenBack, Ref!BagToSet, Ended
    <2>2. out \in [DOMAIN out -> Nat \ {0}] /\ DOMAIN out \subseteq Ref!Valid
      BY <1>2, BagIs DEF RowOf
    <2>3. ASSUME NEW e \in E
          PROVE  n(e) \in Nat \ {0}
      <3>1. \E r \in DOMAIN out : Ended(r, now) = e
        OBVIOUS
      <3>2. (CHOOSE r \in DOMAIN out : Ended(r, now) = e) \in DOMAIN out
        BY <3>1
      <3> QED
        BY <2>2, <3>2
    <2>4. E \subseteq Ref!Valid
      BY <2>2, EndedRow
    <2> HIDE DEF n
    <2>7. IsFiniteSet(E)
      <3> DEFINE f == [r \in DOMAIN out |-> Ended(r, now)]
      <3>1. DOMAIN f = DOMAIN out /\ E = {f[r] : r \in DOMAIN out}
        OBVIOUS
      <3>2. IsFiniteSet(DOMAIN out)
        BY BagIs
      <3> HIDE DEF f, E
      <3> QED
        BY <3>1, <3>2, ImageSize
    <2>5. /\ DOMAIN [e \in E |-> n(e)] = E
          /\ [e \in E |-> n(e)] \in [E -> Nat \ {0}]
      BY <2>3
    <2>6. [e \in E |-> n(e)] \in Bag(RowOf)
      BY <1>2, <2>4, <2>5, <2>7, BagIs DEF RowOf
    <2> QED
      BY <1>2, <2>1, <2>5, <2>6
  <1> QED
    BY <1>1, <1>2

New(q, now) == [key |-> q.key, val |-> q.val, from |-> now, to |-> Null]

\* The rows the second statement finds missing.
Missing(D, now) ==
    IF kind = "incrementalByUniqueKey" THEN Ref!Query
    ELSE {New(q, now) : q \in {p \in Ref!Query : ~\E r \in D : Ref!Open(r) /\ Ref!Same(r, p)}}

\* The second statement inserts what it finds missing, each row once.
LEMMA SecondStatement ==
    ASSUME NEW rows1, NEW now \in 0 .. MaxTime, source \in Ref!Source,
           kind \in {"incrementalByUniqueKey", "scdType2"}
    PROVE  /\ Ref!Inserted(rows1, now) \in Bag(RowOf)
           /\ Ref!Inserted(rows1, now) = Ref!SetToBag(Missing(DOMAIN rows1, now))
           /\ DOMAIN Ref!Inserted(rows1, now) = Missing(DOMAIN rows1, now)
           /\ Missing(DOMAIN rows1, now) \subseteq RowOf
           /\ IsFiniteSet(Missing(DOMAIN rows1, now))
  <1>1. Ref!Inserted(rows1, now) = Ref!SetToBag(Missing(DOMAIN rows1, now))
    BY DEF Ref!Inserted, Missing, New, Ref!BagToSet
  <1>2. \A q \in Ref!Row : New(q, now) \in Ref!Valid
    BY DEF New, Ref!Row, Ref!Valid
  <1>3. Missing(DOMAIN rows1, now) \subseteq RowOf
    <2>1. CASE kind = "incrementalByUniqueKey"
      BY <2>1, QueryRows DEF Missing, RowOf
    <2>2. CASE kind = "scdType2"
      BY <2>2, <1>2, QueryRows DEF Missing, RowOf
    <2> QED
      BY <2>1, <2>2
  <1>4. IsFiniteSet(Missing(DOMAIN rows1, now))
    <2>1. CASE kind = "incrementalByUniqueKey"
      BY <2>1, QueryRows DEF Missing
    <2>2. CASE kind = "scdType2"
      <3> DEFINE Q == {p \in Ref!Query : ~\E r \in DOMAIN rows1 : Ref!Open(r) /\ Ref!Same(r, p)}
                 f == [q \in Q |-> New(q, now)]
      <3>1. IsFiniteSet(Q)
        BY QueryRows, FS_Subset
      <3>2. DOMAIN f = Q /\ Missing(DOMAIN rows1, now) = {f[q] : q \in Q}
        BY <2>2 DEF Missing
      <3> HIDE DEF f, Q
      <3> QED
        BY <3>1, <3>2, ImageSize
    <2> QED
      BY <2>1, <2>2
  <1> QED
    BY <1>1, <1>3, <1>4, OnceBag

\* A table with new rows, where some have ended.
After(D, O, now, N) == ((D \ O) \cup {Ended(r, now) : r \in O}) \cup N

\* The table before its last time is as it was.
LEMMA BeforeThen ==
    ASSUME NEW D \in SUBSET Ref!Valid, NEW O \in SUBSET D, \A r \in O : Ref!Open(r),
           NEW now \in 0 .. MaxTime, NEW N, \A r \in N : r.from = now,
           NEW t \in 0 .. MaxTime, t < now
    PROVE  PairsAt(After(D, O, now, N), t) = PairsAt(D, t)
  <1> DEFINE A == After(D, O, now, N)
  <1>5. A = ((D \ O) \cup {Ended(r, now) : r \in O}) \cup N
    BY DEF After
  <1> HIDE DEF A
  <1>1. now \in Int /\ t \in Int /\ now > t
    OBVIOUS
  <1>2. ASSUME NEW r \in ValidAt(A, t)
        PROVE  \E s \in ValidAt(D, t) : Pair(r) = Pair(s)
    <2>1. r \in A /\ r.from <= t /\ (Ref!Open(r) \/ t < r.to)
      BY DEF ValidAt
    <2>2. r \notin N
      BY <1>1, <2>1
    <2>3. CASE r \in D \ O
      BY <2>1, <2>3 DEF ValidAt
    <2>4. CASE r \in {Ended(s, now) : s \in O}
      <3>1. PICK s \in O : r = Ended(s, now)
        BY <2>4
      <3>2. s \in ValidAt(D, t)
        BY <2>1, <3>1, EndedRow DEF ValidAt
      <3> QED
        BY <3>1, <3>2, EndedRow
    <2> QED
      BY <1>5, <2>1, <2>2, <2>3, <2>4
  <1>3. ASSUME NEW s \in ValidAt(D, t)
        PROVE  \E r \in ValidAt(A, t) : Pair(r) = Pair(s)
    <2>1. s \in D /\ s.from <= t /\ (Ref!Open(s) \/ t < s.to)
      BY DEF ValidAt
    <2>2. CASE s \notin O
      BY <1>5, <2>1, <2>2 DEF ValidAt
    <2>3. CASE s \in O
      <3>1. Ended(s, now) \in ValidAt(A, t)
        BY <1>1, <1>5, <2>1, <2>3, EndedRow DEF ValidAt
      <3> QED
        BY <2>3, <3>1, EndedRow
    <2> QED
      BY <2>2, <2>3
  <1>4. ASSUME NEW X, NEW Y, \A r \in X : \E s \in Y : Pair(r) = Pair(s),
               \A s \in Y : \E r \in X : Pair(r) = Pair(s)
        PROVE  {Pair(r) : r \in X} = {Pair(r) : r \in Y}
    BY <1>4
  <1> QED
    BY <1>2, <1>3, <1>4, Zenon DEF PairsAt, A

\* From then on the open rows of the table are the query's.
LEMMA FromThen ==
    ASSUME kind = "scdType2", source \in Ref!Source,
           NEW D \in SUBSET Ref!Valid, NEW now \in 0 .. MaxTime, Until(D, now),
           NEW t \in 0 .. MaxTime, now <= t,
           NEW after, after = (D \ Found(D)) \cup {Ended(r, now) : r \in Found(D)},
           NEW A, A = after \cup Missing(after, now)
    PROVE  PairsAt(A, t) = Returned(source)
  <1>1. /\ Found(D) = {r \in D : Ref!Open(r) /\ ~\E q \in Ref!Query : Ref!Same(r, q)}
        /\ Missing(after, now) = {New(q, now) :
              q \in {p \in Ref!Query : ~\E r \in after : Ref!Open(r) /\ Ref!Same(r, p)}}
    BY DEF Found, Missing
  <1>2. Found(D) \subseteq Ref!Valid /\ now \in Int /\ t \in Int
    BY <1>1
  <1>3. \A r \in Ref!Valid : Pair(r) \in Ref!Row /\ r.from \in Int /\ (~Ref!Open(r) => r.to \in Int)
    BY RefreshAssumed DEF Ref!Valid, Ref!Row, Pair, Ref!Open
  <1>4. \A r \in Ref!Valid, q \in Ref!Row : Ref!Same(r, q) <=> Pair(r) = q
    BY DEF Ref!Same, Pair, Ref!Row
  <1>5. \A q \in Ref!Row : /\ Pair(New(q, now)) = q /\ New(q, now) \in Ref!Valid
                           /\ New(q, now).from = now /\ Ref!Open(New(q, now))
    BY DEF Pair, New, Ref!Row, Ref!Valid, Ref!Open
  <1>6. Ref!Query \subseteq Ref!Row /\ Ref!Query = Returned(source)
    BY QueryRows
  <1>7. ASSUME NEW r \in ValidAt(A, t)
        PROVE  Pair(r) \in Ref!Query
    <2>1. r \in A /\ (Ref!Open(r) \/ t < r.to)
      BY DEF ValidAt
    <2>2. CASE r \in D \ Found(D)
      <3>1. Ref!Open(r)
        BY <1>2, <1>3, <2>1, <2>2 DEF Until
      <3>2. PICK q \in Ref!Query : Ref!Same(r, q)
        BY <1>1, <2>2, <3>1
      <3> QED
        BY <1>4, <1>6, <2>2, <3>2
    <2>3. CASE r \in {Ended(s, now) : s \in Found(D)}
      <3>1. PICK s \in Found(D) : r = Ended(s, now)
        BY <2>3
      <3>2. ~Ref!Open(r) /\ r.to = now
        BY <1>2, <3>1, EndedRow
      <3> QED
        BY <1>2, <2>1, <3>2
    <2>4. CASE r \in Missing(after, now)
      <3>1. PICK q \in Ref!Query : r = New(q, now)
        BY <1>1, <2>4
      <3> QED
        BY <3>1, <1>5, <1>6
    <2> QED
      BY <2>1, <2>2, <2>3, <2>4
  <1>8. ASSUME NEW q \in Ref!Query
        PROVE  \E r \in ValidAt(A, t) : Pair(r) = q
    <2>1. CASE \E r \in after : Ref!Open(r) /\ Ref!Same(r, q)
      <3>1. PICK r \in after : Ref!Open(r) /\ Ref!Same(r, q)
        BY <2>1
      <3>2. r \in D \ Found(D)
        BY <1>2, <3>1, EndedRow
      <3>3. r \in ValidAt(A, t)
        BY <1>2, <1>3, <3>1, <3>2 DEF Until, ValidAt
      <3> QED
        BY <1>4, <1>6, <3>1, <3>2, <3>3
    <2>2. CASE ~\E r \in after : Ref!Open(r) /\ Ref!Same(r, q)
      <3>1. New(q, now) \in A
        BY <1>1, <2>2
      <3>2. New(q, now) \in ValidAt(A, t)
        BY <1>2, <1>5, <1>6, <3>1 DEF ValidAt
      <3> QED
        BY <1>5, <1>6, <3>2
    <2> QED
      BY <2>1, <2>2
  <1>9. PairsAt(A, t) = Ref!Query
    BY <1>7, <1>8 DEF PairsAt
  <1> QED
    BY <1>6, <1>9

\* The rows of a table and what is returned now, of a unique-key model.
LEMMA Replaced ==
    ASSUME kind = "incrementalByUniqueKey", source \in Ref!Source,
           NEW D \in SUBSET Ref!Row, NEW L \in [Key -> Value \cup {Absent}],
           Keyed(D) = Upserts(L),
           NEW M, \A k \in Key : M[k] = IF source[k] # Absent THEN source[k] ELSE L[k]
    PROVE  Keyed((D \ Found(D)) \cup Ref!Query) = Upserts(M)
  <1> DEFINE A == {r \in (D \ Found(D)) \cup Ref!Query : r.key # Null}
             B == {[key |-> k, val |-> M[k]] : k \in {l \in Key : M[l] # Absent}}
  <1>1. Found(D) = {r \in D : r.key # Null /\ \E q \in Ref!Query : q.key = r.key}
    BY DEF Found
  <1>2. Ref!Query = {[key |-> k, val |-> source[k]] : k \in {l \in Key \cup {Null} : source[l] # Absent}}
    BY QueryRows DEF Returned
  <1>3. \A k \in Key : (\E q \in Ref!Query : q.key = k) <=> source[k] # Absent
    BY QueryRows
  <1>4. \A k \in Key : k # Null /\ M[k] = IF source[k] # Absent THEN source[k] ELSE L[k]
    BY RefreshAssumed
  <1>8. {r \in D : r.key # Null} = {[key |-> k, val |-> L[k]] : k \in {l \in Key : L[l] # Absent}}
    BY DEF Keyed, Upserts
  <1>5. ASSUME NEW r \in A
        PROVE  r \in B
    <2>1. CASE r \in D \ Found(D)
      <3>1. PICK k \in Key : L[k] # Absent /\ r = [key |-> k, val |-> L[k]]
        BY <1>8, <2>1
      <3>2. r.key = k
        BY <3>1
      <3>3. source[k] = Absent
        BY <1>1, <1>3, <1>4, <2>1, <3>2
      <3> QED
        BY <1>4, <3>1, <3>3
    <2>2. CASE r \in Ref!Query
      <3>1. PICK k \in Key \cup {Null} : source[k] # Absent /\ r = [key |-> k, val |-> source[k]]
        BY <1>2, <2>2
      <3>2. k \in Key
        BY <3>1
      <3> QED
        BY <1>4, <3>1, <3>2
    <2> QED
      BY <2>1, <2>2
  <1>6. ASSUME NEW r \in B
        PROVE  r \in A
    <2>1. PICK k \in Key : M[k] # Absent /\ r = [key |-> k, val |-> M[k]]
      OBVIOUS
    <2>2. r.key = k
      BY <2>1
    <2>3. CASE source[k] # Absent
      <3>1. r \in Ref!Query
        BY <1>2, <1>4, <2>1, <2>3
      <3> QED
        BY <1>4, <2>2, <3>1
    <2>4. CASE source[k] = Absent
      <3>1. r \in {s \in D : s.key # Null}
        BY <1>4, <1>8, <2>1, <2>4
      <3>2. r \notin Found(D)
        BY <1>1, <1>3, <2>2, <2>4
      <3> QED
        BY <1>4, <2>2, <3>1, <3>2
    <2> QED
      BY <2>3, <2>4
  <1> HIDE DEF A, B
  <1>7. A = B
    BY <1>5, <1>6
  <1> QED
    BY <1>7 DEF A, B, Keyed, Upserts

\* At first the tables are empty.
LEMMA RefreshInit == Ref!Init => RInv
  <1> SUFFICES ASSUME Ref!Init
               PROVE  RInv
    OBVIOUS
  <1>1. /\ kind \in {"incrementalByUniqueKey", "scdType2"} /\ refDialect \in {"duckdb", "postgres"}
        /\ at \in Places /\ source \in RefSources /\ clock = 0
    BY DEF Ref!Init
  <1>2. /\ table = [v \in RefVersion |-> Ref!EmptyBag]
        /\ job = [e \in Env |-> Ref!NoJob]
        /\ latest = [v \in RefVersion |-> [k \in Key |-> Absent]]
        /\ seen = [v \in RefVersion |-> [t \in 0 .. MaxTime |-> Ref!None]]
    BY DEF Ref!Init
  <1>3. Ref!EmptyBag \in Bag(RowOf) /\ DOMAIN Ref!EmptyBag = {}
    BY EmptyIs
  <1>4. RefreshTyped
    <2>1. at \in [Env -> RefVersion] /\ source \in Ref!Source /\ 0 \in 0 .. MaxTime
      BY <1>1, RefreshAssumed
    <2>2. table \in [RefVersion -> Bag(RowOf)] /\ job \in [Env -> {Ref!NoJob} \cup Job]
      BY <1>2, <1>3
    <2>3. latest \in [RefVersion -> [Key -> Value \cup {Absent}]]
      BY <1>2
    <2>4. seen \in [RefVersion -> [0 .. MaxTime -> Ref!Source \cup {Ref!None}]]
      BY <1>2
    <2> QED
      BY <1>1, <2>1, <2>2, <2>3, <2>4 DEF RefreshTyped
  <1>5. OneAtATime /\ OutOpen
    BY <1>2 DEF OneAtATime, OutOpen
  <1>6. Behind
    BY <1>2, <1>3 DEF Behind, Until
  <1>7. Ref!Upserted
    BY <1>2, <1>3 DEF Ref!Upserted, Ref!BagToSet
  <1>8. AsOfAlways
    BY <1>2 DEF AsOfAlways
  <1> QED
    BY <1>4, <1>5, <1>6, <1>7, <1>8 DEF RInv

\* What a step leaves alone stays typed.
Standing == UNCHANGED <<kind, refDialect, at>>

\* The kind of the model decides what rows and applies are.
LEMMA SameRows == Standing => RowOf' = RowOf /\ Job' = Job /\ (OnDuckdb' <=> OnDuckdb)
  BY DEF Standing, RowOf, Job, OnDuckdb

\* The result of the query changes.
LEMMA EditStep ==
    ASSUME RInv, Standing, source' \in RefSources, UNCHANGED <<table, job, clock, latest, seen>>
    PROVE  RInv'
  <1>1. /\ kind' = kind /\ refDialect' = refDialect /\ at' = at /\ table' = table /\ job' = job
        /\ clock' = clock /\ latest' = latest /\ seen' = seen
    BY DEF Standing
  <1>2. source' \in Ref!Source
    BY RefreshAssumed
  <1>3. RefreshTyped'
    BY <1>1, <1>2, SameRows DEF RInv, RefreshTyped
  <1>4. OneAtATime' /\ OutOpen'
    BY <1>1 DEF RInv, OneAtATime, OutOpen
  <1>5. Behind'
    BY <1>1, SameRows DEF RInv, Behind
  <1>6. Ref!Upserted'
    BY <1>1 DEF RInv, Ref!Upserted
  <1>7. AsOfAlways'
    BY <1>1, SameRows DEF RInv, AsOfAlways
  <1> QED
    BY <1>3, <1>4, <1>5, <1>6, <1>7 DEF RInv

\* Time passes.
LEMMA TickStep ==
    ASSUME RInv, Ref!Tick
    PROVE  RInv'
  <1>1. /\ kind' = kind /\ refDialect' = refDialect /\ at' = at /\ table' = table /\ job' = job
        /\ latest' = latest /\ seen' = seen /\ source' = source
        /\ clock < MaxTime /\ clock' = clock + 1
    BY DEF Ref!Tick
  <1>2. Standing
    BY <1>1 DEF Standing
  <1>3. clock \in 0 .. MaxTime /\ clock' \in 0 .. MaxTime /\ 0 .. clock \subseteq 0 .. clock'
    BY <1>1, RefreshAssumed DEF RInv, RefreshTyped
  <1>4. RefreshTyped'
    BY <1>1, <1>2, <1>3, SameRows DEF RInv, RefreshTyped
  <1>5. OneAtATime' /\ OutOpen'
    BY <1>1 DEF RInv, OneAtATime, OutOpen
  <1>6. Behind'
    <2>1. \A e \in Env : job'[e] # Ref!NoJob => job'[e].now \in 0 .. clock'
      BY <1>1, <1>3 DEF RInv, Behind
    <2>2. ASSUME OnDuckdb, NEW v \in RefVersion
          PROVE  Until(DOMAIN table[v], clock')
      <3>1. Until(DOMAIN table[v], clock)
        BY <2>2 DEF RInv, Behind
      <3>2. DOMAIN table[v] \subseteq Ref!Valid
        <4>1. table[v] \in Bag(Ref!Valid)
          BY <2>2 DEF RInv, RefreshTyped, RowOf, OnDuckdb
        <4> QED
          BY <4>1, BagIs
      <3>3. \A r \in Ref!Valid : r.from \in Int /\ (~Ref!Open(r) => r.to \in Int)
        BY DEF Ref!Valid, Ref!Open
      <3> QED
        BY <1>1, <1>3, <3>1, <3>2, <3>3 DEF Until
    <2> QED
      BY <1>1, <1>2, <2>1, <2>2, SameRows DEF RInv, Behind
  <1>7. Ref!Upserted'
    BY <1>1 DEF RInv, Ref!Upserted
  <1>8. AsOfAlways'
    BY <1>1, <1>2, SameRows DEF RInv, AsOfAlways
  <1> QED
    BY <1>4, <1>5, <1>6, <1>7, <1>8 DEF RInv

\* An apply goes on, and the tables are as they were.
LEMMA JobStep ==
    ASSUME RInv, Standing, UNCHANGED <<source, table, clock, latest, seen>>,
           NEW e \in Env, NEW j \in {Ref!NoJob} \cup Job, job' = [job EXCEPT ![e] = j],
           j # Ref!NoJob => /\ refDialect = "duckdb" => \A f \in Env \ {e} : job[f] = Ref!NoJob
                            /\ j.now \in 0 .. clock
                            /\ OnDuckdb => \A v \in RefVersion : Until(DOMAIN table[v], j.now)
                            /\ kind = "scdType2" => \A r \in DOMAIN j.out : Ref!Open(r)
    PROVE  RInv'
  <1>1. /\ kind' = kind /\ refDialect' = refDialect /\ at' = at /\ table' = table
        /\ latest' = latest /\ seen' = seen /\ source' = source /\ clock' = clock
    BY DEF Standing
  <1>2. job \in [Env -> {Ref!NoJob} \cup Job]
    BY DEF RInv, RefreshTyped
  <1>3. /\ job' \in [Env -> {Ref!NoJob} \cup Job] /\ job'[e] = j
        /\ \A f \in Env \ {e} : job'[f] = job[f]
    BY <1>2
  <1>4. RefreshTyped'
    BY <1>1, <1>3, SameRows DEF RInv, RefreshTyped
  <1>5. OneAtATime'
    BY <1>1, <1>3 DEF RInv, OneAtATime
  <1>6. OutOpen'
    BY <1>1, <1>3 DEF RInv, OutOpen
  <1>7. Behind'
    BY <1>1, <1>3, SameRows DEF RInv, Behind
  <1>8. Ref!Upserted'
    BY <1>1 DEF RInv, Ref!Upserted
  <1>9. AsOfAlways'
    BY <1>1, SameRows DEF RInv, AsOfAlways
  <1> QED
    BY <1>4, <1>5, <1>6, <1>7, <1>8, <1>9 DEF RInv

\* What an apply under way has.
LEMMA Jobs ==
    ASSUME RInv, NEW e \in Env
    PROVE  /\ job[e].step = "idle" <=> job[e] = Ref!NoJob
           /\ job[e] # Ref!NoJob =>
                 /\ job[e] \in Job /\ job[e].now \in 0 .. clock /\ job[e].now \in 0 .. MaxTime
                 /\ kind = "scdType2" => \A r \in DOMAIN job[e].out : Ref!Open(r)
                 /\ refDialect = "duckdb" => \A f \in Env \ {e} : job[f] = Ref!NoJob
                 /\ OnDuckdb => \A v \in RefVersion : Until(DOMAIN table[v], job[e].now)
  <1>1. job[e] \in {Ref!NoJob} \cup Job
    BY DEF RInv, RefreshTyped
  <1>2. Ref!NoJob.step = "idle" /\ \A j \in Job : j.step # "idle" /\ j.now \in 0 .. MaxTime
    BY DEF Ref!NoJob, Job
  <1>3. job[e] # Ref!NoJob =>
            /\ job[e].now \in 0 .. clock
            /\ kind = "scdType2" => \A r \in DOMAIN job[e].out : Ref!Open(r)
            /\ refDialect = "duckdb" => \A f \in Env \ {e} : job[f] = Ref!NoJob
            /\ OnDuckdb => \A v \in RefVersion : Until(DOMAIN table[v], job[e].now)
    BY DEF RInv, Behind, OutOpen, OneAtATime
  <1> QED
    BY <1>1, <1>2, <1>3

\* An apply begins, ends, or finds and takes its rows.
LEMMA BeginStep ==
    ASSUME RInv, NEW e \in Env, Ref!Begin(e)
    PROVE  RInv'
  <1> DEFINE j == [step |-> "first", now |-> clock, out |-> Ref!EmptyBag,
                   in |-> Ref!EmptyBag, held |-> FALSE]
  <1>1. /\ Standing /\ UNCHANGED <<source, table, clock, latest, seen>>
        /\ job' = [job EXCEPT ![e] = j]
        /\ refDialect = "duckdb" => \A f \in Env : job[f].step = "idle"
    BY DEF Ref!Begin, Standing
  <1>2. clock \in 0 .. MaxTime /\ clock \in 0 .. clock
    BY DEF RInv, RefreshTyped
  <1>3. j \in Job /\ j.now = clock /\ DOMAIN j.out = {}
    BY <1>2, EmptyIs DEF Job
  <1>4. refDialect = "duckdb" => \A f \in Env : job[f] = Ref!NoJob
    BY <1>1, Jobs
  <1>5. OnDuckdb => \A v \in RefVersion : Until(DOMAIN table[v], clock)
    BY DEF RInv, Behind
  <1> HIDE DEF j
  <1> QED
    BY <1>1, <1>2, <1>3, <1>4, <1>5, JobStep

\* An apply is through.
LEMMA EndStep ==
    ASSUME RInv, NEW e \in Env, Ref!End(e)
    PROVE  RInv'
  BY JobStep DEF Ref!End, Standing

\* Postgres: the first statement has found the rows to take out.
LEMMA FirstStep ==
    ASSUME RInv, NEW e \in Env, Ref!First(e)
    PROVE  RInv'
  <1> DEFINE out == Ref!TakenOut(table[at[e]])
             a == [job[e] EXCEPT !.out = out]
             j == [a EXCEPT !.held = TRUE]
  <1>1. Standing /\ UNCHANGED <<source, table, clock, latest, seen>> /\ job[e].step = "first"
    BY DEF Ref!First, Standing
  <1>2. job' = [job EXCEPT ![e] = j]
    BY DEF Ref!First, RInv, RefreshTyped
  <1>3. table[at[e]] \in Bag(RowOf)
    BY DEF RInv, RefreshTyped
  <1>4. out \in Bag(RowOf) /\ (kind = "scdType2" => \A r \in DOMAIN out : Ref!Open(r))
    BY <1>3, FirstStatement
  <1>5. job[e] # Ref!NoJob
    BY <1>1, Jobs
  <1>6. job[e] \in Job
    BY <1>5, Jobs
  <1> HIDE DEF out
  <1>7. a \in Job /\ a.now = job[e].now /\ a.out = out
    BY <1>4, <1>6 DEF Job
  <1> HIDE DEF a
  <1>8. j \in Job /\ j.now = job[e].now /\ j.out = out
    BY <1>7 DEF Job
  <1> HIDE DEF j
  <1> QED
    BY <1>1, <1>2, <1>4, <1>5, <1>8, Jobs, JobStep

\* Postgres: it takes those that are still there.
LEMMA TakeStep ==
    ASSUME RInv, NEW e \in Env, Ref!Take(e)
    PROVE  RInv'
  <1> DEFINE W == Ref!BagToSet(job[e].out) \cap Ref!BagToSet(table[at[e]])
             out == Ref!Restricted(job[e].out, W)
             in == Ref!WrittenBack(out, job[e].now)
             a == [job[e] EXCEPT !.step = "second"]
             b == [a EXCEPT !.out = out]
             j == [b EXCEPT !.in = in]
  <1>1. Standing /\ UNCHANGED <<source, table, clock, latest, seen>> /\ job[e].step = "first"
    BY DEF Ref!Take, Standing
  <1>2. job' = [job EXCEPT ![e] = j]
    BY DEF Ref!Take, RInv, RefreshTyped
  <1>3. job[e] # Ref!NoJob
    BY <1>1, Jobs
  <1>4. job[e] \in Job /\ kind \in {"incrementalByUniqueKey", "scdType2"}
    BY <1>3, Jobs DEF RInv, RefreshTyped
  <1>5. /\ job[e].out \in Bag(RowOf) /\ job[e].now \in 0 .. MaxTime
        /\ kind = "scdType2" => \A r \in DOMAIN job[e].out : Ref!Open(r)
    BY <1>3, <1>4, Jobs DEF Job
  <1>6. W \subseteq DOMAIN job[e].out
    BY DEF Ref!BagToSet
  <1> HIDE DEF W
  <1>7. out \in Bag(RowOf) /\ DOMAIN out = W
    <2>1. job[e].out \in Bag(RowOf)
      BY <1>5
    <2>2. out \in Bag(RowOf)
      BY <1>6, <2>1, RestrictedBag
    <2> QED
      BY <2>2 DEF Ref!Restricted
  <1> HIDE DEF out
  <1>8. in \in Bag(RowOf)
    BY <1>4, <1>5, <1>7, WrittenBackBag
  <1> HIDE DEF in
  <1>9. a \in Job /\ a.now = job[e].now
    BY <1>4 DEF Job
  <1> HIDE DEF a
  <1>10. b \in Job /\ b.now = job[e].now /\ b.out = out
    BY <1>7, <1>9 DEF Job
  <1> HIDE DEF b
  <1>11. j \in Job /\ j.now = job[e].now /\ j.out = out
    BY <1>8, <1>10 DEF Job
  <1> HIDE DEF j
  <1>12. kind = "scdType2" => \A r \in DOMAIN out : Ref!Open(r)
    BY <1>5, <1>6, <1>7
  <1> QED
    BY <1>1, <1>2, <1>3, <1>11, <1>12, Jobs, JobStep

\* Postgres: the second statement.
LEMMA SecondStep ==
    ASSUME RInv, NEW e \in Env, Ref!Second(e)
    PROVE  RInv'
  <1> DEFINE mine == Plus(Minus(table[at[e]], job[e].out), job[e].in)
             new == Ref!Inserted(mine, job[e].now)
             in == Plus(job[e].in, new)
             a == [job[e] EXCEPT !.step = "commit"]
             j == [a EXCEPT !.in = in]
  <1>1. Standing /\ UNCHANGED <<source, table, clock, latest, seen>> /\ job[e].step = "second"
    BY DEF Ref!Second, Standing
  <1>2. job' = [job EXCEPT ![e] = j]
    BY DEF Ref!Second, RInv, RefreshTyped, Ref!(+), Ref!(-), Plus, Minus, Left
  <1>3. job[e] # Ref!NoJob
    BY <1>1, Jobs
  <1>4. /\ job[e] \in Job /\ kind \in {"incrementalByUniqueKey", "scdType2"}
        /\ source \in Ref!Source
    BY <1>3, Jobs DEF RInv, RefreshTyped
  <1>5. job[e].in \in Bag(RowOf) /\ job[e].now \in 0 .. MaxTime
    BY <1>3, <1>4, Jobs DEF Job
  <1> HIDE DEF mine
  <1>6. new \in Bag(RowOf)
    BY <1>4, <1>5, SecondStatement
  <1> HIDE DEF new
  <1>7. in \in Bag(RowOf)
    BY <1>5, <1>6, PlusBag
  <1> HIDE DEF in
  <1>8. a \in Job /\ a.now = job[e].now /\ a.out = job[e].out
    BY <1>4 DEF Job
  <1> HIDE DEF a
  <1>9. j \in Job /\ j.now = job[e].now /\ j.out = job[e].out
    BY <1>7, <1>8 DEF Job
  <1> HIDE DEF j
  <1> QED
    BY <1>1, <1>2, <1>3, <1>9, Jobs, JobStep

\* A table after the first statement, and after both.
AfterFirst(b, now) ==
    Plus(Minus(b, Ref!TakenOut(b)), Ref!WrittenBack(Ref!TakenOut(b), now))
AfterBoth(b, now) == Plus(AfterFirst(b, now), Ref!Inserted(AfterFirst(b, now), now))

\* The rows of a table after the first statement.
Rewritten(D, now) ==
    (D \ Found(D)) \cup IF kind = "scdType2" THEN {Ended(r, now) : r \in Found(D)} ELSE {}

\* What both statements leave, and what they do to a row that is closed.
LEMMA BothStatements ==
    ASSUME NEW b \in Bag(RowOf), NEW now \in 0 .. MaxTime, source \in Ref!Source,
           kind \in {"incrementalByUniqueKey", "scdType2"}
    PROVE  LET W == Rewritten(DOMAIN b, now)
           IN /\ AfterBoth(b, now) \in Bag(RowOf)
              /\ DOMAIN AfterBoth(b, now) = W \cup Missing(W, now)
              /\ Missing(W, now) \subseteq RowOf
              /\ kind = "incrementalByUniqueKey" =>
                    \A r : Ref!Copies(r, AfterBoth(b, now))
                           = (IF r \in Found(DOMAIN b) THEN 0 ELSE Ref!Copies(r, b))
                             + IF r \in Ref!Query THEN 1 ELSE 0
              /\ kind = "scdType2" =>
                    \A r : ~Ref!Open(r) =>
                        Ref!Copies(r, AfterBoth(b, now)) >= Ref!Copies(r, b)
  <1> DEFINE out == Ref!TakenOut(b)
             rest == Minus(b, out)
             back == Ref!WrittenBack(out, now)
             first == AfterFirst(b, now)
             new == Ref!Inserted(first, now)
             W == Rewritten(DOMAIN b, now)
  <1>1. /\ out \in Bag(RowOf) /\ DOMAIN out = Found(DOMAIN b)
        /\ DOMAIN rest = DOMAIN b \ Found(DOMAIN b)
        /\ kind = "scdType2" => \A r \in Found(DOMAIN b) : Ref!Open(r)
    BY FirstStatement
  <1>2. first = Plus(rest, back) /\ AfterBoth(b, now) = Plus(first, new)
    BY DEF AfterFirst, AfterBoth
  <1> HIDE DEF out, first
  <1>3. /\ rest \in Bag(RowOf)
        /\ \A r : r \notin Found(DOMAIN b) => Ref!Copies(r, rest) = Ref!Copies(r, b)
    BY <1>1, MinusBag
  <1>4. /\ back \in Bag(RowOf)
        /\ DOMAIN back = IF kind = "scdType2" THEN {Ended(r, now) : r \in Found(DOMAIN b)} ELSE {}
        /\ kind = "incrementalByUniqueKey" => back = Ref!EmptyBag
    BY <1>1, WrittenBackBag
  <1> HIDE DEF rest, back
  <1>5. /\ first \in Bag(RowOf) /\ DOMAIN first = DOMAIN rest \cup DOMAIN back
        /\ \A r : /\ Ref!Copies(r, first) = Ref!Copies(r, rest) + Ref!Copies(r, back)
                  /\ Ref!Copies(r, rest) \in Nat /\ Ref!Copies(r, back) \in Nat
    <2>1. rest \in Bag(RowOf) /\ back \in Bag(RowOf)
      BY <1>3, <1>4
    <2>2. Plus(rest, back) \in Bag(RowOf) /\ DOMAIN Plus(rest, back) = DOMAIN rest \cup DOMAIN back
      BY <2>1, PlusBag
    <2>3. ASSUME NEW r
          PROVE  /\ Ref!Copies(r, Plus(rest, back)) = Ref!Copies(r, rest) + Ref!Copies(r, back)
                 /\ Ref!Copies(r, rest) \in Nat /\ Ref!Copies(r, back) \in Nat
      BY <2>1, PlusBag
    <2> QED
      BY <1>2, <2>2, <2>3
  <1>6. DOMAIN first = W
    BY <1>1, <1>4, <1>5 DEF Rewritten
  <1>7. /\ new \in Bag(RowOf) /\ new = Ref!SetToBag(Missing(W, now))
        /\ DOMAIN new = Missing(W, now) /\ Missing(W, now) \subseteq RowOf
    BY <1>6, SecondStatement
  <1> HIDE DEF new, W
  <1>8. /\ AfterBoth(b, now) \in Bag(RowOf) /\ DOMAIN AfterBoth(b, now) = W \cup Missing(W, now)
        /\ \A r : /\ Ref!Copies(r, AfterBoth(b, now)) = Ref!Copies(r, first) + Ref!Copies(r, new)
                  /\ Ref!Copies(r, new) \in Nat
    <2>1. first \in Bag(RowOf) /\ new \in Bag(RowOf)
      BY <1>5, <1>7
    <2>2. Plus(first, new) \in Bag(RowOf) /\ DOMAIN Plus(first, new) = DOMAIN first \cup DOMAIN new
      BY <2>1, PlusBag
    <2>3. ASSUME NEW r
          PROVE  /\ Ref!Copies(r, Plus(first, new)) = Ref!Copies(r, first) + Ref!Copies(r, new)
                 /\ Ref!Copies(r, new) \in Nat
      BY <2>1, PlusBag
    <2> QED
      BY <1>2, <1>6, <1>7, <2>2, <2>3
  <1>9. ASSUME kind = "incrementalByUniqueKey", NEW r
        PROVE  Ref!Copies(r, AfterBoth(b, now))
               = (IF r \in Found(DOMAIN b) THEN 0 ELSE Ref!Copies(r, b))
                 + IF r \in Ref!Query THEN 1 ELSE 0
    <2>1. Ref!Copies(r, back) = 0
      BY <1>4, <1>9, EmptyIs
    <2>2. Missing(W, now) = Ref!Query
      BY <1>9 DEF Missing
    <2>3. Ref!Copies(r, new) = IF r \in Ref!Query THEN 1 ELSE 0
      BY <1>4, <1>7, <2>2, OnceBag, QueryRows
    <2>4. r \in Found(DOMAIN b) => Ref!Copies(r, rest) = 0
      BY <1>1 DEF Ref!Copies
    <2> QED
      BY <1>3, <1>5, <1>8, <2>1, <2>3, <2>4
  <1>10. ASSUME kind = "scdType2", NEW r, ~Ref!Open(r)
         PROVE  Ref!Copies(r, AfterBoth(b, now)) >= Ref!Copies(r, b)
    <2>1. r \notin Found(DOMAIN b)
      BY <1>1, <1>10
    <2> QED
      BY <1>3, <1>5, <1>8, <2>1
  <1> QED
    BY <1>7, <1>8, <1>9, <1>10 DEF W

\* On one connection a reconciliation is both statements.
LEMMA ReconcileIs ==
    ASSUME RInv, NEW e \in Env, Ref!Reconcile(e)
    PROVE  LET v == at[e]
               now == job[e].now
           IN /\ refDialect = "duckdb" /\ v \in RefVersion /\ now \in 0 .. MaxTime /\ now \in 0 .. clock
              /\ table[v] \in Bag(RowOf) /\ source \in Ref!Source
              /\ job[e] \in Job /\ job[e] # Ref!NoJob
              /\ table' = [table EXCEPT ![v] = AfterBoth(table[v], now)]
              /\ job' = [job EXCEPT ![e] = [job[e] EXCEPT !.step = "audit"]]
              /\ latest' = [latest EXCEPT ![v] = [k \in Key |->
                               IF source[k] # Absent THEN source[k] ELSE latest[v][k]]]
              /\ seen' = [seen EXCEPT ![v] = [t \in 0 .. MaxTime |->
                               IF t >= now THEN source ELSE seen[v][t]]]
              /\ Standing /\ UNCHANGED <<source, clock>>
  <1>1. /\ job[e].step = "first" /\ refDialect = "duckdb"
        /\ Standing /\ UNCHANGED <<source, clock>>
    BY DEF Ref!Reconcile, Standing
  <1>2. job[e] # Ref!NoJob
    BY <1>1, Jobs
  <1>3. job[e] \in Job /\ job[e].now \in 0 .. MaxTime /\ job[e].now \in 0 .. clock
    BY <1>2, Jobs
  <1>4. at[e] \in RefVersion /\ table[at[e]] \in Bag(RowOf) /\ source \in Ref!Source
    BY DEF RInv, RefreshTyped
  <1>5. table' = [table EXCEPT ![at[e]] = AfterBoth(table[at[e]], job[e].now)]
    BY DEF Ref!Reconcile, AfterBoth, AfterFirst, Ref!(+), Ref!(-), Plus, Minus, Left
  <1>6. job' = [job EXCEPT ![e] = [job[e] EXCEPT !.step = "audit"]]
    BY DEF Ref!Reconcile
  <1>7. latest' = [latest EXCEPT ![at[e]] = [k \in Key |->
                      IF source[k] # Absent THEN source[k] ELSE latest[at[e]][k]]]
    BY DEF Ref!Reconcile, Ref!Recorded
  <1>8. seen' = [seen EXCEPT ![at[e]] = [t \in 0 .. MaxTime |->
                      IF t >= job[e].now THEN source ELSE seen[at[e]][t]]]
    BY DEF Ref!Reconcile, Ref!Recorded
  <1> QED
    BY <1>1, <1>2, <1>3, <1>4, <1>5, <1>6, <1>7, <1>8

\* One connection: both statements at once.
LEMMA ReconcileStep ==
    ASSUME RInv, NEW e \in Env, Ref!Reconcile(e)
    PROVE  RInv'
  <1> DEFINE v == at[e]
             now == job[e].now
             D == DOMAIN table[v]
             W == Rewritten(D, now)
             b == AfterBoth(table[v], now)
             j == [job[e] EXCEPT !.step = "audit"]
             l == [k \in Key |-> IF source[k] # Absent THEN source[k] ELSE latest[v][k]]
             s == [t \in 0 .. MaxTime |-> IF t >= now THEN source ELSE seen[v][t]]
  <1>1. /\ refDialect = "duckdb" /\ v \in RefVersion /\ now \in 0 .. MaxTime /\ now \in 0 .. clock
        /\ table[v] \in Bag(RowOf) /\ source \in Ref!Source
        /\ job[e] \in Job /\ job[e] # Ref!NoJob
        /\ table' = [table EXCEPT ![v] = b] /\ job' = [job EXCEPT ![e] = j]
        /\ latest' = [latest EXCEPT ![v] = l] /\ seen' = [seen EXCEPT ![v] = s]
        /\ Standing /\ source' = source /\ clock' = clock
    BY ReconcileIs
  <1>2. /\ kind \in {"incrementalByUniqueKey", "scdType2"} /\ clock \in 0 .. MaxTime
        /\ table \in [RefVersion -> Bag(RowOf)] /\ job \in [Env -> {Ref!NoJob} \cup Job]
        /\ latest \in [RefVersion -> [Key -> Value \cup {Absent}]]
        /\ seen \in [RefVersion -> [0 .. MaxTime -> Ref!Source \cup {Ref!None}]]
    BY DEF RInv, RefreshTyped
  <1>3. /\ b \in Bag(RowOf) /\ DOMAIN b = W \cup Missing(W, now) /\ Missing(W, now) \subseteq RowOf
        /\ kind = "incrementalByUniqueKey" =>
              \A r : Ref!Copies(r, b) = (IF r \in Found(D) THEN 0 ELSE Ref!Copies(r, table[v]))
                                        + IF r \in Ref!Query THEN 1 ELSE 0
    BY <1>1, <1>2, BothStatements
  <1>4. j \in Job /\ j # Ref!NoJob /\ j.now = now /\ j.out = job[e].out
    BY <1>1 DEF Job, Ref!NoJob
  <1>5. D \subseteq RowOf /\ table[v] \in [D -> Nat \ {0}]
    BY <1>1, BagIs
  <1>6. /\ kind' = kind /\ refDialect' = refDialect /\ at' = at
        /\ RowOf' = RowOf /\ Job' = Job /\ (OnDuckdb' <=> OnDuckdb)
    BY <1>1, SameRows DEF Standing
  <1>7. /\ l \in [Key -> Value \cup {Absent}]
        /\ s \in [0 .. MaxTime -> Ref!Source \cup {Ref!None}]
        /\ \A t \in 0 .. MaxTime : s[t] = IF t >= now THEN source ELSE seen[v][t]
        /\ \A k \in Key : l[k] = IF source[k] # Absent THEN source[k] ELSE latest[v][k]
    <2>1. \A k \in Key : source[k] \in Value \cup {Absent} /\ latest[v][k] \in Value \cup {Absent}
      BY <1>1, <1>2 DEF Ref!Source
    <2>2. \A t \in 0 .. MaxTime : seen[v][t] \in Ref!Source \cup {Ref!None}
      BY <1>1, <1>2
    <2>3. l \in [Key -> Value \cup {Absent}]
      BY <2>1
    <2>4. s \in [0 .. MaxTime -> Ref!Source \cup {Ref!None}]
      BY <1>1, <2>2
    <2> QED
      BY <2>3, <2>4
  <1>8. /\ \A f \in Env \ {e} : job[f] = Ref!NoJob
        /\ OnDuckdb => \A w \in RefVersion : Until(DOMAIN table[w], now)
        /\ kind = "scdType2" => \A r \in DOMAIN job[e].out : Ref!Open(r)
    BY <1>1, Jobs
  <1> HIDE DEF b, j, l, s
  <1>9. /\ table' \in [RefVersion -> Bag(RowOf)] /\ table'[v] = b
        /\ \A w \in RefVersion \ {v} : table'[w] = table[w]
    BY <1>1, <1>2, <1>3
  <1>10. /\ job' \in [Env -> {Ref!NoJob} \cup Job] /\ job'[e] = j
         /\ \A f \in Env \ {e} : job'[f] = Ref!NoJob
    BY <1>1, <1>2, <1>4, <1>8
  <1>11. /\ latest' \in [RefVersion -> [Key -> Value \cup {Absent}]] /\ latest'[v] = l
         /\ \A w \in RefVersion \ {v} : latest'[w] = latest[w]
    BY <1>1, <1>2, <1>7
  <1>12. /\ seen' \in [RefVersion -> [0 .. MaxTime -> Ref!Source \cup {Ref!None}]] /\ seen'[v] = s
         /\ \A w \in RefVersion \ {v} : seen'[w] = seen[w]
    BY <1>1, <1>2, <1>7
  <1>13. RefreshTyped'
    BY <1>1, <1>6, <1>9, <1>10, <1>11, <1>12 DEF RInv, RefreshTyped
  <1>14. OneAtATime'
    BY <1>10 DEF OneAtATime
  <1>15. OutOpen'
    BY <1>4, <1>6, <1>8, <1>10 DEF OutOpen
  <1>16. ASSUME OnDuckdb
         PROVE  /\ W = (D \ Found(D)) \cup {Ended(r, now) : r \in Found(D)}
                /\ D \subseteq Ref!Valid /\ Found(D) \subseteq D /\ Until(D, now)
                /\ \A r \in Found(D) : Ref!Open(r)
                /\ Missing(W, now) \subseteq Ref!Valid
                /\ \A r \in Missing(W, now) : r.from = now /\ Ref!Open(r)
    BY <1>1, <1>3, <1>5, <1>8, <1>16 DEF OnDuckdb, RowOf, Rewritten, Found, Missing, New, Ref!Open
  <1> HIDE DEF W
  <1>17. Behind'
    <2>1. \A f \in Env : job'[f] # Ref!NoJob => f = e /\ job'[f].now = now /\ now \in 0 .. clock'
      BY <1>1, <1>4, <1>10
    <2>2. ASSUME OnDuckdb
          PROVE  Until(DOMAIN b, now)
      <3>1. \A r \in W : r.from <= now /\ (Ref!Open(r) \/ r.to <= now)
        <4>1. ASSUME NEW r \in Found(D)
              PROVE  Ended(r, now).from <= now /\ Ended(r, now).to <= now
          BY <1>1, <1>16, <2>2, EndedRow DEF Until
        <4> QED
          BY <1>16, <2>2, <4>1 DEF Until
      <3>2. now <= now
        BY <1>1
      <3> QED
        BY <1>3, <1>16, <2>2, <3>1, <3>2 DEF Until
    <2>3. ASSUME OnDuckdb, NEW w \in RefVersion
          PROVE  Until(DOMAIN table'[w], now)
      BY <1>8, <1>9, <2>2, <2>3
    <2>4. ASSUME OnDuckdb, NEW w \in RefVersion
          PROVE  Until(DOMAIN table'[w], clock)
      <3>1. DOMAIN table'[w] \subseteq Ref!Valid
        <4>1. table'[w] \in Bag(Ref!Valid)
          BY <1>9, <2>4 DEF OnDuckdb, RowOf
        <4> QED
          BY <4>1, BagIs
      <3>2. \A r \in Ref!Valid : r.from \in Int /\ (~Ref!Open(r) => r.to \in Int)
        BY DEF Ref!Valid, Ref!Open
      <3>3. now \in Int /\ clock \in Int /\ now <= clock
        BY <1>1, <1>2
      <3> QED
        BY <2>3, <2>4, <3>1, <3>2, <3>3 DEF Until
    <2> QED
      BY <1>1, <1>6, <2>1, <2>3, <2>4 DEF Behind
  <1>18. AsOfAlways'
    <2> SUFFICES ASSUME OnDuckdb, NEW w \in RefVersion, NEW t \in 0 .. MaxTime,
                        seen'[w][t] # Ref!None
                 PROVE  PairsAt(DOMAIN table'[w], t) = Returned(seen'[w][t])
      BY <1>6 DEF AsOfAlways
    <2>1. seen[w][t] # Ref!None =>
              PairsAt(DOMAIN table[w], t) = Returned(seen[w][t])
      BY DEF RInv, AsOfAlways
    <2>2. CASE w # v
      BY <1>9, <1>12, <2>1, <2>2
    <2>3. CASE w = v /\ t < now
      <3>1. PairsAt(DOMAIN b, t) = PairsAt(D, t)
        <4>1. DOMAIN b = After(D, Found(D), now, Missing(W, now))
          BY <1>3, <1>16 DEF After
        <4>2. /\ D \in SUBSET Ref!Valid /\ Found(D) \in SUBSET D
              /\ \A r \in Found(D) : Ref!Open(r)
              /\ \A r \in Missing(W, now) : r.from = now
          BY <1>16
        <4>3. now \in 0 .. MaxTime /\ t \in 0 .. MaxTime /\ t < now
          BY <1>1, <2>3
        <4> QED
          BY <4>1, <4>2, <4>3, BeforeThen
      <3>2. seen'[w][t] = seen[w][t]
        BY <1>1, <1>7, <1>12, <2>3
      <3> QED
        BY <1>9, <2>1, <2>3, <3>1, <3>2
    <2>4. CASE w = v /\ now <= t
      <3>1. PairsAt(W \cup Missing(W, now), t) = Returned(source)
        BY <1>1, <1>16, <2>4, FromThen DEF OnDuckdb
      <3>2. seen'[w][t] = source
        BY <1>1, <1>7, <1>12, <2>4
      <3> QED
        BY <1>3, <1>9, <2>4, <3>1, <3>2
    <2> QED
      BY <1>1, <2>2, <2>3, <2>4
  <1>19. Ref!Upserted'
    <2> SUFFICES ASSUME kind = "incrementalByUniqueKey", NEW w \in RefVersion
                 PROVE  /\ Keyed(DOMAIN table'[w]) = Upserts(latest'[w])
                        /\ \A r \in Keyed(DOMAIN table'[w]) : Ref!Copies(r, table'[w]) = 1
      BY <1>6 DEF Ref!Upserted, Ref!BagToSet, Keyed, Upserts
    <2>1. /\ Keyed(DOMAIN table[w]) = Upserts(latest[w])
          /\ \A r \in Keyed(DOMAIN table[w]) : Ref!Copies(r, table[w]) = 1
      BY <1>1 DEF RInv, Ref!Upserted, Ref!BagToSet, Keyed, Upserts
    <2>2. CASE w # v
      BY <1>9, <1>11, <2>1, <2>2
    <2>3. CASE w = v
      <3>1. DOMAIN b = (D \ Found(D)) \cup Ref!Query
        BY <1>3 DEF W, Rewritten, Missing
      <3>2. D \subseteq Ref!Row /\ latest[v] \in [Key -> Value \cup {Absent}]
        BY <1>1, <1>2, <1>5 DEF RowOf
      <3>3. Keyed(DOMAIN b) = Upserts(l)
        <4>1. D \in SUBSET Ref!Row /\ kind = "incrementalByUniqueKey" /\ source \in Ref!Source
          BY <1>1, <3>2
        <4>2. Keyed(D) = Upserts(latest[v])
          BY <2>1, <2>3
        <4>3. \A k \in Key : l[k] = IF source[k] # Absent THEN source[k] ELSE latest[v][k]
          BY <1>7
        <4>4. Keyed((D \ Found(D)) \cup Ref!Query) = Upserts(l)
          BY <3>2, <4>1, <4>2, <4>3, Replaced
        <4> QED
          BY <3>1, <4>4
      <3>4. ASSUME NEW r \in Keyed(DOMAIN b)
            PROVE  Ref!Copies(r, b) = 1
        <4>1. Ref!Copies(r, b) = (IF r \in Found(D) THEN 0 ELSE Ref!Copies(r, table[v]))
                                 + IF r \in Ref!Query THEN 1 ELSE 0
          BY <1>3
        <4>2. r \in D => (r \in Found(D) <=> \E q \in Ref!Query : q.key = r.key)
          BY <3>4 DEF Found, Keyed
        <4>3. r \notin D => r \notin Found(D) /\ Ref!Copies(r, table[v]) = 0
          BY DEF Found, Ref!Copies
        <4>4. CASE r \in Ref!Query
          BY <3>4, <4>1, <4>2, <4>3, <4>4
        <4>5. CASE r \notin Ref!Query
          <5>1. r \in D /\ r \notin Found(D) /\ r \in Keyed(D)
            BY <3>1, <3>4, <4>5 DEF Keyed
          <5>2. Ref!Copies(r, table[v]) = 1
            BY <2>1, <2>3, <3>4, <5>1
          <5> QED
            BY <4>1, <4>5, <5>1, <5>2
        <4> QED
          BY <4>4, <4>5
      <3> QED
        BY <1>9, <1>11, <2>3, <3>3, <3>4
    <2> QED
      BY <2>2, <2>3
  <1> QED
    BY <1>13, <1>14, <1>15, <1>17, <1>18, <1>19 DEF RInv

\* A transaction is committed.
LEMMA CommitStep ==
    ASSUME RInv, NEW e \in Env, Ref!Commit(e)
    PROVE  RInv'
  <1> DEFINE v == at[e]
             b == Plus(Minus(table[v], job[e].out), job[e].in)
             j == [job[e] EXCEPT !.step = "audit"]
  <1>1. /\ refDialect = "postgres" /\ job[e].step = "commit"
        /\ Standing /\ source' = source /\ clock' = clock /\ latest' = latest /\ seen' = seen
    BY DEF Ref!Commit, Standing
  <1>2. table' = [table EXCEPT ![v] = b]
    BY DEF Ref!Commit, Ref!(+), Ref!(-), Plus, Minus, Left
  <1>3. job' = [job EXCEPT ![e] = j]
    BY DEF Ref!Commit
  <1>4. job[e] # Ref!NoJob
    BY <1>1, Jobs
  <1>5. job[e] \in Job /\ job[e].out \in Bag(RowOf) /\ job[e].in \in Bag(RowOf)
    BY <1>4, Jobs DEF Job
  <1>6. v \in RefVersion /\ table[v] \in Bag(RowOf)
    BY DEF RInv, RefreshTyped
  <1>7. Minus(table[v], job[e].out) \in Bag(RowOf)
    BY <1>5, <1>6, MinusBag
  <1>8. b \in Bag(RowOf)
    BY <1>5, <1>7, PlusBag
  <1>9. j \in Job /\ j.now = job[e].now /\ j.out = job[e].out
    BY <1>5 DEF Job
  <1>10. /\ kind' = kind /\ refDialect' = refDialect /\ at' = at
         /\ RowOf' = RowOf /\ Job' = Job /\ (OnDuckdb' <=> OnDuckdb)
    BY <1>1, SameRows DEF Standing
  <1>11. ~OnDuckdb
    BY <1>1 DEF OnDuckdb
  <1> HIDE DEF b, j
  <1>12. /\ table' \in [RefVersion -> Bag(RowOf)]
         /\ job' \in [Env -> {Ref!NoJob} \cup Job] /\ job'[e] = j
         /\ \A f \in Env \ {e} : job'[f] = job[f]
    BY <1>2, <1>3, <1>8, <1>9 DEF RInv, RefreshTyped
  <1>13. RefreshTyped'
    BY <1>1, <1>10, <1>12 DEF RInv, RefreshTyped
  <1>14. OneAtATime'
    BY <1>1, <1>10 DEF OneAtATime
  <1>15. Behind'
    BY <1>1, <1>4, <1>9, <1>10, <1>11, <1>12 DEF RInv, Behind
  <1>16. OutOpen'
    BY <1>4, <1>9, <1>10, <1>12 DEF RInv, OutOpen
  <1>17. Ref!Upserted' /\ AsOfAlways'
    BY <1>1, <1>10, <1>11 DEF Ref!Upserted, AsOfAlways
  <1> QED
    BY <1>13, <1>14, <1>15, <1>16, <1>17 DEF RInv

\* Every step keeps what reconciliations promise.
LEMMA RefreshStep == RInv /\ [Ref!Next]_refVars => RInv'
  <1> SUFFICES ASSUME RInv, [Ref!Next]_refVars
               PROVE  RInv'
    OBVIOUS
  <1>1. CASE UNCHANGED refVars
    <2>1. Standing /\ UNCHANGED <<source, table, job, clock, latest, seen>>
      BY <1>1 DEF refVars, Standing
    <2>2. /\ kind' = kind /\ refDialect' = refDialect /\ at' = at
          /\ RowOf' = RowOf /\ Job' = Job /\ (OnDuckdb' <=> OnDuckdb)
      BY <2>1, SameRows DEF Standing
    <2> QED
      BY <2>1, <2>2 DEF RInv, RefreshTyped, OneAtATime, Behind, OutOpen, Ref!Upserted, AsOfAlways
  <1>2. CASE Ref!Edit
    BY <1>2, EditStep DEF Ref!Edit, Standing
  <1>3. CASE Ref!Tick
    BY <1>3, TickStep
  <1>4. ASSUME NEW e \in Env, Ref!Apply(e)
        PROVE  RInv'
    BY <1>4, BeginStep, ReconcileStep, FirstStep, TakeStep, SecondStep, CommitStep, EndStep
       DEF Ref!Apply
  <1> QED
    BY <1>1, <1>2, <1>3, <1>4 DEF Ref!Next

\* AsOf is AsOfAlways until now.
LEMMA RefreshMeans == RInv => Ref!Reconciled
  <1> SUFFICES ASSUME RInv
               PROVE  Ref!AsOf
    BY DEF RInv, Ref!Reconciled
  <1>1. 0 .. clock \subseteq 0 .. MaxTime /\ DOMAIN source = Key \cup {Null}
    BY RefreshAssumed DEF RInv, RefreshTyped, Ref!Source
  <1>2. ASSUME OnDuckdb, NEW v \in RefVersion, NEW t \in 0 .. clock, seen[v][t] # Ref!None
        PROVE  {[key |-> r.key, val |-> r.val] :
                   r \in {s \in DOMAIN table[v] : s.from <= t /\ (Ref!Open(s) \/ t < s.to)}}
               = {[key |-> k, val |-> seen[v][t][k]] :
                     k \in {l \in DOMAIN source : seen[v][t][l] # Absent}}
    <2>1. PairsAt(DOMAIN table[v], t) = Returned(seen[v][t])
      BY <1>1, <1>2 DEF RInv, AsOfAlways
    <2> QED
      BY <1>1, <2>1 DEF PairsAt, ValidAt, Pair, Returned
  <1> QED
    BY <1>2 DEF Ref!AsOf, OnDuckdb, Ref!BagToSet

\* What reconciliations do to a closed row.
Closed ==
    kind = "scdType2" =>
        \A v \in RefVersion : \A r \in Ref!BagToSet(table[v]) :
            ~Ref!Open(r) => Ref!Copies(r, table'[v]) >= Ref!Copies(r, table[v])

\* Every step leaves a closed row as often as it was there.
LEMMA ClosedStep == RInv /\ [Ref!Next]_refVars => Closed
  <1> SUFFICES ASSUME RInv, [Ref!Next]_refVars, kind = "scdType2",
                      NEW v \in RefVersion, NEW r, ~Ref!Open(r)
               PROVE  Ref!Copies(r, table'[v]) >= Ref!Copies(r, table[v])
    BY DEF Closed
  <1>1. table \in [RefVersion -> Bag(RowOf)]
    BY DEF RInv, RefreshTyped
  <1>2. \A w \in RefVersion : Ref!Copies(r, table[w]) \in Nat
    <2>1. ASSUME NEW w \in RefVersion
          PROVE  Ref!Copies(r, table[w]) \in Nat
      <3>1. table[w] \in [DOMAIN table[w] -> Nat \ {0}]
        BY <1>1, BagIs
      <3> QED
        BY <3>1 DEF Ref!Copies
    <2> QED
      BY <2>1
  <1>3. CASE table' = table
    BY <1>2, <1>3
  <1>4. ASSUME NEW e \in Env, Ref!Reconcile(e)
        PROVE  Ref!Copies(r, table'[v]) >= Ref!Copies(r, table[v])
    <2> DEFINE b == AfterBoth(table[at[e]], job[e].now)
    <2>1. /\ job[e].now \in 0 .. MaxTime /\ table[at[e]] \in Bag(RowOf) /\ source \in Ref!Source
          /\ table' = [table EXCEPT ![at[e]] = b] /\ at[e] \in RefVersion
      BY <1>4, ReconcileIs
    <2>2. Ref!Copies(r, b) >= Ref!Copies(r, table[at[e]])
      BY <2>1, BothStatements
    <2> HIDE DEF b
    <2> QED
      BY <1>1, <1>2, <2>1, <2>2
  <1>5. ASSUME NEW e \in Env, Ref!Commit(e)
        PROVE  Ref!Copies(r, table'[v]) >= Ref!Copies(r, table[v])
    <2> DEFINE c == Minus(table[at[e]], job[e].out)
               b == Plus(c, job[e].in)
    <2>1. job[e].step = "commit"
      BY <1>5 DEF Ref!Commit
    <2>2. job[e] # Ref!NoJob
      BY <2>1, Jobs
    <2>3. /\ job[e].out \in Bag(RowOf) /\ job[e].in \in Bag(RowOf)
          /\ r \notin DOMAIN job[e].out
      BY <2>2, Jobs DEF Job
    <2>4. table' = [table EXCEPT ![at[e]] = b]
      BY <1>5 DEF Ref!Commit, Ref!(+), Ref!(-), Plus, Minus, Left
    <2>5. at[e] \in RefVersion /\ table[at[e]] \in Bag(RowOf)
      BY DEF RInv, RefreshTyped
    <2>6. c \in Bag(RowOf) /\ Ref!Copies(r, c) = Ref!Copies(r, table[at[e]])
      BY <2>3, <2>5, MinusBag
    <2> HIDE DEF c
    <2>7. /\ Ref!Copies(r, b) = Ref!Copies(r, c) + Ref!Copies(r, job[e].in)
          /\ Ref!Copies(r, job[e].in) \in Nat
      <3>1. c \in Bag(RowOf) /\ job[e].in \in Bag(RowOf)
        BY <2>3, <2>6
      <3>2. /\ Ref!Copies(r, Plus(c, job[e].in)) = Ref!Copies(r, c) + Ref!Copies(r, job[e].in)
            /\ Ref!Copies(r, job[e].in) \in Nat
        BY <3>1, PlusBag
      <3> QED
        BY <3>2
    <2> HIDE DEF b
    <2> QED
      BY <1>1, <1>2, <2>4, <2>5, <2>6, <2>7
  <1>6. CASE \E e \in Env : Ref!Reconcile(e) \/ Ref!Commit(e)
    BY <1>4, <1>5, <1>6
  <1>7. CASE ~\E e \in Env : Ref!Reconcile(e) \/ Ref!Commit(e)
    <2>1. table' = table
      BY <1>7 DEF Ref!Next, Ref!Apply, Ref!Edit, Ref!Tick, Ref!Begin, Ref!First, Ref!Take,
                  Ref!Second, Ref!End, refVars
    <2> QED
      BY <1>3, <2>1
  <1> QED
    BY <1>6, <1>7

-----------------------------------------------------------------------------
(* The audits                                                              *)

\* An instance counts as its parts do.
LEMMA RefCounts == \A set : Ref!Cardinality(set) = Cardinality(set)
  BY DEF Cardinality, Ref!Cardinality

\* A table: so many of each of finitely many rows.
Finite(b) == b \in [DOMAIN b -> Nat \ {0}] /\ IsFiniteSet(DOMAIN b)

\* Each row once, and each key.
Once(b) ==
    /\ \A r \in DOMAIN b : b[r] = 1
    /\ \A r, q \in DOMAIN b : r.key = q.key => r = q

\* What BagCardinality adds up.
LEMMA BagSum ==
    ASSUME NEW b, Finite(b)
    PROVE  \E g : Additive(b, DOMAIN b, g) /\ Ref!BagCardinality(b) = g[DOMAIN b]
  <1> DEFINE h == CHOOSE g : Chosen(b, SUBSET DOMAIN b, g)
  <1>1. Ref!BagCardinality(b) = h[DOMAIN b]
    BY DEF Ref!BagCardinality, Chosen, AnyOf
  <1>2. b \in [DOMAIN b -> Int] /\ IsFiniteSet(DOMAIN b)
    BY DEF Finite
  <1>3. Chosen(b, SUBSET DOMAIN b, h)
    BY <1>2, ChosenExists
  <1> HIDE DEF h
  <1> QED
    BY <1>1, <1>2, <1>3, SumsAdd

\* The rows of a part of a table, as MapThenSumSet adds them up.
RowTotal(b, S) == Ref!MapThenSumSet(LAMBDA r : Ref!Copies(r, b), S)

LEMMA RowSum ==
    ASSUME NEW b, Finite(b), NEW S \in SUBSET DOMAIN b
    PROVE  \E g : Additive([r \in S |-> b[r]], S, g) /\ RowTotal(b, S) = g[S]
  <1> DEFINE f == [r \in S |-> b[r]]
             Is(g) == g = [s \in SUBSET S |->
                             IF s = {} THEN 0
                             ELSE Ref!Copies(AnyOf(s), b) + g[s \ {AnyOf(s)}]]
             h == CHOOSE g : Is(g)
  <1>1. RowTotal(b, S) = h[S]
    BY DEF RowTotal, Ref!MapThenSumSet, Ref!MapThenFoldSet, AnyOf
  <1>2. f \in [S -> Int] /\ IsFiniteSet(S)
    BY FS_Subset DEF Finite
  <1>3. \A s \in SUBSET S : s # {} => f[AnyOf(s)] = Ref!Copies(AnyOf(s), b)
    BY DEF AnyOf, Ref!Copies
  <1> HIDE DEF f
  <1>4. \A g : Is(g) <=> Chosen(f, SUBSET S, g)
    BY <1>3 DEF Chosen
  <1> HIDE DEF Is
  <1>5. Is(h)
    BY <1>2, <1>4, ChosenExists
  <1>6. Additive(f, S, h)
    BY <1>2, <1>4, <1>5, SumsAdd
  <1> QED
    BY <1>1, <1>6 DEF f

\* It is their number, if each is there once.
LEMMA RowCount ==
    ASSUME NEW b, Finite(b), NEW S \in SUBSET DOMAIN b
    PROVE  /\ IsFiniteSet(S) /\ Cardinality(S) \in Nat
           /\ RowTotal(b, S) \in Nat /\ RowTotal(b, S) >= Cardinality(S)
           /\ RowTotal(b, S) = Cardinality(S) <=> \A r \in S : b[r] = 1
  <1> DEFINE f == [r \in S |-> b[r]]
  <1>1. IsFiniteSet(S) /\ Cardinality(S) \in Nat
    BY FS_Subset, FS_CardinalityType DEF Finite
  <1>2. PICK g : Additive(f, S, g) /\ RowTotal(b, S) = g[S]
    BY RowSum
  <1>3. f \in [S -> Nat \ {0}] /\ \A r \in S : f[r] = b[r]
    BY DEF Finite
  <1> HIDE DEF f
  <1>4. /\ g[S] \in Nat /\ g[S] >= Cardinality(S)
        /\ g[S] = Cardinality(S) <=> \A r \in S : f[r] = 1
    BY <1>1, <1>2, <1>3, SumCounts
  <1> QED
    BY <1>1, <1>2, <1>3, <1>4

\* No violation of unique means each row once and each key once,
LEMMA UniqueIsOnce ==
    ASSUME NEW b, Finite(b)
    PROVE  Ref!Unique(b) = {} <=> Once(b)
  <1> DEFINE S(k) == {r \in DOMAIN b : r.key = k}
             sum(k) == RowTotal(b, S(k))
  <1>1. Ref!Unique(b) = {k \in Ref!Keys(b) : sum(k) > 1}
    BY DEF Ref!Unique, Ref!BagToSet, RowTotal
  <1>2. \A k \in Ref!Keys(b) : S(k) # {}
    BY DEF Ref!Keys, Ref!BagToSet
  <1>3. \A r \in DOMAIN b : r.key \in Ref!Keys(b)
    BY DEF Ref!Keys, Ref!BagToSet
  <1>4. ASSUME NEW k \in Ref!Keys(b)
        PROVE  ~ (sum(k) > 1) <=> \A r, q \in S(k) : b[r] = 1 /\ r = q
    <2>1. /\ IsFiniteSet(S(k)) /\ Cardinality(S(k)) \in Nat
          /\ sum(k) \in Nat /\ sum(k) >= Cardinality(S(k))
          /\ sum(k) = Cardinality(S(k)) <=> \A r \in S(k) : b[r] = 1
      <3>1. S(k) \in SUBSET DOMAIN b
        OBVIOUS
      <3> QED
        BY <3>1, RowCount
    <2>2. S(k) # {}
      BY <1>2
    <2> HIDE DEF sum, S
    <2>3. Cardinality(S(k)) # 0 /\ (Cardinality(S(k)) = 1 <=> \E x : S(k) = {x})
      BY <2>1, <2>2, FS_EmptySet, FS_Singleton
    <2>4. ~ (sum(k) > 1) <=> Cardinality(S(k)) = 1 /\ \A r \in S(k) : b[r] = 1
      BY <2>1, <2>3
    <2>5. (\E x : S(k) = {x}) <=> \A r, q \in S(k) : r = q
      BY <2>2
    <2> QED
      BY <2>2, <2>3, <2>4, <2>5
  <1> HIDE DEF sum
  <1>5. ASSUME Once(b) PROVE Ref!Unique(b) = {}
    BY <1>1, <1>4, <1>5 DEF Once
  <1>6. ASSUME Ref!Unique(b) = {} PROVE Once(b)
    <2>1. \A k \in Ref!Keys(b) : \A r, q \in S(k) : b[r] = 1 /\ r = q
      BY <1>1, <1>4, <1>6
    <2> QED
      BY <1>3, <2>1 DEF Once
  <1> QED
    BY <1>5, <1>6

\* and so does that there are as many rows as keys.
LEMMA CountIsOnce ==
    ASSUME NEW b, Finite(b)
    PROVE  Ref!BagCardinality(b) = Ref!Cardinality(Ref!Keys(b)) <=> Once(b)
  <1> DEFINE D == DOMAIN b
             f == [r \in D |-> r.key]
  <1>1. b \in [D -> Nat \ {0}] /\ IsFiniteSet(D) /\ Cardinality(D) \in Nat
    BY FS_CardinalityType DEF Finite
  <1>2. PICK g : Additive(b, D, g) /\ Ref!BagCardinality(b) = g[D]
    BY BagSum
  <1>3. g[D] \in Nat /\ g[D] >= Cardinality(D) /\ (g[D] = Cardinality(D) <=> \A r \in D : b[r] = 1)
    BY <1>1, <1>2, SumCounts
  <1>4. Ref!Keys(b) = {f[r] : r \in D} /\ DOMAIN f = D /\ \A r \in D : f[r] = r.key
    BY DEF Ref!Keys, Ref!BagToSet
  <1> HIDE DEF f, D
  <1>5. /\ Cardinality({f[x] : x \in D}) \in Nat
        /\ Cardinality({f[x] : x \in D}) <= Cardinality(D)
        /\ Cardinality({f[x] : x \in D}) = Cardinality(D)
           <=> \A x, y \in D : f[x] = f[y] => x = y
    <2>1. IsFiniteSet(D) /\ DOMAIN f = D
      BY <1>1, <1>4
    <2> QED
      BY <2>1, ImageSize
  <1>6. /\ Cardinality(Ref!Keys(b)) \in Nat /\ Cardinality(Ref!Keys(b)) <= Cardinality(D)
        /\ Cardinality(Ref!Keys(b)) = Cardinality(D) <=> \A r, q \in D : r.key = q.key => r = q
    BY <1>4, <1>5
  <1> USE DEF D
  <1>7. Ref!Cardinality(Ref!Keys(b)) = Cardinality(Ref!Keys(b))
    BY RefCounts
  <1>8. g[D] = Cardinality(Ref!Keys(b)) <=> g[D] = Cardinality(D) /\ Cardinality(Ref!Keys(b)) = Cardinality(D)
    BY <1>1, <1>3, <1>6
  <1> QED
    BY <1>2, <1>3, <1>6, <1>7, <1>8 DEF Once

\* A finite set of numbers has a greatest one.
LEMMA GreatestOf ==
    ASSUME NEW V, V \subseteq Nat, IsFiniteSet(V), V # {}
    PROVE  \E m \in V : \A w \in V : w <= m
  <1> DEFINE Good(t) == \E m \in t : \A w \in t : w <= m
             Bad == {n \in Nat : \E t \in SUBSET V : t # {} /\ Cardinality(t) = n /\ ~ Good(t)}
  <1>1. \A t \in SUBSET V : IsFiniteSet(t) /\ Cardinality(t) \in Nat
    BY FS_Subset, FS_CardinalityType
  <1>2. ASSUME Bad # {} PROVE FALSE
    <2>1. PICK n \in Bad : \A k \in Bad : n <= k
      BY <1>2, LeastOf
    <2>2. PICK t \in SUBSET V : t # {} /\ Cardinality(t) = n /\ ~ Good(t)
      BY <2>1
    <2>3. PICK x \in t : TRUE
      BY <2>2
    <2>4. Cardinality(t \ {x}) = n - 1 /\ Cardinality(t \ {x}) \in Nat /\ t \ {x} \in SUBSET V
      BY <1>1, <2>2, FS_RemoveElement
    <2>5. t \ {x} = {} \/ Good(t \ {x})
      <3> HIDE DEF Good
      <3> QED
        BY <2>1, <2>4
    <2>6. CASE t \ {x} = {}
      <3>1. \A w \in t : w = x /\ x \in Nat
        BY <2>6
      <3> QED
        BY <2>2, <2>3, <3>1
    <2>7. CASE Good(t \ {x})
      <3>1. PICK m \in t \ {x} : \A w \in t \ {x} : w <= m
        BY <2>7
      <3>2. \A w \in t : w <= m \/ w = x
        BY <3>1
      <3>3. m \in Nat /\ x \in Nat /\ t \subseteq Nat
        OBVIOUS
      <3>4. CASE x <= m
        BY <2>2, <3>1, <3>2, <3>4
      <3>5. CASE m <= x
        <4>1. \A w \in t : w <= x
          BY <3>2, <3>3, <3>5
        <4> QED
          BY <2>2, <2>3, <4>1
      <3> QED
        BY <3>3, <3>4, <3>5
    <2> QED
      BY <2>5, <2>6, <2>7
  <1>3. Cardinality(V) \notin Bad
    BY <1>2
  <1> QED
    BY <1>1, <1>3

\* Bounds of a set that are in it are its Min and Max.
LEMMA MinMaxAre ==
    ASSUME NEW V, V \subseteq Nat, NEW lo \in V, NEW hi \in V,
           \A w \in V : lo <= w /\ w <= hi
    PROVE  Ref!Min(V) = lo /\ Ref!Max(V) = hi
  <1>1. \A x \in V : (\A y \in V : x =< y) => x = lo
    OBVIOUS
  <1>2. \A x \in V : (\A y \in V : x >= y) => x = hi
    OBVIOUS
  <1>3. (CHOOSE x \in V : \A y \in V : x =< y) = lo
    BY <1>1
  <1>4. (CHOOSE x \in V : \A y \in V : x >= y) = hi
    BY <1>2
  <1> QED
    BY <1>3, <1>4 DEF Ref!Min, Ref!Max

\* The neighbours in a set that are none as numbers, and what is between.
Holes(V) == {p \in V \X V : p[1] + 1 < p[2] /\ \A w \in V : ~ (p[1] < w /\ w < p[2])}
HoleSizes(H) == [p \in H |-> p[2] - p[1] - 1]

\* Taking the greatest number away takes away the hole in front of it.
LEMMA HolesBefore ==
    ASSUME NEW V, V \subseteq Nat, NEW hi \in V, \A w \in V : w <= hi,
           NEW m \in V \ {hi}, \A w \in V \ {hi} : w <= m
    PROVE  /\ m + 1 < hi => /\ <<m, hi>> \in Holes(V)
                            /\ Holes(V \ {hi}) = Holes(V) \ {<<m, hi>>}
           /\ ~ (m + 1 < hi) => Holes(V \ {hi}) = Holes(V)
           /\ m < hi
  <1> DEFINE u == V \ {hi}
  <1>1. m < hi /\ m \in Nat /\ hi \in Nat
    OBVIOUS
  <1>2. ASSUME NEW p \in Holes(u)
        PROVE  p \in Holes(V) /\ p # <<m, hi>>
    <2>1. /\ p[1] \in u /\ p[2] \in u /\ p = <<p[1], p[2]>> /\ p[1] + 1 < p[2]
          /\ \A w \in u : ~ (p[1] < w /\ w < p[2])
      BY DEF Holes
    <2>2. ~ (hi < p[2])
      BY <2>1
    <2>3. \A w \in V : ~ (p[1] < w /\ w < p[2])
      BY <2>1, <2>2
    <2>4. p \in V \X V /\ p # <<m, hi>>
      BY <2>1
    <2> QED
      BY <2>1, <2>3, <2>4 DEF Holes
  <1>3. ASSUME NEW p \in Holes(V)
        PROVE  p \in Holes(u) \/ (p = <<m, hi>> /\ m + 1 < hi)
    <2>1. /\ p[1] \in V /\ p[2] \in V /\ p = <<p[1], p[2]>> /\ p[1] + 1 < p[2]
          /\ \A w \in V : ~ (p[1] < w /\ w < p[2])
      BY DEF Holes
    <2>2. p[1] # hi
      <3>1. p[2] <= hi /\ p[1] \in Nat /\ p[2] \in Nat
        BY <2>1
      <3> QED
        BY <1>1, <2>1, <3>1
    <2>3. CASE p[2] = hi
      <3>1. p[1] <= m /\ p[1] \in Nat
        BY <2>1, <2>2
      <3>2. ~ (p[1] < m /\ m < hi)
        BY <2>1, <2>3
      <3>3. p[1] = m
        BY <1>1, <3>1, <3>2
      <3> QED
        BY <2>1, <2>3, <3>3
    <2>4. CASE p[2] # hi
      <3>1. p \in u \X u
        BY <2>1, <2>2, <2>4
      <3> QED
        BY <2>1, <3>1 DEF Holes
    <2> QED
      BY <2>3, <2>4
  <1>4. ASSUME m + 1 < hi
        PROVE  <<m, hi>> \in Holes(V)
    <2>1. \A w \in V : ~ (m < w /\ w < hi)
      BY <1>1
    <2>2. <<m, hi>> \in V \X V /\ <<m, hi>>[1] = m /\ <<m, hi>>[2] = hi
      OBVIOUS
    <2> QED
      BY <1>4, <2>1, <2>2 DEF Holes
  <1> QED
    BY <1>1, <1>2, <1>3, <1>4

\* The holes of a set add up to what it has not of the numbers between its bounds.
LEMMA HolesFill ==
    ASSUME NEW V, V \subseteq Nat, IsFiniteSet(V), NEW H, Holes(V) \subseteq H,
           NEW g, Additive(HoleSizes(H), H, g),
           NEW lo \in V, NEW hi \in V, \A w \in V : lo <= w /\ w <= hi
    PROVE  g[Holes(V)] = hi - lo + 1 - Cardinality(V)
  <1> DEFINE Good(t) == \A a, z \in t : (\A w \in t : a <= w /\ w <= z)
                            => g[Holes(t)] = z - a + 1 - Cardinality(t)
             Bad == {n \in Nat : \E t \in SUBSET V :
                        Holes(t) \subseteq H /\ Cardinality(t) = n /\ ~ Good(t)}
  <1>1. \A t \in SUBSET V : IsFiniteSet(t) /\ Cardinality(t) \in Nat
    BY FS_Subset, FS_CardinalityType
  <1>2. ASSUME Bad # {} PROVE FALSE
    <2>1. PICK n \in Bad : \A k \in Bad : n <= k
      BY <1>2, LeastOf
    <2>2. PICK t \in SUBSET V : Holes(t) \subseteq H /\ Cardinality(t) = n /\ ~ Good(t)
      BY <2>1
    <2>3. PICK a \in t, z \in t : /\ \A w \in t : a <= w /\ w <= z
                                  /\ g[Holes(t)] # z - a + 1 - Cardinality(t)
      BY <2>2
    <2> DEFINE u == t \ {z}
    <2>4. /\ Cardinality(u) = n - 1 /\ Cardinality(u) \in Nat /\ u \in SUBSET V /\ IsFiniteSet(u)
          /\ t \subseteq Nat /\ a \in Nat /\ z \in Nat /\ n \in Nat
      BY <1>1, <2>2, FS_RemoveElement
    <2>5. CASE u = {}
      <3>1. \A w \in t : w = z
        BY <2>5
      <3>2. a = z
        BY <3>1
      <3>3. n = 1
        <4>1. Cardinality(u) = 0
          BY <2>5, FS_EmptySet
        <4> QED
          BY <2>4, <4>1
      <3>4. Holes(t) = {}
        <4> SUFFICES ASSUME NEW p \in Holes(t) PROVE FALSE
          OBVIOUS
        <4>1. p[1] \in t /\ p[2] \in t /\ p[1] + 1 < p[2]
          BY DEF Holes
        <4>2. z + 1 < z
          BY <3>1, <4>1
        <4> QED
          BY <2>4, <4>2
      <3>5. g[Holes(t)] = 0
        BY <3>4 DEF Additive
      <3> QED
        BY <2>2, <2>3, <2>4, <3>2, <3>3, <3>5
    <2>6. CASE u # {}
      <3>1. PICK m \in u : \A w \in u : w <= m
        BY <2>4, <2>6, GreatestOf
      <3>2. /\ m + 1 < z => /\ <<m, z>> \in Holes(t)
                            /\ Holes(u) = Holes(t) \ {<<m, z>>}
            /\ ~ (m + 1 < z) => Holes(u) = Holes(t)
            /\ m < z
        BY <2>3, <2>4, <3>1, HolesBefore
      <3>3. Holes(u) \subseteq H
        BY <2>2, <3>2
      <3>4. Good(u)
        <4> HIDE DEF Good, u
        <4> QED
          BY <2>1, <2>4, <3>3
      <3>5. a \in u /\ \A w \in u : a <= w /\ w <= m
        <4>1. a <= m /\ m < z /\ a \in Nat /\ m \in Nat
          BY <2>3, <2>4, <3>1, <3>2
        <4>2. a # z
          BY <2>4, <4>1
        <4> QED
          BY <2>3, <3>1, <4>2
      <3>6. g[Holes(u)] = m - a + 1 - Cardinality(u)
        BY <3>1, <3>4, <3>5
      <3>7. m \in Nat
        BY <2>4, <3>1
      <3>8. CASE m + 1 < z
        <4>1. HoleSizes(H)[<<m, z>>] = z - m - 1
          <5>1. <<m, z>> \in H /\ <<m, z>>[1] = m /\ <<m, z>>[2] = z
            BY <2>2, <3>2, <3>8
          <5> QED
            BY <5>1 DEF HoleSizes
        <4>2. g[Holes(t)] = HoleSizes(H)[<<m, z>>] + g[Holes(t) \ {<<m, z>>}]
          BY <2>2, <3>2, <3>8 DEF Additive
        <4>3. g[Holes(t)] = (z - m - 1) + (m - a + 1 - Cardinality(u))
          BY <3>2, <3>6, <3>8, <4>1, <4>2
        <4> QED
          BY <2>2, <2>3, <2>4, <3>7, <4>3
      <3>9. CASE ~ (m + 1 < z)
        <4>1. m + 1 = z
          BY <2>4, <3>2, <3>7, <3>9
        <4>2. g[Holes(t)] = m - a + 1 - Cardinality(u)
          BY <3>2, <3>6, <3>9
        <4> QED
          BY <2>2, <2>3, <2>4, <3>7, <4>1, <4>2
      <3> QED
        BY <3>8, <3>9
    <2> QED
      BY <2>5, <2>6
  <1>3. Good(V)
    <2> HIDE DEF Good
    <2> QED
      BY <1>1, <1>2
  <1> QED
    BY <1>3

\* The values of a table's keys.
Values(b) == Ref!Keys(b) \ {Null}

\* What contiguous reports, added up.
LEMMA GapSum ==
    ASSUME NEW b, Values(b) \subseteq Nat, IsFiniteSet(Values(b)),
           NEW lo \in Values(b), NEW hi \in Values(b), \A w \in Values(b) : lo <= w /\ w <= hi
    PROVE  Ref!MapThenSumSet(LAMBDA p : p[2] - p[1] - 1, Ref!Contiguous(b))
           = hi - lo + 1 - Cardinality(Values(b))
  <1> DEFINE S == Holes(Values(b))
             f == HoleSizes(S)
             Is(g) == g = [s \in SUBSET S |->
                             IF s = {} THEN 0
                             ELSE AnyOf(s)[2] - AnyOf(s)[1] - 1 + g[s \ {AnyOf(s)}]]
             h == CHOOSE g : Is(g)
  <1>1. Ref!Contiguous(b) = S
    BY DEF Ref!Contiguous, Holes, Values
  <1>2. Ref!MapThenSumSet(LAMBDA p : p[2] - p[1] - 1, S) = h[S]
    BY DEF Ref!MapThenSumSet, Ref!MapThenFoldSet, AnyOf
  <1>3. S \subseteq Values(b) \X Values(b)
    BY DEF Holes
  <1>4. IsFiniteSet(S)
    BY <1>3, FS_Product, FS_Subset
  <1>5. f \in [S -> Int]
    <2>1. \A p \in S : p[2] - p[1] - 1 \in Int
      BY <1>3
    <2> QED
      BY <2>1 DEF HoleSizes
  <1>6. \A s \in SUBSET S : s # {} => f[AnyOf(s)] = AnyOf(s)[2] - AnyOf(s)[1] - 1
    BY DEF AnyOf, HoleSizes
  <1> HIDE DEF f
  <1>7. \A g : Is(g) <=> Chosen(f, SUBSET S, g)
    BY <1>6 DEF Chosen
  <1> HIDE DEF Is
  <1>8. Is(h)
    BY <1>4, <1>5, <1>7, ChosenExists
  <1>9. Additive(f, S, h)
    BY <1>4, <1>5, <1>7, <1>8, SumsAdd
  <1> HIDE DEF h
  <1>10. h[S] = hi - lo + 1 - Cardinality(Values(b))
    BY <1>9, HolesFill DEF f
  <1> QED
    BY <1>1, <1>2, <1>10

\* A set has no holes if it has all between its bounds.
LEMMA NoHoles ==
    ASSUME NEW V, V \subseteq Nat, IsFiniteSet(V),
           NEW lo \in V, NEW hi \in V, \A w \in V : lo <= w /\ w <= hi
    PROVE  Holes(V) = {} <=> \A k \in lo .. hi : k \in V
  <1>1. ASSUME \A k \in lo .. hi : k \in V
        PROVE  Holes(V) = {}
    <2> SUFFICES ASSUME NEW p \in Holes(V) PROVE FALSE
      OBVIOUS
    <2>1. p[1] \in V /\ p[2] \in V /\ p[1] + 1 < p[2] /\ \A w \in V : ~ (p[1] < w /\ w < p[2])
      BY DEF Holes
    <2>2. p[1] \in Nat /\ p[2] \in Nat /\ lo \in Nat /\ hi \in Nat /\ lo <= p[1] /\ p[2] <= hi
      BY <2>1
    <2>3. p[1] + 1 \in lo .. hi
      BY <2>1, <2>2
    <2>4. p[1] + 1 \in V
      BY <1>1, <2>3
    <2>5. ~ (p[1] < p[1] + 1 /\ p[1] + 1 < p[2])
      BY <2>1, <2>4
    <2> QED
      BY <2>1, <2>2, <2>5
  <1>2. ASSUME Holes(V) = {}, NEW k \in lo .. hi, k \notin V
        PROVE  FALSE
    <2> DEFINE below == {w \in V : w < k}
               above == {w \in V : k < w}
    <2>1. lo \in below /\ hi \in above /\ below \subseteq V /\ above \subseteq V /\ k \in Nat
      BY <1>2
    <2>2. PICK x \in below : \A w \in below : w <= x
      BY <2>1, FS_Subset, GreatestOf
    <2>3. PICK y \in above : \A w \in above : y <= w
      BY <2>1, LeastOf
    <2>4. x \in V /\ y \in V /\ x < k /\ k < y /\ x \in Nat /\ y \in Nat
      BY <2>1
    <2>5. \A w \in V : ~ (x < w /\ w < y)
      <3> SUFFICES ASSUME NEW w \in V, x < w, w < y PROVE FALSE
        OBVIOUS
      <3>1. w \in Nat /\ (w \in below \/ w \in above)
        BY <1>2, <2>1
      <3> QED
        BY <2>2, <2>3, <2>4, <3>1
    <2>6. <<x, y>> \in V \X V /\ <<x, y>>[1] = x /\ <<x, y>>[2] = y /\ x + 1 < y
      BY <2>1, <2>4
    <2>7. <<x, y>> \in Holes(V)
      BY <2>5, <2>6 DEF Holes
    <2> QED
      BY <1>2, <2>7
  <1> QED
    BY <1>1, <1>2

\* What assertNoGaps reports: the buckets that are missing.
LEMMA GapsAre ==
    ASSUME NEW b, Values(b) \subseteq Nat, IsFiniteSet(Values(b)),
           NEW lo \in Values(b), NEW hi \in Values(b), \A w \in Values(b) : lo <= w /\ w <= hi
    PROVE  Ref!NoGaps(b, 2) = {}
           <=> \A k \in lo \div 2 .. hi \div 2 : \E w \in Values(b) : w \div 2 = k
  <1> DEFINE half == [w \in Values(b) |-> w \div 2]
             B == {half[w] : w \in Values(b)}
             X == {[key |-> r.key \div 2] : r \in {s \in DOMAIN b : s.key # Null}}
  <1>1. \A w \in Nat : w \div 2 \in Nat
    OBVIOUS
  <1>2. \A w, x \in Nat : w <= x => w \div 2 <= x \div 2
    OBVIOUS
  <1>3. /\ \A w \in Values(b) : \E r \in DOMAIN b : r.key # Null /\ r.key = w
        /\ \A r \in DOMAIN b : r.key # Null => r.key \in Values(b)
    BY DEF Values, Ref!Keys, Ref!BagToSet
  <1>4. Ref!Keys(Ref!SetToBag(X)) = {x.key : x \in X}
    BY DEF Ref!Keys, Ref!BagToSet, Ref!SetToBag
  <1>5. {x.key : x \in X} = B
    <2>1. ASSUME NEW x \in X PROVE x.key \in B
      <3>1. PICK r \in DOMAIN b : r.key # Null /\ x = [key |-> r.key \div 2]
        OBVIOUS
      <3>2. r.key \in Values(b) /\ x.key = r.key \div 2
        BY <1>3, <3>1
      <3> QED
        BY <3>2
    <2>2. ASSUME NEW w \in Values(b) PROVE \E x \in X : x.key = half[w]
      <3>1. PICK r \in DOMAIN b : r.key # Null /\ r.key = w
        BY <1>3
      <3>2. [key |-> r.key \div 2] \in X /\ [key |-> r.key \div 2].key = half[w]
        BY <3>1
      <3> QED
        BY <3>2
    <2> HIDE DEF X, half
    <2> QED
      BY <2>1, <2>2
  <1>6. B \subseteq Nat /\ Null \notin B
    BY <1>1, RefreshAssumed
  <1>7. Ref!NoGaps(b, 2) = Ref!Contiguous(Ref!SetToBag(X))
    BY DEF Ref!NoGaps, Ref!BagToSet
  <1>8. Ref!NoGaps(b, 2) = Holes(B)
    <2> HIDE DEF X, B
    <2>1. Ref!Keys(Ref!SetToBag(X)) \ {Null} = B
      BY <1>4, <1>5, <1>6
    <2> QED
      BY <1>7, <2>1 DEF Ref!Contiguous, Holes
  <1>9. \A w \in Values(b) : half[w] = w \div 2
    OBVIOUS
  <1>10. IsFiniteSet(B)
    <2>1. DOMAIN half = Values(b)
      OBVIOUS
    <2> HIDE DEF half
    <2> QED
      BY <2>1, ImageSize
  <1>11. /\ lo \div 2 \in B /\ hi \div 2 \in B
         /\ \A k \in B : lo \div 2 <= k /\ k <= hi \div 2
    <2>1. lo \div 2 \in B /\ hi \div 2 \in B
      BY <1>9
    <2>2. ASSUME NEW w \in Values(b) PROVE lo \div 2 <= w \div 2 /\ w \div 2 <= hi \div 2
      BY <1>2
    <2> QED
      BY <1>9, <2>1, <2>2
  <1>12. \A k : k \in B <=> \E w \in Values(b) : w \div 2 = k
    BY <1>9
  <1> HIDE DEF B
  <1>13. Holes(B) = {} <=> \A k \in lo \div 2 .. hi \div 2 : k \in B
    BY <1>6, <1>10, <1>11, NoHoles
  <1> QED
    BY <1>8, <1>12, <1>13

\* What AuditsExact says of one table.
Audited(b) ==
    LET values == Ref!Keys(b) \ {Null}
    IN /\ Ref!Unique(b) = {} <=> Ref!BagCardinality(b) = Ref!Cardinality(Ref!Keys(b))
       /\ values # {} =>
            Ref!MapThenSumSet(LAMBDA g : g[2] - g[1] - 1, Ref!Contiguous(b))
            = Ref!Max(values) - Ref!Min(values) + 1 - Ref!Cardinality(values)
       /\ values # {} =>
            (Ref!NoGaps(b, 2) = {} <=>
               \A n \in Ref!Min(values) \div 2 .. Ref!Max(values) \div 2 :
                  \E k \in values : k \div 2 = n)

\* What the audits say of a table.
LEMMA AuditsOf ==
    ASSUME NEW b, Finite(b), Ref!Keys(b) \subseteq Key \cup {Null}
    PROVE  Audited(b)
  <1>1. Ref!Unique(b) = {} <=> Ref!BagCardinality(b) = Ref!Cardinality(Ref!Keys(b))
    BY UniqueIsOnce, CountIsOnce
  <1>2. Values(b) \subseteq Nat
    BY RefreshAssumed DEF Values
  <1>3. IsFiniteSet(Values(b))
    <2> DEFINE f == [r \in DOMAIN b |-> r.key]
    <2>1. Ref!Keys(b) = {f[r] : r \in DOMAIN b} /\ DOMAIN f = DOMAIN b
      BY DEF Ref!Keys, Ref!BagToSet
    <2> HIDE DEF f
    <2>2. IsFiniteSet(Ref!Keys(b))
      BY <2>1, ImageSize DEF Finite
    <2> QED
      BY <2>2, FS_Subset DEF Values
  <1>4. ASSUME Values(b) # {}
        PROVE  /\ Ref!MapThenSumSet(LAMBDA p : p[2] - p[1] - 1, Ref!Contiguous(b))
                  = Ref!Max(Values(b)) - Ref!Min(Values(b)) + 1 - Ref!Cardinality(Values(b))
               /\ Ref!NoGaps(b, 2) = {} <=>
                    \A k \in Ref!Min(Values(b)) \div 2 .. Ref!Max(Values(b)) \div 2 :
                       \E w \in Values(b) : w \div 2 = k
    <2>1. PICK lo \in Values(b) : \A w \in Values(b) : lo <= w
      BY <1>2, <1>4, LeastOf
    <2>2. PICK hi \in Values(b) : \A w \in Values(b) : w <= hi
      BY <1>2, <1>3, <1>4, GreatestOf
    <2>3. Ref!Min(Values(b)) = lo /\ Ref!Max(Values(b)) = hi
      BY <1>2, <2>1, <2>2, MinMaxAre
    <2>4. Ref!Cardinality(Values(b)) = Cardinality(Values(b))
      BY RefCounts
    <2>5. Ref!MapThenSumSet(LAMBDA p : p[2] - p[1] - 1, Ref!Contiguous(b))
          = hi - lo + 1 - Cardinality(Values(b))
      BY <1>2, <1>3, <2>1, <2>2, GapSum
    <2>6. Ref!NoGaps(b, 2) = {}
          <=> \A k \in lo \div 2 .. hi \div 2 : \E w \in Values(b) : w \div 2 = k
      BY <1>2, <1>3, <2>1, <2>2, GapsAre
    <2> QED
      BY <2>3, <2>4, <2>5, <2>6
  <1> QED
    BY <1>1, <1>4 DEF Values, Audited

-----------------------------------------------------------------------------
(* The data diff                                                           *)

\* Tables the diff matches by key: each key once, none of them NULL.
Matchable(b) == Finite(b) /\ Once(b) /\ Null \notin Ref!Keys(b)

LEMMA KeysAre == \A b : Ref!Keys(b) = {r.key : r \in DOMAIN b}
  BY DEF Ref!Keys, Ref!BagToSet

\* A sample of one is one, with the keys of the buckets.
LEMMA Sampled ==
    ASSUME NEW b, Matchable(b), NEW buckets
    PROVE  LET s == Ref!Sample(b, buckets)
           IN  /\ Matchable(s) /\ DOMAIN s = {r \in DOMAIN b : r.key \in buckets}
               /\ Ref!Keys(s) = Ref!Keys(b) \cap buckets
  <1> DEFINE s == Ref!Sample(b, buckets)
             D == {r \in DOMAIN b : r.key \in buckets}
  <1>1. DOMAIN s = D /\ s = [r \in D |-> b[r]]
    BY DEF Ref!Sample, Ref!BagToSet
  <1>2. b \in [DOMAIN b -> Nat \ {0}] /\ IsFiniteSet(DOMAIN b)
    BY DEF Matchable, Finite
  <1>3. IsFiniteSet(D)
    BY <1>2, FS_Subset
  <1>4. s \in [D -> Nat \ {0}] /\ \A r \in D : s[r] = b[r]
    BY <1>1, <1>2
  <1> HIDE DEF s
  <1>5. Finite(s)
    BY <1>1, <1>3, <1>4 DEF Finite
  <1>6. Once(s)
    BY <1>1, <1>4 DEF Matchable, Once
  <1>7. Ref!Keys(s) = Ref!Keys(b) \cap buckets
    BY <1>1, KeysAre
  <1> QED
    BY <1>1, <1>5, <1>6, <1>7 DEF Matchable, s

\* What is alone in one: the keys it has and the other has not.
LEMMA AloneCounts ==
    ASSUME NEW a, Matchable(a), NEW b, Matchable(b)
    PROVE  Ref!Alone(a, b) = Cardinality(Ref!Keys(a) \ Ref!Keys(b))
  <1> DEFINE X == {r \in DOMAIN a : Ref!Matching(r, b) = {}}
             f == [r \in X |-> r.key]
  <1>1. /\ \A r, q \in DOMAIN a : a[r] = 1 /\ (r.key = q.key => r = q)
        /\ \A r \in DOMAIN a : r.key # Null
    BY KeysAre DEF Matchable, Once
  <1>2. \A r \in DOMAIN a : Ref!Matching(r, b) = {} <=> r.key \notin Ref!Keys(b)
    BY <1>1, KeysAre DEF Ref!Matching, Ref!BagToSet
  <1>3. Ref!Alone(a, b) = RowTotal(a, X)
    BY DEF Ref!Alone, Ref!BagToSet, RowTotal
  <1>4. X \in SUBSET DOMAIN a /\ Finite(a)
    BY DEF Matchable
  <1>5. /\ IsFiniteSet(X)
        /\ RowTotal(a, X) = Cardinality(X) <=> \A r \in X : a[r] = 1
    BY <1>4, RowCount
  <1>6. {f[r] : r \in X} = Ref!Keys(a) \ Ref!Keys(b)
    BY <1>2, KeysAre
  <1>7. DOMAIN f = X /\ \A r, q \in X : f[r] = f[q] => r = q
    BY <1>1
  <1>8. Ref!Alone(a, b) = Cardinality(X)
    BY <1>1, <1>3, <1>5
  <1> HIDE DEF X, f
  <1>9. Cardinality({f[r] : r \in X}) = Cardinality(X)
    BY <1>5, <1>7, ImageSize
  <1> QED
    BY <1>6, <1>8, <1>9

\* A pair of rows is counted once.
LEMMA PairCounts ==
    ASSUME NEW a, Matchable(a), NEW b, Matchable(b), NEW P, P \subseteq Ref!Pairs(a, b)
    PROVE  Ref!CountPairs(a, b, P) = Cardinality({p[1].key : p \in P})
  <1> DEFINE one == [p \in P |-> 1]
             f == [p \in P |-> p[1].key]
             Is(g) == g = [s \in SUBSET P |->
                             IF s = {} THEN 0
                             ELSE Ref!Copies(AnyOf(s)[1], a) * Ref!Copies(AnyOf(s)[2], b)
                                  + g[s \ {AnyOf(s)}]]
             h == CHOOSE g : Is(g)
  <1>1. Ref!CountPairs(a, b, P) = h[P]
    BY DEF Ref!CountPairs, Ref!MapThenSumSet, Ref!MapThenFoldSet, AnyOf
  <1>2. \A p \in P : /\ p[1] \in DOMAIN a /\ p[2] \in DOMAIN b /\ p = <<p[1], p[2]>>
                     /\ p[1].key = p[2].key
    BY DEF Ref!Pairs, Ref!Matching, Ref!BagToSet
  <1>3. /\ IsFiniteSet(DOMAIN a) /\ IsFiniteSet(DOMAIN b)
        /\ \A r, q \in DOMAIN a : a[r] = 1 /\ (r.key = q.key => r = q)
        /\ \A r, q \in DOMAIN b : b[r] = 1 /\ (r.key = q.key => r = q)
    BY DEF Matchable, Finite, Once
  <1>4. IsFiniteSet(P)
    <2>1. P \subseteq (DOMAIN a) \X (DOMAIN b)
      BY DEF Ref!Pairs, Ref!BagToSet
    <2>2. IsFiniteSet(DOMAIN a) /\ IsFiniteSet(DOMAIN b)
      BY <1>3
    <2>3. IsFiniteSet((DOMAIN a) \X (DOMAIN b))
      BY <2>2, FS_Product
    <2> QED
      BY <2>1, <2>3, FS_Subset
  <1>5. \A p \in P : Ref!Copies(p[1], a) * Ref!Copies(p[2], b) = 1
    <2>1. \A p \in P : Ref!Copies(p[1], a) = 1 /\ Ref!Copies(p[2], b) = 1
      BY <1>2, <1>3 DEF Ref!Copies
    <2> QED
      BY <2>1
  <1>6. /\ one \in [P -> Int] /\ one \in [P -> Nat \ {0}] /\ \A p \in P : one[p] = 1
    OBVIOUS
  <1>7. \A s \in SUBSET P : s # {} =>
           one[AnyOf(s)] = Ref!Copies(AnyOf(s)[1], a) * Ref!Copies(AnyOf(s)[2], b)
    BY <1>5, <1>6 DEF AnyOf
  <1> HIDE DEF one
  <1>8. \A g : Is(g) <=> Chosen(one, SUBSET P, g)
    BY <1>7 DEF Chosen
  <1> HIDE DEF Is
  <1>9. Is(h)
    BY <1>4, <1>6, <1>8, ChosenExists
  <1>10. Additive(one, P, h)
    BY <1>4, <1>6, <1>8, <1>9, SumsAdd
  <1> HIDE DEF h
  <1>11. h[P] = Cardinality(P)
    BY <1>4, <1>6, <1>10, SumCounts
  <1>12. \A p, q \in P : f[p] = f[q] => p = q
    <2> SUFFICES ASSUME NEW p \in P, NEW q \in P, p[1].key = q[1].key PROVE p = q
      OBVIOUS
    <2>1. p[1] = q[1] /\ p[2] = q[2]
      BY <1>2, <1>3
    <2> QED
      BY <1>2, <2>1
  <1>13. DOMAIN f = P /\ {f[p] : p \in P} = {p[1].key : p \in P}
    OBVIOUS
  <1> HIDE DEF f
  <1>14. Cardinality({f[p] : p \in P}) = Cardinality(P)
    BY <1>4, <1>12, <1>13, ImageSize
  <1> QED
    BY <1>1, <1>11, <1>13, <1>14

\* The row of a key is the one.
LEMMA ValueIs ==
    ASSUME NEW b, Matchable(b), NEW r \in DOMAIN b
    PROVE  Ref!ValueOf(b, r.key) = r.val
  <1>1. \A q \in DOMAIN b : q.key = r.key <=> q = r
    BY DEF Matchable, Once
  <1>2. (CHOOSE q \in DOMAIN b : q.key = r.key) = r
    BY <1>1
  <1> QED
    BY <1>2 DEF Ref!ValueOf, Ref!BagToSet

\* What DiffExact says of two.
Compared(a, b, buckets) ==
    LET report == Ref!DataDiff(a, b, buckets, {"val"})
        ka == Ref!Keys(a) \cap buckets
        kb == Ref!Keys(b) \cap buckets
    IN /\ report.onlyInA = Ref!Cardinality(ka \ kb)
       /\ report.onlyInB = Ref!Cardinality(kb \ ka)
       /\ report.matched = Ref!Cardinality(ka \cap kb)
       /\ report.drift["val"] =
            Ref!Cardinality({k \in ka \cap kb : Ref!ValueOf(a, k) # Ref!ValueOf(b, k)})

\* The report on two such tables.
LEMMA DiffOf ==
    ASSUME NEW a, Matchable(a), NEW b, Matchable(b), NEW buckets
    PROVE  Compared(a, b, buckets)
  <1> DEFINE report == Ref!DataDiff(a, b, buckets, {"val"})
             sa == Ref!Sample(a, buckets)
             sb == Ref!Sample(b, buckets)
             ka == Ref!Keys(a) \cap buckets
             kb == Ref!Keys(b) \cap buckets
             both == Ref!Pairs(sa, sb)
             drifts == {p \in both : p[1].val # p[2].val}
  <1>1. /\ report.onlyInA = Ref!Alone(sa, sb) /\ report.onlyInB = Ref!Alone(sb, sa)
        /\ report.matched = Ref!CountPairs(sa, sb, both)
        /\ report.drift["val"] = Ref!CountPairs(sa, sb, drifts)
    BY DEF Ref!DataDiff
  <1>2. /\ Matchable(sa) /\ DOMAIN sa = {r \in DOMAIN a : r.key \in buckets} /\ Ref!Keys(sa) = ka
        /\ Matchable(sb) /\ DOMAIN sb = {r \in DOMAIN b : r.key \in buckets} /\ Ref!Keys(sb) = kb
    BY Sampled
  <1> HIDE DEF report, sa, sb
  <1>3. report.onlyInA = Cardinality(ka \ kb) /\ report.onlyInB = Cardinality(kb \ ka)
    BY <1>1, <1>2, AloneCounts
  <1>4. drifts \subseteq both
    OBVIOUS
  <1>5. \A r \in DOMAIN sa : r.key # Null
    BY <1>2, KeysAre DEF Matchable
  <1>6. \A p : p \in both <=> /\ p = <<p[1], p[2]>> /\ p[1] \in DOMAIN sa /\ p[2] \in DOMAIN sb
                              /\ p[1].key = p[2].key
    BY <1>5 DEF Ref!Pairs, Ref!Matching, Ref!BagToSet
  <1>7. ASSUME NEW k \in ka \cap kb
        PROVE  \E p \in both : p[1].key = k /\ p[2].key = k
    <2>1. PICK r \in DOMAIN sa, q \in DOMAIN sb : r.key = k /\ q.key = k
      BY <1>2, KeysAre
    <2>2. <<r, q>> = <<<<r, q>>[1], <<r, q>>[2]>> /\ <<r, q>>[1] = r /\ <<r, q>>[2] = q
      OBVIOUS
    <2>3. <<r, q>> \in both
      BY <1>6, <2>1, <2>2
    <2> QED
      BY <2>1, <2>2, <2>3
  <1>8. ASSUME NEW p \in both
        PROVE  /\ p[1].key = p[2].key /\ p[1].key \in ka \cap kb
               /\ Ref!ValueOf(a, p[1].key) = p[1].val /\ Ref!ValueOf(b, p[1].key) = p[2].val
    <2>1. p[1] \in DOMAIN sa /\ p[2] \in DOMAIN sb /\ p[1].key = p[2].key
      BY <1>6
    <2>2. p[1].key \in ka /\ p[2].key \in kb
      BY <1>2, <2>1, KeysAre
    <2>3. p[1] \in DOMAIN a /\ p[2] \in DOMAIN b
      BY <1>2, <2>1
    <2>4. Ref!ValueOf(a, p[1].key) = p[1].val /\ Ref!ValueOf(b, p[2].key) = p[2].val
      BY <2>3, ValueIs
    <2> QED
      BY <2>1, <2>2, <2>4
  <1> HIDE DEF both, ka, kb
  <1>9. {p[1].key : p \in both} = ka \cap kb
    BY <1>7, <1>8
  <1>10. {p[1].key : p \in drifts} = {k \in ka \cap kb : Ref!ValueOf(a, k) # Ref!ValueOf(b, k)}
    <2>1. ASSUME NEW p \in drifts
          PROVE  p[1].key \in ka \cap kb /\ Ref!ValueOf(a, p[1].key) # Ref!ValueOf(b, p[1].key)
      BY <1>8
    <2>2. ASSUME NEW k \in ka \cap kb, Ref!ValueOf(a, k) # Ref!ValueOf(b, k)
          PROVE  \E p \in drifts : p[1].key = k
      <3>1. PICK p \in both : p[1].key = k
        BY <1>7
      <3>2. p[1].val # p[2].val
        BY <1>8, <2>2, <3>1
      <3> QED
        BY <3>1, <3>2
    <2> HIDE DEF drifts
    <2> QED
      BY <2>1, <2>2
  <1> HIDE DEF drifts
  <1>11. /\ Ref!CountPairs(sa, sb, both) = Cardinality({p[1].key : p \in both})
         /\ Ref!CountPairs(sa, sb, drifts) = Cardinality({p[1].key : p \in drifts})
    BY <1>2, <1>4, PairCounts DEF both
  <1> QED
    BY <1>1, <1>3, <1>9, <1>10, <1>11, RefCounts DEF report, ka, kb, Compared

\* What reconciliations leave is a table, of keys and nulls.
LEMMA TablesFinite ==
    ASSUME RInv, NEW v \in RefVersion
    PROVE  Finite(table[v]) /\ Ref!Keys(table[v]) \subseteq Key \cup {Null}
  <1>1. table[v] \in Bag(RowOf)
    BY DEF RInv, RefreshTyped
  <1>2. Finite(table[v]) /\ DOMAIN table[v] \subseteq RowOf
    BY <1>1, BagIs DEF Finite
  <1>3. \A r \in RowOf : r.key \in Key \cup {Null}
    BY DEF RowOf, Ref!Row, Ref!Valid
  <1> QED
    BY <1>2, <1>3, KeysAre

\* A table that the audits of its key find nothing in can be matched.
LEMMA SilentMatches ==
    ASSUME NEW b, Finite(b), Ref!KeyedOnce(b)
    PROVE  Matchable(b)
  <1>1. Once(b)
    BY UniqueIsOnce DEF Ref!KeyedOnce
  <1>2. \A r \in DOMAIN b : r.key # Null
    BY DEF Ref!KeyedOnce, Ref!NotNull, Ref!BagToSet
  <1> QED
    BY <1>1, <1>2, KeysAre DEF Matchable

\* The invariant says that much of the audits and the diff.
LEMMA ChecksMean == RInv => Ref!ChecksExact
  <1> SUFFICES ASSUME RInv
               PROVE  Ref!ChecksExact
    OBVIOUS
  <1>1. \A v \in RefVersion : Audited(table[v])
    BY TablesFinite, AuditsOf
  <1>2. Ref!AuditsExact
    BY <1>1 DEF Ref!AuditsExact, Audited
  <1>3. \A v, w \in RefVersion, buckets \in {Key, {1}} :
            Ref!KeyedOnce(table[v]) /\ Ref!KeyedOnce(table[w]) =>
                Compared(table[v], table[w], buckets)
    BY TablesFinite, SilentMatches, DiffOf
  <1>4. Ref!DiffExact
    BY <1>3 DEF Ref!DiffExact, Compared
  <1> QED
    BY <1>2, <1>4 DEF Ref!ChecksExact

-----------------------------------------------------------------------------
(* The theorems: of whatever part a behaviour is, the others stay          *)

\* All the variables of the instances.
AllVars == <<part, vars, migVars, prjVars, refVars, repVars, schVars, jrnVars>>

\* A step of any part is one of each part, or leaves it as it is.
LEMMA PartSteps ==
    [CommandsNext]_AllVars => /\ [Mig!Next]_migVars /\ [Sch!Next]_schVars
                              /\ [Jrn!Next]_jrnVars /\ [Ref!Next]_refVars
  BY DEF CommandsNext, AllVars

\* Every part starts as it does on its own.
LEMMA PartInits == CommandsInit => Mig!Init /\ Sch!Init /\ Jrn!Init /\ Ref!Init
  BY DEF CommandsInit

\* Whatever versions the binaries have and whatever store they find, the
\* invariant of Migration holds.
LEMMA MInvStays == CommandsSpec => []MInv
  <1>1. CommandsInit => MInv
    BY PartInits, MigrationInit
  <1>2. MInv /\ [CommandsNext]_AllVars => MInv'
    BY PartSteps, MigrationStep
  <1> QED
    BY <1>1, <1>2, PTL DEF CommandsSpec, AllVars

\* What a process has opened has all its version works with, however many open
\* and migrate beside it and are killed, unless an error was swallowed.
THEOREM StoresComplete == CommandsSpec => []OpenedIsComplete
  <1>1. MInv => OpenedIsComplete
    BY MigrationMeans DEF OpenedIsComplete
  <1> QED
    BY <1>1, MInvStays, PTL

\* A migrate that nobody runs beside repairs any store: it has all the version
\* works with, and its one stamp.
THEOREM MigratesRepair == CommandsSpec => []MigrateRepairs
  <1>1. MInv => MigrateRepairs
    BY MigrationMeans DEF MigrateRepairs
  <1> QED
    BY <1>1, MInvStays, PTL

\* If nobody was killed, the copy of such a migrate is the store as it was.
THEOREM BackupsHold == CommandsSpec => []BackupIsTheStore
  <1>1. MInv => BackupIsTheStore
    BY MigrationMeans DEF BackupIsTheStore
  <1> QED
    BY <1>1, MInvStays, PTL

\* However many commands, projects and environments: what the scheduler runs has
\* its worker and is what was registered last; and the journal has every tick.
THEOREM SchedulesKept == CommandsSpec => []ScheduleKept
  <1>1. CommandsInit => SInv /\ JInv
    BY PartInits, ScheduleInit, JournalInit
  <1>2. SInv /\ JInv /\ [CommandsNext]_AllVars => SInv' /\ JInv'
    BY PartSteps, ScheduleStep, JournalStep
  <1>3. SInv /\ JInv => ScheduleKept
    BY JournalMeans DEF ScheduleKept, SInv
  <1> QED
    BY <1>1, <1>2, <1>3, PTL DEF CommandsSpec, AllVars

\* Whatever the query returns and when: on one connection a table is what its
\* reconciliations promise.
THEOREM TablesReconciled == CommandsSpec => []Reconciled
  <1>1. CommandsInit => RInv
    BY PartInits, RefreshInit
  <1>2. RInv /\ [CommandsNext]_AllVars => RInv'
    BY PartSteps, RefreshStep
  <1>3. RInv => Reconciled
    BY RefreshMeans DEF Reconciled
  <1> QED
    BY <1>1, <1>2, <1>3, PTL DEF CommandsSpec, AllVars

\* On both engines and however applies interleave, a closed version stays.
THEOREM HistoryStays == CommandsSpec => ClosedStays
  <1>1. CommandsInit => RInv
    BY PartInits, RefreshInit
  <1>2. RInv /\ [CommandsNext]_AllVars => RInv'
    BY PartSteps, RefreshStep
  <1>3. RInv /\ [CommandsNext]_AllVars =>
            [kind = "scdType2" =>
                \A v \in RefVersion : \A r \in Ref!BagToSet(table[v]) :
                    ~Ref!Open(r) => Ref!Copies(r, table'[v]) >= Ref!Copies(r, table[v])]_(Ref!vars)
    BY PartSteps, ClosedStep DEF Closed, refVars, Ref!vars
  <1> QED
    BY <1>1, <1>2, <1>3, PTL DEF CommandsSpec, AllVars, ClosedStays, Ref!ClosedStays

\* Whatever tables reconciliations leave behind, on both engines: unique and
\* contiguous find what is wrong with the keys and nothing else, and the diff
\* of two tables whose keys are unique and set counts those keys.
THEOREM ChecksAreExact == CommandsSpec => []ChecksExact
  <1>1. CommandsInit => RInv
    BY PartInits, RefreshInit
  <1>2. RInv /\ [CommandsNext]_AllVars => RInv'
    BY PartSteps, RefreshStep
  <1>3. RInv => ChecksExact
    BY ChecksMean DEF ChecksExact
  <1> QED
    BY <1>1, <1>2, <1>3, PTL DEF CommandsSpec, AllVars
=============================================================================
