--------------------------- MODULE PlannerProofs ---------------------------
(***************************************************************************)
(* Proofs about planning and physics, for any models, definitions, chains  *)
(* of applies to any environments, versions of the fingerprint algorithm.  *)
(*                                                                         *)
(* The recursive functions of Planner (fingerprints, actions, what reading *)
(* gives) are well defined because the models are acyclic, which comes     *)
(* first.  Then the books, Books: every record is of a version that some   *)
(* project has, of one algorithm, and with it those of all it reads.  They *)
(* give OneAlgorithm and AppendsSpareOthers whatever is planned.  What a   *)
(* table holds needs more, PInv: a version's table holds the ideal, what   *)
(* the version computes from scratch, whoever wrote the table and under    *)
(* which version.  That stands as long as edits that the plan calls        *)
(* non-breaking are (Careful), and gives Coherent and Isolated.            *)
(***************************************************************************)
EXTENDS Planner, TLAPS

\* Among any models there is one that reads none of them.
LEMMA Minimal ==
    ASSUME NEW names, names \subseteq Name, names # {}
    PROVE  \E n \in names : Deps[n] \cap names = {}
BY PlannerAssumption

LEMMA DepsNames == \A n \in Name : Deps[n] \subseteq Name
BY PlannerAssumption

-----------------------------------------------------------------------------
(***************************************************************************)
(* The recursive functions over the models: fingerprints, the actions of a *)
(* plan, what reading tables gives.  Each is given at a model by what it   *)
(* is at those the model reads, so that there is one and only one; what is *)
(* recursive is told by q.                                                 *)
(***************************************************************************)
FpAt(project, version, n, fp) ==
    ModelFingerprint(project[n], [d \in Deps[n] |-> fp[d]], version)

ActionAt(e, project, asked, n, act) ==
    LET known == Known(e, n)
        fp == FingerprintGraph(project, asked.version)
        a == IF known = None THEN PlainAction(fp[n], "added")
             ELSE IF known = fp[n] THEN PlainAction(fp[n], "unchanged")
             ELSE ChangedAction(e, n, project[n], fp[n], [d \in Deps[n] |-> act[d]], asked)
    IN  WithPhysics(n, a, Snapshot(n, known))

\* A table that is computed reads the tables it is over, another is as it is.
TableAt(computed, fp, over, base, k, read) ==
    IF k \in computed
    THEN Evaluate(fp[k], [d \in Deps[k[1]] |-> read[over[k][d]]])
    ELSE base[k]

\* Of the tables of one model, by fingerprint.
ReadAt(q, n, read) ==
    [f \in {k[2] : k \in {x \in q.tables : x[1] = n}} |->
        IF <<n, f>> \in q.computed
        THEN Evaluate(q.fp[<<n, f>>], [d \in Deps[n] |-> read[d][q.over[<<n, f>>][d][2]]])
        ELSE q.base[<<n, f>>]]

At(q, n, g) ==
    CASE q.what = "fingerprints" -> FpAt(q.project, q.version, n, g)
      [] q.what = "actions" -> ActionAt(q.e, q.project, q.asked, n, g)
      [] q.what = "models" -> n \in q.names \/ \E d \in Deps[n] : g[d]
      [] OTHER -> ReadAt(q, n, g)

\* Names with all they read.
Closed(names) == names \subseteq Name /\ \A n \in names : Deps[n] \subseteq names

\* The function is what it is to be on these names.
On(q, names, g) == Closed(names) /\ \A n \in names : g[n] = At(q, n, g)

LEMMA Local ==
    ASSUME NEW q, NEW n, NEW f, NEW g, \A d \in Deps[n] : f[d] = g[d]
    PROVE  At(q, n, f) = At(q, n, g)
  <1>1. FpAt(q.project, q.version, n, f) = FpAt(q.project, q.version, n, g)
    BY DEF FpAt
  <1>2. ActionAt(q.e, q.project, q.asked, n, f) = ActionAt(q.e, q.project, q.asked, n, g)
    <2>1. [d \in Deps[n] |-> f[d]] = [d \in Deps[n] |-> g[d]]
      OBVIOUS
    <2> QED
      BY <2>1 DEF ActionAt
  <1>3. ReadAt(q, n, f) = ReadAt(q, n, g)
    <2>1. \A x : [d \in Deps[n] |-> f[d][x[d][2]]] = [d \in Deps[n] |-> g[d][x[d][2]]]
      OBVIOUS
    <2> QED
      BY <2>1 DEF ReadAt
  <1>4. (n \in q.names \/ \E d \in Deps[n] : f[d]) = (n \in q.names \/ \E d \in Deps[n] : g[d])
    OBVIOUS
  <1> QED
    BY <1>1, <1>2, <1>3, <1>4, Zenon DEF At

LEMMA Unique ==
    ASSUME NEW q, NEW C, NEW D, NEW f, NEW g, On(q, C, f), On(q, D, g)
    PROVE  \A n \in C \cap D : f[n] = g[n]
  <1> DEFINE differ == {n \in C \cap D : f[n] # g[n]}
  <1> SUFFICES ASSUME differ # {}
               PROVE  FALSE
    OBVIOUS
  <1>1. differ \subseteq Name
    BY DEF On, Closed
  <1>2. PICK n \in differ : Deps[n] \cap differ = {}
    BY <1>1, Minimal
  <1>3. \A d \in Deps[n] : d \in C \cap D
    BY <1>2 DEF On, Closed
  <1>4. \A d \in Deps[n] : f[d] = g[d]
    BY <1>2, <1>3
  <1>5. At(q, n, f) = At(q, n, g)
    BY <1>4, Local
  <1> QED
    BY <1>2, <1>5 DEF On

LEMMA Exists ==
    ASSUME NEW q, NEW M, Closed(M)
    PROVE  \E g : g = [n \in M |-> At(q, n, g)]
  <1> DEFINE U == {n \in M : \E C, g : C \subseteq M /\ n \in C /\ On(q, C, g)}
             G == [n \in M |-> CHOOSE x : \E C, g :
                       C \subseteq M /\ n \in C /\ On(q, C, g) /\ x = g[n]]
  <1>1. ASSUME NEW C \in SUBSET M, NEW g, On(q, C, g), NEW n \in C
        PROVE  G[n] = g[n] /\ n \in U
    <2>1. n \in U
      BY <1>1
    <2>2. \E x : \E D, h : D \subseteq M /\ n \in D /\ On(q, D, h) /\ x = h[n]
      BY <1>1
    <2>3. PICK D, h : D \subseteq M /\ n \in D /\ On(q, D, h) /\ G[n] = h[n]
      BY <2>2
    <2>4. h[n] = g[n]
      BY <1>1, <2>3, Unique
    <2> QED
      BY <2>1, <2>3, <2>4
  <1>2. On(q, U, G)
    <2>1. ASSUME NEW n \in U
          PROVE  Deps[n] \subseteq U /\ G[n] = At(q, n, G)
      <3>1. PICK C, g : C \subseteq M /\ n \in C /\ On(q, C, g)
        OBVIOUS
      <3>0. \A d \in Deps[n] : d \in C
        BY <3>1 DEF On, Closed
      <3> HIDE DEF G, U
      <3>2. \A d \in Deps[n] : d \in C /\ d \in U /\ G[d] = g[d]
        BY <1>1, <3>1, <3>0
      <3>3. G[n] = g[n]
        BY <1>1, <3>1
      <3>4. At(q, n, g) = At(q, n, G)
        BY <3>2, Local
      <3> QED
        BY <3>1, <3>2, <3>3, <3>4 DEF On
    <2>2. U \subseteq Name
      BY DEF Closed
    <2> QED
      BY <2>1, <2>2 DEF On, Closed
  <1>3. U = M
    <2> SUFFICES ASSUME M \ U # {}
                 PROVE  FALSE
      OBVIOUS
    <2>1. PICK n \in M \ U : Deps[n] \cap (M \ U) = {}
      BY Minimal DEF Closed
    <2>2. Deps[n] \subseteq U /\ n \notin Deps[n]
      BY <2>1 DEF Closed
    <2> DEFINE g == [m \in M |-> IF m = n THEN At(q, n, G) ELSE G[m]]
    <2>3. \A m \in U : m # n /\ g[m] = G[m]
      BY <2>1
    <2>4. \A m \in U : At(q, m, g) = At(q, m, G)
      <3> TAKE m \in U
      <3>1. \A d \in Deps[m] : d \in U
        BY <1>2 DEF On, Closed
      <3> HIDE DEF g, G, U
      <3> QED
        BY <2>3, <3>1, Local
    <2>5. At(q, n, g) = At(q, n, G)
      <3> HIDE DEF g, G, U
      <3> QED
        BY <2>2, <2>3, Local
    <2>6. g[n] = At(q, n, G)
      BY <2>1
    <2>7. Closed(U \cup {n})
      <3>1. U \subseteq Name /\ n \in Name /\ \A m \in U : Deps[m] \subseteq U
        BY <2>1, <1>2 DEF On, Closed
      <3> HIDE DEF U
      <3> QED
        BY <2>2, <3>1 DEF Closed
    <2>8. On(q, U \cup {n}, g)
      <3> HIDE DEF g, G, U
      <3> QED
        BY <1>2, <2>3, <2>4, <2>5, <2>6, <2>7 DEF On
    <2>9. U \cup {n} \subseteq M
      BY <2>1
    <2> QED
      BY <2>1, <2>8, <2>9
  <1>4. G = [n \in M |-> At(q, n, G)]
    <2>1. G = [n \in M |-> G[n]]
      OBVIOUS
    <2> HIDE DEF G, U
    <2>2. \A n \in M : G[n] = At(q, n, G)
      BY <1>2, <1>3 DEF On
    <2> QED
      BY <2>1, <2>2
  <1> QED
    BY <1>4

LEMMA ExistsForNames ==
    ASSUME NEW q
    PROVE  \E g : g = [n \in Name |-> At(q, n, g)]
  <1>1. Closed(Name)
    BY DepsNames DEF Closed
  <1>2. \A M : Closed(M) => \E g : g = [n \in M |-> At(q, n, g)]
    BY Exists
  <1> QED
    BY <1>1, <1>2

LEMMA ModelsClosed ==
    ASSUME NEW project \in Projects
    PROVE  Closed(ModelsOf(project))
BY PlannerAssumption DEF Closed, ModelsOf

LEMMA FingerprintGraphDef ==
    ASSUME NEW project \in Projects, NEW version
    PROVE  FingerprintGraph(project, version)
           = [n \in ModelsOf(project) |->
                FpAt(project, version, n, FingerprintGraph(project, version))]
  <1> DEFINE F(g) == [n \in ModelsOf(project) |-> FpAt(project, version, n, g)]
             q == [what |-> "fingerprints", project |-> project, version |-> version]
  <1>1. FingerprintGraph(project, version) = CHOOSE g : g = F(g)
    BY DEF FingerprintGraph, FpAt
  <1>2. \E g : g = F(g)
    <2>1. \E g : g = [n \in ModelsOf(project) |-> At(q, n, g)]
      <3> HIDE DEF q
      <3> QED
        BY ModelsClosed, Exists
    <2>2. \A n, g : At(q, n, g) = FpAt(project, version, n, g)
      BY DEF At
    <2> QED
      BY <2>1, <2>2
  <1> HIDE DEF F
  <1>3. FingerprintGraph(project, version) = F(FingerprintGraph(project, version))
    BY <1>1, <1>2
  <1> QED
    BY <1>3 DEF F

LEMMA PlanChangesDef ==
    ASSUME NEW e, NEW project \in Projects, NEW asked
    PROVE  PlanChanges(e, project, asked)
           = [n \in ModelsOf(project) |->
                ActionAt(e, project, asked, n, PlanChanges(e, project, asked))]
  <1> DEFINE F(g) == [n \in ModelsOf(project) |-> ActionAt(e, project, asked, n, g)]
             q == [what |-> "actions", e |-> e, project |-> project, asked |-> asked]
  <1>1. PlanChanges(e, project, asked) = CHOOSE g : g = F(g)
    BY DEF PlanChanges, ActionAt
  <1>2. \E g : g = F(g)
    <2>1. \E g : g = [n \in ModelsOf(project) |-> At(q, n, g)]
      <3> HIDE DEF q
      <3> QED
        BY ModelsClosed, Exists
    <2>2. \A n, g : At(q, n, g) = ActionAt(e, project, asked, n, g)
      BY DEF At
    <2> QED
      BY <2>1, <2>2
  <1> HIDE DEF F
  <1>3. PlanChanges(e, project, asked) = F(PlanChanges(e, project, asked))
    BY <1>1, <1>2
  <1> QED
    BY <1>3 DEF F

\* The models of a set and all that read them.
LEMMA ReachExists ==
    ASSUME NEW names
    PROVE  \E g : g = [n \in Name |-> n \in names \/ \E d \in Deps[n] : g[d]]
  <1> DEFINE q == [what |-> "models", names |-> names]
  <1>1. \E g : g = [n \in Name |-> At(q, n, g)]
    <2> HIDE DEF q
    <2> QED
      BY ExistsForNames
  <1>2. \A n, g : At(q, n, g) = (n \in names \/ \E d \in Deps[n] : g[d])
    BY DEF At
  <1> QED
    BY <1>1, <1>2

LEMMA DownstreamDef ==
    ASSUME NEW names
    PROVE  /\ Downstream(names) \subseteq Name
           /\ \A n \in Name : n \in Downstream(names) <=>
                  n \in names \/ \E d \in Deps[n] : d \in Downstream(names)
  <1> DEFINE F(g) == [n \in Name |-> n \in names \/ \E d \in Deps[n] : g[d]]
             below == CHOOSE g : g = F(g)
  <1>1. Downstream(names) = {n \in Name : below[n]}
    BY DEF Downstream
  <1>2. \E g : g = F(g)
    BY ReachExists
  <1>3. below = F(below)
    <2> HIDE DEF F
    <2> QED
      BY <1>2
  <1>4. \A n \in Name : below[n] <=> n \in names \/ \E d \in Deps[n] : below[d]
    <2> HIDE DEF below
    <2> QED
      BY <1>3
  <1> HIDE DEF below
  <1> QED
    BY <1>1, <1>4, DepsNames

LEMMA PastViewDef ==
    \A n \in Name : n \notin PastView =>
        \A d \in Deps[n] : Kind[d] # "view" /\ d \notin PastView
  <1> DEFINE F(g) == [n \in Name |-> \E d \in Deps[n] : Kind[d] = "view" \/ g[d]]
             past == CHOOSE g : g = F(g)
             names == {n \in Name : \E d \in Deps[n] : Kind[d] = "view"}
  <1>1. PastView = {n \in Name : past[n]}
    BY DEF PastView
  <1>2. \E g : g = F(g)
    <2>1. PICK g : g = [n \in Name |-> n \in names \/ \E d \in Deps[n] : g[d]]
      <3> HIDE DEF names
      <3> QED
        BY ReachExists
    <2>2. \A n \in Name : g[n] = (n \in names \/ \E d \in Deps[n] : g[d])
      BY <2>1
    <2>3. g = F(g)
      BY <2>1
    <2> QED
      BY <2>3
  <1>3. past = F(past)
    <2> HIDE DEF F
    <2> QED
      BY <1>2
  <1>4. \A n \in Name : past[n] <=> \E d \in Deps[n] : Kind[d] = "view" \/ past[d]
    <2> HIDE DEF past
    <2> QED
      BY <1>3
  <1> HIDE DEF past
  <1> QED
    BY <1>1, <1>4, DepsNames

\* What is computed is over tables there are, of the models it is to read.
Readable(tables, computed, over) ==
    /\ \A k \in tables : k[1] \in Name /\ k = <<k[1], k[2]>>
    /\ \A k \in tables \cap computed : \A d \in Deps[k[1]] :
          over[k][d] \in tables /\ over[k][d][1] = d

\* This is what reading these tables gives.
Reading(read, tables, computed, fp, over, base) ==
    /\ read = [k \in tables |-> read[k]]
    /\ \A k \in tables : read[k] = TableAt(computed, fp, over, base, k, read)

\* Reading is defined when what is computed is over tables there are.
LEMMA ReadingExists ==
    ASSUME NEW tables, NEW computed, NEW fp, NEW over, NEW base,
           Readable(tables, computed, over)
    PROVE  \E read : Reading(read, tables, computed, fp, over, base)
  <1> DEFINE q == [what |-> "tables", tables |-> tables, computed |-> computed,
                   fp |-> fp, over |-> over, base |-> base]
  <1>1. PICK g : g = [n \in Name |-> At(q, n, g)]
    <2> HIDE DEF q
    <2> QED
      BY ExistsForNames
  <1>2. \A n \in Name : g[n] = ReadAt(q, n, g)
    BY <1>1 DEF At
  <1> DEFINE read == [k \in tables |-> g[k[1]][k[2]]]
  <1>3. ASSUME NEW k \in tables
        PROVE  g[k[1]][k[2]] = TableAt(computed, fp, over, base, k, read)
    <2> DEFINE n == k[1]
               f == k[2]
    <2>1. n \in Name /\ k = <<n, f>> /\ f \in {x[2] : x \in {y \in tables : y[1] = n}}
      BY DEF Readable
    <2>0. g[n] = [h \in {x[2] : x \in {y \in tables : y[1] = n}} |->
                    IF <<n, h>> \in computed
                    THEN Evaluate(fp[<<n, h>>],
                                  [d \in Deps[n] |-> g[d][over[<<n, h>>][d][2]]])
                    ELSE base[<<n, h>>]]
      <3>1. g[n] = ReadAt(q, n, g)
        BY <1>2, <2>1
      <3>2. /\ q.tables = tables /\ q.computed = computed /\ q.fp = fp
            /\ q.over = over /\ q.base = base
        OBVIOUS
      <3> HIDE DEF q
      <3> QED
        BY <3>1, <3>2 DEF ReadAt
    <2>2. g[n][f] = IF k \in computed
                    THEN Evaluate(fp[k], [d \in Deps[n] |-> g[d][over[k][d][2]]])
                    ELSE base[k]
      BY <2>1, <2>0
    <2>3. CASE k \in computed
      <3>1. \A d \in Deps[n] : read[over[k][d]] = g[d][over[k][d][2]]
        BY <2>3 DEF Readable
      <3>2. [d \in Deps[n] |-> g[d][over[k][d][2]]] = [d \in Deps[n] |-> read[over[k][d]]]
        BY <3>1
      <3> HIDE DEF read
      <3> QED
        BY <2>2, <2>3, <3>2 DEF TableAt
    <2>4. CASE k \notin computed
      BY <2>2, <2>4 DEF TableAt
    <2> QED
      BY <2>3, <2>4
  <1>4. /\ read = [k \in tables |-> read[k]]
        /\ \A k \in tables : read[k] = g[k[1]][k[2]]
    OBVIOUS
  <1> HIDE DEF read
  <1> QED
    BY <1>3, <1>4 DEF Reading
-----------------------------------------------------------------------------
(***************************************************************************)
(* The invariant.                                                          *)
(***************************************************************************)
\* The tables there can be, by model and fingerprint.
Keys == UNION {{n} \X Fingerprints(n) : n \in Name}

\* What a table holds that was computed from scratch, and all it reads too.
Ideal ==
    LET read[k \in Keys] ==
            Yield(k[1], k[2], [d \in Deps[k[1]] |-> read[<<d, k[2].parents[d]>>]])
    IN  read

AllFingerprints == UNION {Fingerprints(n) : n \in Name}

Record == [name : Name, fp : AllFingerprints, pfp : AllFingerprints,
           ast : {f.ast : f \in AllFingerprints}, version : Versions]

\* A record is of a version there can be, of one algorithm, and so are those
\* of all it reads; the table it names is there.
Recorded(s) ==
    /\ s \in Record
    /\ s.fp \in Fingerprints(s.name) /\ s.pfp \in Fingerprints(s.name)
    /\ s.ast = s.fp.ast
    /\ s.fp.version = s.version /\ s.pfp.version = s.version
    /\ Kind[s.name] \in {"view", "seed"} => s.pfp = s.fp
    /\ <<s.name, s.pfp>> \in DOMAIN table
    /\ \A d \in Deps[s.name] : \E t \in snapshots : t.name = d /\ t.fp = s.fp.parents[d]

\* An environment has whole projects: with a version those its fingerprint
\* was made of.
Promoted(e) ==
    /\ DOMAIN rows[e] \subseteq Name
    /\ \A n \in DOMAIN rows[e] :
         /\ \E s \in snapshots : s.name = n /\ s.fp = rows[e][n]
         /\ Deps[n] \subseteq DOMAIN rows[e]
         /\ rows[e][n].parents = [d \in Deps[n] |-> rows[e][d]]

Books ==
    /\ \A s \in snapshots : Recorded(s)
    /\ \A s, t \in snapshots : s.name = t.name /\ s.fp = t.fp => s = t
    /\ rows = [e \in Env |-> rows[e]]
    /\ \A e \in Env : Promoted(e)

\* A view is over the tables of the versions it was planned on.
Over(s) ==
    Kind[s.name] = "view" =>
        LET view == table[<<s.name, s.pfp>>] IN
        /\ view.fp = s.fp
        /\ \A d \in Deps[s.name] : \A t \in snapshots :
              t.name = d /\ t.fp = s.fp.parents[d] => view.over[d] = <<d, t.pfp>>

\* What a version's table holds is what the version computes, whoever wrote it.
Holds(s) ==
    /\ Ideal[<<s.name, s.pfp>>] = Ideal[<<s.name, s.fp>>]
    /\ Kind[s.name] # "view" => table[<<s.name, s.pfp>>] = Ideal[<<s.name, s.fp>>]

Kept ==
    /\ kept \subseteq Name
    /\ \A n \in Name : \A d \in Deps[n] : d \in kept => n \in kept

PInv == /\ Books /\ Kept
        /\ \A s \in snapshots : Over(s) /\ (s.name \notin kept => Holds(s))

\* The columns of its parents that a query mentions.
Mentions(ast) == Reads[ast.rest] \cup UNION {Reads[i] : i \in Range(ast.list)}

\* What the plan takes for granted of a model it calls non-breaking, having
\* compared its ASTs alone: its own metadata is as it was, it does not select
\* distinct rows, its parents give it what they gave, and no query that read
\* it mentions a column it gains (which would be taken from another parent).
Lasting(e, project, asked) ==
    LET act == PlanChanges(e, project, asked) IN
    \A n \in DOMAIN act \cap DOMAIN rows[e] :
        LET old == rows[e][n]
            new == act[n].fp
            gained == {Column[i] : i \in Range(new.ast.list)}
                      \ {Column[i] : i \in Range(old.ast.list)}
        IN  act[n].change = "non-breaking" =>
            /\ new.meta = old.meta
            /\ old.ast.rest \notin Distinct
            /\ \A d \in Deps[n] : act[d].change # "unchanged" => SameData(act[d])
            /\ \A m \in DOMAIN act \cap DOMAIN rows[e] :
                  n \in Deps[m] => Mentions(rows[e][m].ast) \cap gained = {}

\* No apply is of a plan that takes wrongly for granted.
Careful ==
    \A e \in Env, p \in Projects, f \in Forward, v \in Verdicts, a \in Versions :
        LET asked == [forward |-> f, verdicts |-> v, version |-> a] IN
        Apply(e, p, asked) => Lasting(e, p, asked)

\* An item of a list has a column of its own.
ColumnsApart ==
    \A p \in Projects : \A n \in Name : p[n] # None /\ p[n].ast # None =>
        \A i, j \in Range(p[n].ast.list) : Column[i] = Column[j] => i = j
-----------------------------------------------------------------------------
(* Facts about fingerprints.                                               *)

\* A project's fingerprints, model by model.
LEMMA ProjectFingerprint ==
    ASSUME NEW project \in Projects, NEW version \in Versions,
           NEW n \in ModelsOf(project)
    PROVE  LET fp == FingerprintGraph(project, version) IN
           /\ n \in Name
           /\ fp[n] = ModelFingerprint(project[n], [d \in Deps[n] |-> fp[d]], version)
           /\ fp[n] \in Fingerprints(n)
           /\ Deps[n] \subseteq ModelsOf(project)
  <1>1. FingerprintGraph(project, version)[n]
        = FpAt(project, version, n, FingerprintGraph(project, version))
    BY FingerprintGraphDef
  <1>2. n \in Name /\ project[n] # None
    BY DEF ModelsOf
  <1>3. <<project, version>> \in {r \in Projects \X Versions : r[1][n] # None}
    BY <1>2
  <1>4. FingerprintGraph(project, version)[n] \in Fingerprints(n)
    BY <1>3 DEF Fingerprints
  <1>5. Deps[n] \subseteq ModelsOf(project)
    BY ModelsClosed DEF Closed
  <1> QED
    BY <1>1, <1>2, <1>4, <1>5 DEF FpAt

\* What a fingerprint hashes: the fingerprints of the parents, of the same
\* algorithm.
LEMMA FingerprintShape ==
    ASSUME NEW n \in Name, NEW f \in Fingerprints(n)
    PROVE  /\ f = [ast |-> f.ast, meta |-> f.meta, parents |-> f.parents, version |-> f.version]
           /\ f.parents = [d \in Deps[n] |-> f.parents[d]]
           /\ \A d \in Deps[n] : /\ f.parents[d] \in Fingerprints(d)
                                 /\ f.parents[d].version = f.version
           /\ f.version \in Versions
           /\ f.ast = None <=> Kind[n] = "seed"
           /\ \E p \in Projects : p[n] # None /\ p[n].ast = f.ast
           /\ f # None /\ f \in AllFingerprints
  <1>1. PICK p \in Projects, v \in Versions : p[n] # None /\ f = FingerprintGraph(p, v)[n]
    BY DEF Fingerprints
  <1> DEFINE fp == FingerprintGraph(p, v)
  <1>2. n \in ModelsOf(p)
    BY <1>1 DEF ModelsOf
  <1>3. /\ f = ModelFingerprint(p[n], [d \in Deps[n] |-> fp[d]], v)
        /\ Deps[n] \subseteq ModelsOf(p)
    BY <1>1, <1>2, ProjectFingerprint
  <1>4. \A d \in Deps[n] : fp[d] \in Fingerprints(d) /\ fp[d].version = v
    <2> TAKE d \in Deps[n]
    <2>1. d \in ModelsOf(p)
      BY <1>3
    <2>2. fp[d] \in Fingerprints(d)
          /\ fp[d] = ModelFingerprint(p[d], [x \in Deps[d] |-> fp[x]], v)
      BY <2>1, ProjectFingerprint
    <2> QED
      BY <2>2 DEF ModelFingerprint
  <1>5. /\ f.ast = p[n].ast /\ f.version = v
        /\ f.parents = [d \in Deps[n] |-> fp[d]]
        /\ f = [ast |-> f.ast, meta |-> f.meta, parents |-> f.parents, version |-> f.version]
    BY <1>3 DEF ModelFingerprint
  <1>6. f.ast = None <=> Kind[n] = "seed"
    BY <1>1, <1>5, PlannerAssumption
  <1>7. f \in AllFingerprints
    BY DEF AllFingerprints
  <1>8. f # None
    BY <1>7, NoneAssumption DEF AllFingerprints
  <1> HIDE DEF fp
  <1> QED
    BY <1>1, <1>4, <1>5, <1>6, <1>7, <1>8

LEMMA KeysAre ==
    \A n, f : <<n, f>> \in Keys <=> n \in Name /\ f \in Fingerprints(n)
BY DEF Keys

\* What a version computes from scratch, from what its parents do.
LEMMA IdealDef ==
    ASSUME NEW n \in Name, NEW f \in Fingerprints(n)
    PROVE  Ideal[<<n, f>>] = IF Kind[n] = "seed" THEN SeedContent(f)
                             ELSE Evaluate(f, [d \in Deps[n] |-> Ideal[<<d, f.parents[d]>>]])
  <1> DEFINE computed == {k \in Keys : Kind[k[1]] # "seed"}
             fp == [k \in Keys |-> k[2]]
             over == [k \in Keys |-> [d \in Deps[k[1]] |-> <<d, k[2].parents[d]>>]]
             base == [k \in Keys |-> SeedContent(k[2])]
             F(g) == [k \in Keys |-> TableAt(computed, fp, over, base, k, g)]
             G(g) == [k \in Keys |-> Yield(k[1], k[2],
                                         [d \in Deps[k[1]] |-> g[<<d, k[2].parents[d]>>]])]
  <1>1. \A k \in Keys : k[1] \in Name /\ k[2] \in Fingerprints(k[1]) /\ k = <<k[1], k[2]>>
    BY DEF Keys
  <1>2. \A k \in Keys \cap computed : \A d \in Deps[k[1]] :
            over[k][d] \in Keys /\ over[k][d][1] = d
    <2> TAKE k \in Keys \cap computed
    <2> TAKE d \in Deps[k[1]]
    <2>0. k[1] \in Name /\ k[2] \in Fingerprints(k[1])
      BY <1>1
    <2>1. k[2].parents[d] \in Fingerprints(d)
      <3> HIDE DEF computed, fp, over, base
      <3> QED
        BY <2>0, FingerprintShape
    <2>2. d \in Name
      BY <1>1, DepsNames
    <2> QED
      BY <2>1, <2>2, KeysAre
  <1>3. \E g : g = F(g)
    <2> HIDE DEF computed, fp, over, base
    <2>1. Readable(Keys, computed, over)
      BY <1>1, <1>2 DEF Readable
    <2>2. PICK g : Reading(g, Keys, computed, fp, over, base)
      BY <2>1, ReadingExists
    <2>3. g = F(g)
      BY <2>2 DEF Reading
    <2> QED
      BY <2>3
  <1>4. ASSUME NEW g
        PROVE  F(g) = G(g)
    <2>1. ASSUME NEW k \in Keys
          PROVE  TableAt(computed, fp, over, base, k, g)
                 = Yield(k[1], k[2], [d \in Deps[k[1]] |-> g[<<d, k[2].parents[d]>>]])
      <3>1. [d \in Deps[k[1]] |-> [x \in Deps[k[1]] |-> g[<<x, k[2].parents[x]>>]][d]]
            = [d \in Deps[k[1]] |-> g[<<d, k[2].parents[d]>>]]
        OBVIOUS
      <3>2. [d \in Deps[k[1]] |-> g[over[k][d]]]
            = [d \in Deps[k[1]] |-> g[<<d, k[2].parents[d]>>]]
        OBVIOUS
      <3>3. k \in computed <=> Kind[k[1]] # "seed"
        OBVIOUS
      <3>4. fp[k] = k[2] /\ base[k] = SeedContent(k[2])
        OBVIOUS
      <3> HIDE DEF computed, fp, over, base
      <3> QED
        BY <3>1, <3>2, <3>3, <3>4 DEF TableAt, Yield
    <2> HIDE DEF computed, fp, over, base
    <2> QED
      BY <2>1
  <1>5. Ideal = CHOOSE g : g = G(g)
    BY DEF Ideal
  <1>6. Ideal = G(Ideal)
    <2>1. \E g : g = G(g)
      <3> HIDE DEF F, G
      <3> QED
        BY <1>3, <1>4
    <2> HIDE DEF G
    <2> QED
      BY <1>5, <2>1
  <1>7. <<n, f>> \in Keys
    BY KeysAre
  <1>8. Ideal[<<n, f>>] = Yield(n, f, [d \in Deps[n] |-> Ideal[<<d, f.parents[d]>>]])
    BY <1>6, <1>7
  <1>9. [d \in Deps[n] |-> [x \in Deps[n] |-> Ideal[<<x, f.parents[x]>>]][d]]
        = [d \in Deps[n] |-> Ideal[<<d, f.parents[d]>>]]
    OBVIOUS
  <1> QED
    BY <1>8, <1>9 DEF Yield

-----------------------------------------------------------------------------
(* Facts about the records.                                                *)

LEMMA SnapshotNone ==
    ASSUME Books, NEW n, NEW f
    PROVE  /\ Snapshot(n, f) = None <=> ~ \E s \in snapshots : s.name = n /\ s.fp = f
           /\ Snapshot(n, f) # None =>
                /\ Snapshot(n, f) \in snapshots
                /\ Snapshot(n, f).name = n /\ Snapshot(n, f).fp = f
  <1>1. \A s \in snapshots : s # None
    BY NoneAssumption DEF Books, Recorded, Record, AllFingerprints
  <1>2. CASE \E s \in snapshots : s.name = n /\ s.fp = f
    <2>1. /\ Snapshot(n, f) \in snapshots
          /\ Snapshot(n, f).name = n /\ Snapshot(n, f).fp = f
      BY <1>2 DEF Snapshot
    <2> QED
      BY <1>1, <1>2, <2>1
  <1>3. CASE ~ \E s \in snapshots : s.name = n /\ s.fp = f
    BY <1>3 DEF Snapshot
  <1> QED
    BY <1>2, <1>3

LEMMA SnapshotIs ==
    ASSUME Books, NEW s \in snapshots
    PROVE  Snapshot(s.name, s.fp) = s /\ s # None
  <1>1. Snapshot(s.name, s.fp) # None
    BY SnapshotNone
  <1>2. /\ Snapshot(s.name, s.fp) \in snapshots
        /\ Snapshot(s.name, s.fp).name = s.name /\ Snapshot(s.name, s.fp).fp = s.fp
    BY <1>1, SnapshotNone
  <1> QED
    BY <1>1, <1>2 DEF Books
-----------------------------------------------------------------------------
(* Facts about a plan.                                                     *)

\* What an environment has of a model.
LEMMA KnownIs ==
    ASSUME Books, NEW e \in Env, NEW n
    PROVE  /\ Known(e, n) # None <=> n \in DOMAIN rows[e]
           /\ n \in DOMAIN rows[e] =>
                /\ n \in Name /\ Known(e, n) = rows[e][n]
                /\ rows[e][n] \in Fingerprints(n)
                /\ Snapshot(n, rows[e][n]) \in snapshots
                /\ Snapshot(n, rows[e][n]).name = n
                /\ Snapshot(n, rows[e][n]).fp = rows[e][n]
                /\ Snapshot(n, rows[e][n]) # None
  <1> SUFFICES ASSUME n \in DOMAIN rows[e]
               PROVE  /\ n \in Name /\ rows[e][n] # None
                      /\ rows[e][n] \in Fingerprints(n)
                      /\ Snapshot(n, rows[e][n]) \in snapshots
                      /\ Snapshot(n, rows[e][n]).name = n
                      /\ Snapshot(n, rows[e][n]).fp = rows[e][n]
                      /\ Snapshot(n, rows[e][n]) # None
    BY DEF Known
  <1>1. Promoted(e)
    BY DEF Books
  <1>2. PICK s \in snapshots : s.name = n /\ s.fp = rows[e][n]
    BY <1>1 DEF Promoted
  <1>3. n \in Name /\ rows[e][n] \in Fingerprints(n)
    BY <1>1, <1>2 DEF Promoted, Books, Recorded
  <1>4. rows[e][n] # None
    BY <1>3, FingerprintShape
  <1>5. Snapshot(n, rows[e][n]) = s /\ s # None
    BY <1>2, SnapshotIs
  <1> QED
    BY <1>2, <1>3, <1>4, <1>5

\* A model of the plan, before its physics is looked up.
Asked(e, project, asked, n) ==
    ChangedAction(e, n, project[n], FingerprintGraph(project, asked.version)[n],
                  [d \in Deps[n] |-> PlanChanges(e, project, asked)[d]], asked)

\* The three kinds of actions, and the physics of each.
LEMMA Planned ==
    ASSUME NEW e, NEW project \in Projects, NEW asked, NEW n \in ModelsOf(project)
    PROVE  LET act == PlanChanges(e, project, asked)[n]
               f == FingerprintGraph(project, asked.version)[n]
               known == Known(e, n)
               a == Asked(e, project, asked, n)
               existing == Snapshot(n, f)
           IN
           /\ act.fp = f
           /\ known = None => act.change = "added" /\ act.from = None /\ ~act.reused
           /\ known # None /\ known = f =>
                act.change = "unchanged" /\ act.from = None /\ ~act.reused
           /\ known # None /\ known # f =>
                act.change = a.change /\ act.from = a.from /\ act.reused = a.reused
           /\ act.pfp = IF existing # None THEN existing.pfp
                        ELSE IF act.from # None THEN Snapshot(n, known).pfp ELSE f
           /\ act.build <=> act.change # "unchanged" /\ existing = None
  <1> DEFINE act == PlanChanges(e, project, asked)
             f == FingerprintGraph(project, asked.version)[n]
             known == Known(e, n)
             a == IF known = None THEN PlainAction(f, "added")
                  ELSE IF known = f THEN PlainAction(f, "unchanged")
                  ELSE Asked(e, project, asked, n)
  <1>1. act[n] = ActionAt(e, project, asked, n, act)
    BY PlanChangesDef
  <1>2. act[n] = WithPhysics(n, a, Snapshot(n, known))
    BY <1>1 DEF ActionAt, Asked
  <1>3. a.fp = f
    BY DEF Asked, ChangedAction, PlainAction
  <1>4. /\ act[n].fp = a.fp /\ act[n].reused = a.reused /\ act[n].change = a.change
        /\ act[n].from = a.from
        /\ act[n].pfp = IF Snapshot(n, a.fp) # None THEN Snapshot(n, a.fp).pfp
                        ELSE IF a.from # None THEN Snapshot(n, known).pfp ELSE a.fp
        /\ act[n].build = (a.change # "unchanged" /\ Snapshot(n, a.fp) = None)
    BY <1>2 DEF WithPhysics
  <1>5. known = None => a.change = "added" /\ a.from = None /\ ~a.reused
    BY DEF PlainAction
  <1>6. known # None /\ known = f => a.change = "unchanged" /\ a.from = None /\ ~a.reused
    BY DEF PlainAction
  <1>7. known # None /\ known # f => a = Asked(e, project, asked, n)
    OBVIOUS
  <1> HIDE DEF a, act
  <1> QED
    BY <1>3, <1>4, <1>5, <1>6, <1>7 DEF act

\* The steps by which a model that has changed is given its action.
Verdict(e, project, asked, n) ==
    Categorize(OldAst(Snapshot(n, Known(e, n)), asked.version), project[n].ast)

Stated(e, project, asked, n) ==
    IF Overridden(n, Verdict(e, project, asked, n), asked.verdicts)
    THEN asked.verdicts[n] ELSE Verdict(e, project, asked, n)

ByParents(e, project, asked, n) ==
    /\ Stated(e, project, asked, n) = "indirect"
    /\ ParentsOnly(e, n, project[n], asked.version)

Moved(act, n) == {d \in Deps[n] : act[d].change # "unchanged"}

Cascaded(e, project, asked, n) ==
    LET act == PlanChanges(e, project, asked) IN
    /\ ByParents(e, project, asked, n) /\ Kind[n] = "timeRange"
    /\ \A d \in Moved(act, n) : act[d].change = "forward-only"

Forwarded(e, project, asked, n) ==
    /\ Comparable(Snapshot(n, Known(e, n)), asked.version)
    /\ n \in asked.forward \/ Cascaded(e, project, asked, n)

Inherits(e, project, asked, n) ==
    LET act == PlanChanges(e, project, asked) IN
    /\ ~Forwarded(e, project, asked, n)
    /\ ByParents(e, project, asked, n) /\ Kind[n] \in Reusable /\ Moved(act, n) # {}
    /\ \A d \in Moved(act, n) : SameData(act[d])

\* A model that an environment has and that changes.
LEMMA Changed ==
    ASSUME Books, NEW e \in Env, NEW project \in Projects, NEW asked,
           NEW n \in ModelsOf(project), n \in DOMAIN rows[e],
           rows[e][n] # FingerprintGraph(project, asked.version)[n]
    PROVE  LET act == PlanChanges(e, project, asked)
               old == rows[e][n]
           IN  /\ act[n].change = IF Forwarded(e, project, asked, n) THEN "forward-only"
                                  ELSE Stated(e, project, asked, n)
               /\ act[n].reused = Inherits(e, project, asked, n)
               /\ act[n].from = IF Forwarded(e, project, asked, n)
                                     \/ Inherits(e, project, asked, n) THEN old ELSE None
  <1> DEFINE act == PlanChanges(e, project, asked)
             a == Asked(e, project, asked, n)
             f == FingerprintGraph(project, asked.version)[n]
  <1>1. Known(e, n) = rows[e][n] /\ Known(e, n) # None
    BY KnownIs
  <1>2. act[n].change = a.change /\ act[n].from = a.from /\ act[n].reused = a.reused
    BY <1>1, Planned
  <1>3. a = [fp |-> f, reused |-> Inherits(e, project, asked, n),
             change |-> IF Forwarded(e, project, asked, n) THEN "forward-only"
                        ELSE Stated(e, project, asked, n),
             from |-> IF Forwarded(e, project, asked, n) \/ Inherits(e, project, asked, n)
                      THEN Known(e, n) ELSE None]
    <2> DEFINE p == [d \in Deps[n] |-> act[d]]
               changed == {d \in Deps[n] : p[d].change # "unchanged"}
    <2>1. changed = Moved(act, n)
      BY DEF Moved
    <2>2. \A d \in changed : p[d] = act[d]
      OBVIOUS
    <2>3. (\A d \in changed : p[d].change = "forward-only")
          <=> \A d \in Moved(act, n) : act[d].change = "forward-only"
      BY <2>1, <2>2
    <2>4. (\A d \in changed : SameData(p[d])) <=> \A d \in Moved(act, n) : SameData(act[d])
      BY <2>1, <2>2
    <2> HIDE DEF act
    <2> QED
      BY <2>1, <2>3, <2>4 DEF Asked, ChangedAction, Inherits, Forwarded, Cascaded, ByParents,
         Stated, Verdict, act
  <1> HIDE DEF act, a
  <1>4. /\ a.change = IF Forwarded(e, project, asked, n) THEN "forward-only"
                      ELSE Stated(e, project, asked, n)
        /\ a.from = IF Forwarded(e, project, asked, n) \/ Inherits(e, project, asked, n)
                    THEN Known(e, n) ELSE None
    BY <1>3
  <1>5. a.reused = Inherits(e, project, asked, n)
    BY <1>3, Zenon
  <1> QED
    BY <1>1, <1>2, <1>4, <1>5, Zenon DEF act

\* What an operator asks of an apply.
Askings == [forward : Forward, verdicts : Verdicts, version : Versions]

LEMMA Verdicted ==
    ASSUME NEW e, NEW project, NEW asked \in Askings, NEW n
    PROVE  /\ Verdict(e, project, asked, n) \in {"breaking", "indirect", "non-breaking"}
           /\ Stated(e, project, asked, n) \in {"breaking", "indirect", "non-breaking"}
           /\ Stated(e, project, asked, n) = "indirect" =>
                Verdict(e, project, asked, n) = "indirect"
  <1>1. Verdict(e, project, asked, n) \in {"breaking", "indirect", "non-breaking"}
    BY DEF Verdict, Categorize
  <1>2. n \in DOMAIN asked.verdicts => asked.verdicts[n] \in {"breaking", "non-breaking"}
    BY PlannerAssumption DEF Askings
  <1> HIDE DEF Verdict
  <1> QED
    BY <1>1, <1>2 DEF Stated, Overridden

\* The AST an environment's version is compared by is that of its fingerprint.
LEMMA OldAstIs ==
    ASSUME Books, NEW e \in Env, NEW asked, NEW n \in DOMAIN rows[e]
    PROVE  LET old == OldAst(Snapshot(n, Known(e, n)), asked.version) IN
           /\ Comparable(Snapshot(n, Known(e, n)), asked.version)
                <=> rows[e][n].version = asked.version
           /\ old = IF rows[e][n].version = asked.version THEN rows[e][n].ast ELSE None
  <1>1. Known(e, n) = rows[e][n]
    BY KnownIs
  <1> DEFINE s == Snapshot(n, rows[e][n])
  <1>2. s \in snapshots /\ s.fp = rows[e][n] /\ s # None
    BY KnownIs
  <1>3. s.ast = s.fp.ast /\ s.version = s.fp.version
    BY <1>2 DEF Books, Recorded
  <1> HIDE DEF s
  <1> QED
    BY <1>1, <1>2, <1>3 DEF OldAst, Comparable, s

\* A model is unchanged only when the environment has its version.
LEMMA Unchanged ==
    ASSUME Books, NEW e \in Env, NEW project \in Projects, NEW asked \in Askings,
           NEW n \in ModelsOf(project)
    PROVE  LET act == PlanChanges(e, project, asked)
               f == FingerprintGraph(project, asked.version)[n]
           IN  /\ n \in Name /\ act[n].fp = f /\ f \in Fingerprints(n)
               /\ act[n].change = "unchanged" <=> n \in DOMAIN rows[e] /\ rows[e][n] = f
               /\ act[n].change = "unchanged" => Snapshot(n, f) # None
               /\ act[n].change \in {"non-breaking", "forward-only", "indirect", "breaking"}
                    => n \in DOMAIN rows[e] /\ rows[e][n] # f
               /\ act[n].from # None => n \in DOMAIN rows[e] /\ rows[e][n] # f
               /\ act[n].reused => n \in DOMAIN rows[e] /\ rows[e][n] # f
  <1> DEFINE act == PlanChanges(e, project, asked)
             f == FingerprintGraph(project, asked.version)[n]
  <1>1. /\ act[n].fp = f
        /\ Known(e, n) = None => /\ act[n].change = "added" /\ act[n].from = None
                                 /\ ~act[n].reused
        /\ Known(e, n) # None /\ Known(e, n) = f =>
              act[n].change = "unchanged" /\ act[n].from = None /\ ~act[n].reused
    BY Planned
  <1>2. /\ Known(e, n) # None <=> n \in DOMAIN rows[e]
        /\ n \in DOMAIN rows[e] => Known(e, n) = rows[e][n] /\ Snapshot(n, rows[e][n]) # None
    BY KnownIs
  <1>3. n \in DOMAIN rows[e] /\ rows[e][n] # f => act[n].change # "unchanged"
    <2> SUFFICES ASSUME n \in DOMAIN rows[e], rows[e][n] # f
                 PROVE  act[n].change # "unchanged"
      OBVIOUS
    <2>1. act[n].change = IF Forwarded(e, project, asked, n) THEN "forward-only"
                          ELSE Stated(e, project, asked, n)
      BY Changed
    <2> HIDE DEF act
    <2> QED
      BY <2>1, Verdicted
  <1>4. n \in Name /\ f \in Fingerprints(n)
    <2>1. asked.version \in Versions
      BY DEF Askings
    <2> QED
      BY <2>1, ProjectFingerprint
  <1> HIDE DEF act, f
  <1> QED
    BY <1>1, <1>2, <1>3, <1>4 DEF act, f

\* Of a model that changes for its parents alone some parent has changed.
LEMMA SomeMoved ==
    ASSUME Books, NEW e \in Env, NEW project \in Projects, NEW asked \in Askings,
           NEW n \in ModelsOf(project), n \in DOMAIN rows[e],
           rows[e][n] # FingerprintGraph(project, asked.version)[n],
           ParentsOnly(e, n, project[n], asked.version)
    PROVE  /\ Moved(PlanChanges(e, project, asked), n) # {}
           /\ Deps[n] \subseteq ModelsOf(project) /\ Deps[n] \subseteq DOMAIN rows[e]
           /\ rows[e][n] = ModelFingerprint(project[n], [d \in Deps[n] |-> rows[e][d]],
                                            asked.version)
  <1> DEFINE act == PlanChanges(e, project, asked)
             fp == FingerprintGraph(project, asked.version)
  <1>1. asked.version \in Versions
    BY DEF Askings
  <1>2. /\ fp[n] = ModelFingerprint(project[n], [d \in Deps[n] |-> fp[d]], asked.version)
        /\ Deps[n] \subseteq ModelsOf(project)
    BY <1>1, ProjectFingerprint
  <1>3. /\ rows[e][n] = ModelFingerprint(project[n], [d \in Deps[n] |-> rows[e][d]],
                                         asked.version)
        /\ Deps[n] \subseteq DOMAIN rows[e]
    BY KnownIs DEF ParentsOnly
  <1>4. ASSUME Moved(act, n) = {}
        PROVE  FALSE
    <2>1. \A d \in Deps[n] : act[d].change = "unchanged"
      BY <1>4 DEF Moved
    <2>2. \A d \in Deps[n] : rows[e][d] = fp[d]
      BY <1>2, <2>1, Unchanged
    <2>3. [d \in Deps[n] |-> rows[e][d]] = [d \in Deps[n] |-> fp[d]]
      BY <2>2
    <2> QED
      BY <1>2, <1>3, <2>3
  <1> QED
    BY <1>2, <1>3, <1>4

\* Physics is inherited from a version of the same algorithm, under
\* forward-only or by a model that is reused, of a kind that can be.
LEMMA Inherited ==
    ASSUME Books, NEW e \in Env, NEW project \in Projects, NEW asked \in Askings,
           ~Refused(e, project, asked),
           NEW n \in ModelsOf(project), PlanChanges(e, project, asked)[n].from # None
    PROVE  /\ n \in DOMAIN rows[e]
           /\ PlanChanges(e, project, asked)[n].from = rows[e][n]
           /\ rows[e][n].version = asked.version
           /\ Kind[n] \in Reusable
           /\ \/ PlanChanges(e, project, asked)[n].change = "forward-only"
              \/ PlanChanges(e, project, asked)[n].reused
  <1> DEFINE act == PlanChanges(e, project, asked)
  <1>1. n \in DOMAIN rows[e] /\ rows[e][n] # FingerprintGraph(project, asked.version)[n]
    BY Unchanged
  <1>2. /\ act[n].change = IF Forwarded(e, project, asked, n) THEN "forward-only"
                           ELSE Stated(e, project, asked, n)
        /\ act[n].reused = Inherits(e, project, asked, n)
        /\ act[n].from = IF Forwarded(e, project, asked, n) \/ Inherits(e, project, asked, n)
                         THEN rows[e][n] ELSE None
    BY <1>1, Changed
  <1>3. \A m \in asked.forward : Kind[m] = "timeRange"
    BY DEF Refused
  <1> HIDE DEF act
  <1>4. CASE Forwarded(e, project, asked, n)
    <2>1. rows[e][n].version = asked.version
      BY <1>1, <1>4, OldAstIs DEF Forwarded
    <2>2. Kind[n] = "timeRange"
      BY <1>3, <1>4 DEF Forwarded, Cascaded
    <2> QED
      BY <1>1, <1>2, <1>4, <2>1, <2>2 DEF act, Reusable
  <1>5. CASE ~Forwarded(e, project, asked, n)
    <2>1. Inherits(e, project, asked, n)
      BY <1>2, <1>5 DEF act
    <2>2. Verdict(e, project, asked, n) = "indirect" /\ Kind[n] \in Reusable
      BY <2>1, Verdicted DEF Inherits, ByParents
    <2>3. OldAst(Snapshot(n, Known(e, n)), asked.version) # None
      BY <2>2 DEF Verdict, Categorize
    <2>4. rows[e][n].version = asked.version
      BY <1>1, <2>3, OldAstIs
    <2> QED
      BY <1>1, <1>2, <2>1, <2>2, <2>4, Zenon DEF act
  <1> QED
    BY <1>4, <1>5
-----------------------------------------------------------------------------
(* The books: what is recorded, and of which algorithm.                    *)

Fresh(act) == {<<n, act[n].pfp>> : n \in Written(act)}

LEMMA BuiltDomain ==
    ASSUME NEW act
    PROVE  DOMAIN Built(act) = DOMAIN table \cup Fresh(act)
BY DEF Built, Fresh

LEMMA ActionsDomain ==
    ASSUME NEW e, NEW project \in Projects, NEW asked
    PROVE  DOMAIN PlanChanges(e, project, asked) = ModelsOf(project)
BY PlanChangesDef

\* The physics of a planned model is of the algorithm in use; its table is
\* there or will be written, its version is recorded or will be.
LEMMA PhysicsIs ==
    ASSUME Books, NEW e \in Env, NEW project \in Projects, NEW asked \in Askings,
           ~Refused(e, project, asked), NEW n \in ModelsOf(project)
    PROVE  LET act == PlanChanges(e, project, asked) IN
           /\ act[n].pfp \in Fingerprints(n)
           /\ act[n].fp.version = asked.version /\ act[n].pfp.version = asked.version
           /\ Kind[n] \in {"view", "seed"} => act[n].from = None /\ act[n].pfp = act[n].fp
           /\ <<n, act[n].pfp>> \in Live \cup Fresh(act)
           /\ \E t \in snapshots \cup Registered(act, asked.version) :
                 t.name = n /\ t.fp = act[n].fp /\ t.pfp = act[n].pfp
  <1> DEFINE act == PlanChanges(e, project, asked)
             f == FingerprintGraph(project, asked.version)[n]
             existing == Snapshot(n, f)
             previous == Snapshot(n, Known(e, n))
  <1>1. n \in Name /\ act[n].fp = f /\ f \in Fingerprints(n) /\ f.version = asked.version
    <2>1. asked.version \in Versions
      BY DEF Askings
    <2>2. f = ModelFingerprint(project[n],
                [d \in Deps[n] |-> FingerprintGraph(project, asked.version)[d]], asked.version)
      BY <2>1, ProjectFingerprint
    <2>3. f.version = asked.version
      BY <2>2 DEF ModelFingerprint
    <2> QED
      BY <2>3, Unchanged
  <1>2. /\ act[n].pfp = IF existing # None THEN existing.pfp
                        ELSE IF act[n].from # None THEN previous.pfp ELSE f
        /\ act[n].build <=> act[n].change # "unchanged" /\ existing = None
    BY Planned
  <1>3. act[n].change = "unchanged" => existing # None
    BY Unchanged
  <1>4. n \in DOMAIN act
    BY ActionsDomain
  <1>5. existing # None => existing \in snapshots /\ existing.name = n /\ existing.fp = f
    BY SnapshotNone
  <1>6. act[n].from # None =>
          /\ previous \in snapshots /\ previous.name = n /\ previous.fp.version = asked.version
          /\ Kind[n] \in Reusable
    <2> SUFFICES ASSUME act[n].from # None
                 PROVE  /\ previous \in snapshots /\ previous.name = n
                        /\ previous.fp.version = asked.version /\ Kind[n] \in Reusable
      OBVIOUS
    <2>1. n \in DOMAIN rows[e] /\ rows[e][n].version = asked.version /\ Kind[n] \in Reusable
      BY Inherited
    <2> QED
      BY <2>1, KnownIs
  <1> HIDE DEF act, f, existing, previous
  <1>7. CASE existing # None
    <2>1. Recorded(existing)
      BY <1>5, <1>7 DEF Books
    <2>2. /\ act[n].pfp = existing.pfp /\ existing.pfp \in Fingerprints(n)
          /\ existing.fp.version = existing.version /\ existing.pfp.version = existing.version
          /\ Kind[n] \in {"view", "seed"} => existing.pfp = f
      BY <1>2, <1>5, <1>7, <2>1 DEF Recorded
    <2>3. <<n, act[n].pfp>> \in Live
      BY <1>5, <1>7, <2>2 DEF Live
    <2>4. Kind[n] \in {"view", "seed"} => act[n].from = None
      BY <1>6 DEF Reusable
    <2> QED
      BY <1>1, <1>5, <1>7, <2>2, <2>3, <2>4 DEF act
  <1>8. CASE existing = None
    <2>1. act[n].build /\ n \in Working(act)
      BY <1>2, <1>3, <1>4, <1>8 DEF Working
    <2>2. Snapshot(n, act[n].fp) = None
      BY <1>1, <1>8 DEF existing
    <2>3. \E t \in Registered(act, asked.version) :
            t.name = n /\ t.fp = act[n].fp /\ t.pfp = act[n].pfp
      <3> DEFINE t == [name |-> n, fp |-> act[n].fp, pfp |-> act[n].pfp, ast |-> act[n].fp.ast,
                       version |-> asked.version]
      <3>1. t \in Registered(act, asked.version)
        BY <2>1, <2>2 DEF Registered
      <3> QED
        BY <3>1
    <2>4. CASE act[n].from = None
      <3>1. act[n].pfp = f
        BY <1>2, <1>8, <2>4
      <3>2. <<n, act[n].pfp>> \in Fresh(act)
        BY <2>1, <2>4 DEF Fresh, Written
      <3> QED
        BY <1>1, <2>3, <2>4, <3>1, <3>2 DEF act
    <2>5. CASE act[n].from # None
      <3>1. act[n].pfp = previous.pfp
        BY <1>2, <1>8, <2>5
      <3>2. Recorded(previous)
        BY <1>6, <2>5 DEF Books
      <3>3. previous.pfp \in Fingerprints(n) /\ previous.pfp.version = previous.fp.version
        BY <1>6, <2>5, <3>2 DEF Recorded
      <3>4. <<n, act[n].pfp>> \in Live
        BY <1>6, <2>5, <3>1 DEF Live
      <3> QED
        BY <1>1, <1>6, <2>3, <2>5, <3>1, <3>3, <3>4 DEF act, Reusable
    <2> QED
      BY <2>4, <2>5
  <1> QED
    BY <1>7, <1>8

LEMMA LiveThere ==
    ASSUME Books
    PROVE  Live \subseteq DOMAIN table
BY DEF Books, Live, Recorded

\* A record that is new is of a planned model.
LEMMA RegisteredIs ==
    ASSUME NEW e, NEW project \in Projects, NEW asked \in Askings,
           NEW s \in Registered(PlanChanges(e, project, asked), asked.version)
    PROVE  LET act == PlanChanges(e, project, asked) IN
           /\ s.name \in ModelsOf(project) /\ s.name \in Working(act)
           /\ Snapshot(s.name, act[s.name].fp) = None
           /\ s = [name |-> s.name, fp |-> act[s.name].fp, pfp |-> act[s.name].pfp,
                   ast |-> act[s.name].fp.ast, version |-> asked.version]
  <1> DEFINE act == PlanChanges(e, project, asked)
  <1>1. PICK n \in Working(act) :
          /\ Snapshot(n, act[n].fp) = None
          /\ s = [name |-> n, fp |-> act[n].fp, pfp |-> act[n].pfp, ast |-> act[n].fp.ast,
                  version |-> asked.version]
    BY DEF Registered
  <1>2. n \in DOMAIN act
    BY <1>1 DEF Working
  <1>3. DOMAIN act = ModelsOf(project)
    BY ActionsDomain
  <1> HIDE DEF act
  <1> QED
    BY <1>1, <1>2, <1>3 DEF act

\* Two records of one version are one record, after an apply too.
LEMMA OneRecord ==
    ASSUME Books, NEW e \in Env, NEW project \in Projects, NEW asked \in Askings,
           NEW s \in snapshots \cup Registered(PlanChanges(e, project, asked), asked.version),
           NEW t \in snapshots \cup Registered(PlanChanges(e, project, asked), asked.version),
           s.name = t.name, s.fp = t.fp
    PROVE  s = t
  <1> DEFINE act == PlanChanges(e, project, asked)
             new == Registered(act, asked.version)
  <1>1. ASSUME NEW x \in snapshots, NEW y \in new, x.name = y.name, x.fp = y.fp
        PROVE  FALSE
    <2>1. Snapshot(y.name, y.fp) = None
      BY RegisteredIs
    <2> QED
      BY <1>1, <2>1, SnapshotNone
  <1>2. s \in snapshots /\ t \in snapshots => s = t
    BY DEF Books
  <1>3. s \in new /\ t \in new => s = t
    <2> SUFFICES ASSUME s \in new, t \in new
                 PROVE  s = t
      OBVIOUS
    <2>1. s = [name |-> s.name, fp |-> act[s.name].fp, pfp |-> act[s.name].pfp,
               ast |-> act[s.name].fp.ast, version |-> asked.version]
      BY RegisteredIs
    <2>2. t = [name |-> t.name, fp |-> act[t.name].fp, pfp |-> act[t.name].pfp,
               ast |-> act[t.name].fp.ast, version |-> asked.version]
      BY RegisteredIs
    <2> QED
      BY <2>1, <2>2
  <1> HIDE DEF new
  <1> QED
    BY <1>1, <1>2, <1>3 DEF new

\* What an apply does to the books.
LEMMA BooksApply ==
    ASSUME Books, NEW e \in Env, NEW project \in Projects, NEW asked \in Askings,
           Apply(e, project, asked)
    PROVE  Books'
  <1> DEFINE act == PlanChanges(e, project, asked)
             new == Registered(act, asked.version)
  <1>1. /\ ~Refused(e, project, asked)
        /\ table' = Built(act) /\ snapshots' = snapshots \cup new
        /\ rows' = [rows EXCEPT ![e] = [n \in DOMAIN act |-> act[n].fp]]
    BY DEF Apply
  <1>2. DOMAIN act = ModelsOf(project)
    BY ActionsDomain
  <1>3. DOMAIN table' = DOMAIN table \cup Fresh(act)
    BY <1>1, BuiltDomain
  <1>4. asked.version \in Versions
    BY DEF Askings
  <1>5. ASSUME NEW n \in ModelsOf(project)
        PROVE  /\ n \in Name /\ act[n].fp \in Fingerprints(n) /\ act[n].pfp \in Fingerprints(n)
               /\ act[n].fp.version = asked.version /\ act[n].pfp.version = asked.version
               /\ Kind[n] \in {"view", "seed"} => act[n].pfp = act[n].fp
               /\ <<n, act[n].pfp>> \in DOMAIN table'
               /\ \E t \in snapshots' : t.name = n /\ t.fp = act[n].fp
               /\ Deps[n] \subseteq ModelsOf(project)
               /\ act[n].fp.parents = [d \in Deps[n] |-> act[d].fp]
    <2>1. /\ act[n].pfp \in Fingerprints(n)
          /\ act[n].fp.version = asked.version /\ act[n].pfp.version = asked.version
          /\ Kind[n] \in {"view", "seed"} => act[n].pfp = act[n].fp
          /\ <<n, act[n].pfp>> \in Live \cup Fresh(act)
          /\ \E t \in snapshots \cup new : t.name = n /\ t.fp = act[n].fp
      BY <1>1, PhysicsIs
    <2>2. n \in Name /\ act[n].fp \in Fingerprints(n)
      BY Unchanged
    <2>3. Deps[n] \subseteq ModelsOf(project)
          /\ FingerprintGraph(project, asked.version)[n]
             = ModelFingerprint(project[n],
                 [d \in Deps[n] |-> FingerprintGraph(project, asked.version)[d]], asked.version)
      BY <1>4, ProjectFingerprint
    <2>4. \A m \in ModelsOf(project) : act[m].fp = FingerprintGraph(project, asked.version)[m]
      BY Unchanged
    <2>5. act[n].fp.parents = [d \in Deps[n] |-> FingerprintGraph(project, asked.version)[d]]
      BY <2>3, <2>4 DEF ModelFingerprint
    <2>6. act[n].fp.parents = [d \in Deps[n] |-> act[d].fp]
      BY <2>3, <2>4, <2>5
    <2>7. <<n, act[n].pfp>> \in DOMAIN table'
      BY <1>3, <2>1, LiveThere
    <2> HIDE DEF act, new
    <2> QED
      BY <1>1, <2>1, <2>2, <2>3, <2>6, <2>7
  <1>6. ASSUME NEW s \in snapshots'
        PROVE  Recorded(s)'
    <2>1. CASE s \in snapshots
      <3>1. Recorded(s)
        BY <2>1 DEF Books
      <3> QED
        BY <1>1, <1>3, <3>1 DEF Recorded
    <2>2. CASE s \in new
      <3>1. /\ s.name \in ModelsOf(project)
            /\ s = [name |-> s.name, fp |-> act[s.name].fp, pfp |-> act[s.name].pfp,
                    ast |-> act[s.name].fp.ast, version |-> asked.version]
        BY <2>2, RegisteredIs
      <3> DEFINE n == s.name
      <3>2. /\ n \in Name /\ act[n].fp \in Fingerprints(n) /\ act[n].pfp \in Fingerprints(n)
            /\ act[n].fp.version = asked.version /\ act[n].pfp.version = asked.version
            /\ Kind[n] \in {"view", "seed"} => act[n].pfp = act[n].fp
            /\ <<n, act[n].pfp>> \in DOMAIN table'
            /\ Deps[n] \subseteq ModelsOf(project)
            /\ act[n].fp.parents = [d \in Deps[n] |-> act[d].fp]
        BY <1>5, <3>1
      <3>3. \A d \in Deps[n] : \E t \in snapshots' : t.name = d /\ t.fp = act[d].fp
        BY <1>5, <3>2
      <3> HIDE DEF act, new
      <3>4. /\ s.fp = act[n].fp /\ s.pfp = act[n].pfp /\ s.ast = act[n].fp.ast
            /\ s.version = asked.version
        BY <3>1
      <3>5. act[n].fp \in AllFingerprints /\ act[n].pfp \in AllFingerprints
        BY <3>2 DEF AllFingerprints
      <3>6. s \in Record
        BY <1>4, <3>1, <3>2, <3>5 DEF Record
      <3>7. \A d \in Deps[n] : \E t \in snapshots' : t.name = d /\ t.fp = s.fp.parents[d]
        BY <3>2, <3>3, <3>4
      <3> HIDE DEF n
      <3> QED
        BY <3>2, <3>4, <3>6, <3>7 DEF Recorded, n
    <2> QED
      BY <1>1, <2>1, <2>2
  <1>7. \A s, t \in snapshots' : s.name = t.name /\ s.fp = t.fp => s = t
    BY <1>1, OneRecord
  <1>8. rows = [x \in Env |-> rows[x]]
    BY DEF Books
  <1>9. /\ rows' = [x \in Env |-> rows'[x]]
        /\ rows'[e] = [n \in DOMAIN act |-> act[n].fp]
        /\ \A x \in Env \ {e} : rows'[x] = rows[x]
    <2> HIDE DEF act
    <2> QED
      BY <1>1, <1>8
  <1>10. ASSUME NEW x \in Env
         PROVE  Promoted(x)'
    <2>1. CASE x # e
      <3>1. Promoted(x) /\ rows'[x] = rows[x] /\ snapshots \subseteq snapshots'
        BY <1>1, <1>9, <2>1 DEF Books
      <3> QED
        BY <3>1 DEF Promoted
    <2>2. CASE x = e
      <3>1. DOMAIN rows'[e] = ModelsOf(project)
        BY <1>2, <1>9
      <3>2. \A n \in ModelsOf(project) : rows'[e][n] = act[n].fp
        BY <1>2, <1>9
      <3> HIDE DEF act
      <3>3. ASSUME NEW n \in ModelsOf(project)
            PROVE  /\ \E s \in snapshots' : s.name = n /\ s.fp = rows'[e][n]
                   /\ Deps[n] \subseteq DOMAIN rows'[e]
                   /\ rows'[e][n].parents = [d \in Deps[n] |-> rows'[e][d]]
        <4>1. [d \in Deps[n] |-> act[d].fp] = [d \in Deps[n] |-> rows'[e][d]]
          BY <1>5, <3>2
        <4>2. act[n].fp.parents = [d \in Deps[n] |-> act[d].fp]
          BY <1>5
        <4>3. rows'[e][n] = act[n].fp
          BY <3>2
        <4>4. rows'[e][n].parents = [d \in Deps[n] |-> rows'[e][d]]
          BY <4>1, <4>2, <4>3
        <4>5. Deps[n] \subseteq DOMAIN rows'[e]
          BY <1>5, <3>1
        <4>6. \E s \in snapshots' : s.name = n /\ s.fp = rows'[e][n]
          <5>1. PICK t \in snapshots' : t.name = n /\ t.fp = act[n].fp
            BY <1>5
          <5>2. t.name = n /\ t.fp = rows'[e][n]
            BY <4>3, <5>1
          <5> QED
            BY <5>2
        <4> QED
          BY <4>4, <4>5, <4>6
      <3>4. DOMAIN rows'[e] \subseteq Name
        BY <1>5, <3>1
      <3> QED
        BY <2>2, <3>1, <3>3, <3>4 DEF Promoted
    <2> QED
      BY <2>1, <2>2
  <1> HIDE DEF act, new
  <1> QED
    BY <1>6, <1>7, <1>9, <1>10 DEF Books

\* A record that is swept is one nothing needs; its table goes when no other
\* record names it.
LEMMA SweepIs ==
    ASSUME Books, NEW s \in snapshots, Sweep(s)
    PROVE  /\ snapshots' = snapshots \ {s}
           /\ \A t \in snapshots' : /\ <<t.name, t.pfp>> \in DOMAIN table'
                                    /\ table'[<<t.name, t.pfp>>] = table[<<t.name, t.pfp>>]
           /\ \A t \in snapshots : \A d \in Deps[t.name] : t.fp.parents[d] = s.fp => d # s.name
           /\ \A e \in Env : \A n \in DOMAIN rows[e] : n = s.name => rows[e][n] # s.fp
           /\ UNCHANGED <<rows, applies, kept>>
  <1>1. /\ snapshots' = snapshots \ {s} /\ Orphaned(s)
        /\ table' = IF \E t \in snapshots' : t.pfp = s.pfp THEN table
                    ELSE [k \in DOMAIN table \ {<<s.name, s.pfp>>} |-> table[k]]
        /\ UNCHANGED <<rows, applies, kept>>
    BY DEF Sweep
  <1>2. \A t \in snapshots : <<t.name, t.pfp>> \in DOMAIN table
    BY DEF Books, Recorded
  <1>3. \A t \in snapshots' : /\ <<t.name, t.pfp>> \in DOMAIN table'
                              /\ table'[<<t.name, t.pfp>>] = table[<<t.name, t.pfp>>]
    <2> TAKE t \in snapshots'
    <2>1. t \in snapshots
      BY <1>1
    <2>2. CASE \E x \in snapshots' : x.pfp = s.pfp
      BY <1>1, <1>2, <2>1, <2>2
    <2>3. CASE ~ \E x \in snapshots' : x.pfp = s.pfp
      <3>1. <<t.name, t.pfp>> \in DOMAIN table \ {<<s.name, s.pfp>>}
        BY <1>2, <2>1, <2>3
      <3> QED
        BY <1>1, <2>3, <3>1
    <2> QED
      BY <2>2, <2>3
  <1>4. \A t \in snapshots : \A d \in Deps[t.name] : t.fp.parents[d] = s.fp => d # s.name
    BY <1>1 DEF Orphaned
  <1>5. \A e \in Env : \A n \in DOMAIN rows[e] : n = s.name => rows[e][n] # s.fp
    BY <1>1 DEF Orphaned, Referenced, Known
  <1> QED
    BY <1>1, <1>3, <1>4, <1>5

LEMMA BooksSweep ==
    ASSUME Books, NEW s \in snapshots, Sweep(s)
    PROVE  Books'
  <1>1. /\ snapshots' = snapshots \ {s}
        /\ \A t \in snapshots' : <<t.name, t.pfp>> \in DOMAIN table'
        /\ \A t \in snapshots : \A d \in Deps[t.name] : t.fp.parents[d] = s.fp => d # s.name
        /\ \A e \in Env : \A n \in DOMAIN rows[e] : n = s.name => rows[e][n] # s.fp
        /\ rows' = rows
    BY SweepIs
  <1>2. ASSUME NEW t \in snapshots'
        PROVE  Recorded(t)'
    <2>1. t \in snapshots /\ Recorded(t)
      BY <1>1 DEF Books
    <2>2. ASSUME NEW d \in Deps[t.name]
          PROVE  \E u \in snapshots' : u.name = d /\ u.fp = t.fp.parents[d]
      <3>1. PICK u \in snapshots : u.name = d /\ u.fp = t.fp.parents[d]
        BY <2>1 DEF Recorded
      <3>2. u # s
        BY <1>1, <2>1, <3>1
      <3> QED
        BY <1>1, <3>1, <3>2
    <2> QED
      BY <1>1, <2>1, <2>2 DEF Recorded
  <1>3. ASSUME NEW e \in Env
        PROVE  Promoted(e)'
    <2>1. Promoted(e)
      BY DEF Books
    <2>2. ASSUME NEW n \in DOMAIN rows[e]
          PROVE  \E t \in snapshots' : t.name = n /\ t.fp = rows[e][n]
      <3>1. PICK t \in snapshots : t.name = n /\ t.fp = rows[e][n]
        BY <2>1 DEF Promoted
      <3>2. t # s
        BY <1>1, <3>1
      <3> QED
        BY <1>1, <3>1, <3>2
    <2> QED
      BY <1>1, <2>1, <2>2 DEF Promoted
  <1>4. \A t, u \in snapshots' : t.name = u.name /\ t.fp = u.fp => t = u
    BY <1>1 DEF Books
  <1>5. rows' = [e \in Env |-> rows'[e]]
    BY <1>1 DEF Books
  <1> QED
    BY <1>2, <1>3, <1>4, <1>5 DEF Books

LEMMA BooksInvariant == Spec => []Books
  <1>1. Init => Books
    <2> SUFFICES ASSUME Init
                 PROVE  Books
      OBVIOUS
    <2>1. snapshots = {} /\ rows = [e \in Env |-> [n \in {} |-> None]]
      BY DEF Init
    <2>2. \A e \in Env : DOMAIN rows[e] = {}
      BY <2>1
    <2>3. \A e \in Env : Promoted(e)
      BY <2>2 DEF Promoted
    <2>4. rows = [e \in Env |-> rows[e]]
      BY <2>1
    <2> QED
      BY <2>1, <2>3, <2>4 DEF Books
  <1>2. Books /\ [Next]_vars => Books'
    <2> SUFFICES ASSUME Books, [Next]_vars
                 PROVE  Books'
      OBVIOUS
    <2>1. ASSUME NEW e \in Env, NEW p \in Projects, NEW f \in Forward, NEW v \in Verdicts,
                 NEW a \in Versions, Apply(e, p, [forward |-> f, verdicts |-> v, version |-> a])
          PROVE  Books'
      <3>1. [forward |-> f, verdicts |-> v, version |-> a] \in Askings
        BY DEF Askings
      <3> QED
        BY <2>1, <3>1, BooksApply
    <2>2. ASSUME NEW s \in snapshots, Sweep(s)
          PROVE  Books'
      BY <2>2, BooksSweep
    <2>3. CASE UNCHANGED vars
      BY <2>3 DEF vars, Books, Recorded, Promoted
    <2> QED
      BY <2>1, <2>2, <2>3 DEF Next
  <1> QED
    BY <1>1, <1>2, PTL DEF Spec

\* Physics is never inherited from a version another fingerprint algorithm made
\* (planner.ts, fingerprint.ts), whatever projects are applied and swept.
THEOREM OneAlgorithmKept == Spec => []OneAlgorithm
  <1>1. Books => OneAlgorithm
    BY DEF Books, Recorded, OneAlgorithm
  <1> QED
    BY <1>1, BooksInvariant, PTL
-----------------------------------------------------------------------------
(* Edits that append columns.                                              *)

\* No operator calls an edit breaking that was not found to be.
NoneBreaking == \A v \in Verdicts : \A n \in DOMAIN v : v[n] # "breaking"

\* A model whose own query is as it was, and that is not behind a view, keeps
\* its table, reused or under forward-only, if its parents keep theirs.
LEMMA SparedByParents ==
    ASSUME Books, NEW e \in Env, NEW project \in Projects, NEW asked \in Askings,
           NEW n \in ModelsOf(project), n \in DOMAIN rows[e],
           rows[e][n] # FingerprintGraph(project, asked.version)[n],
           rows[e][n].ast = project[n].ast, rows[e][n].meta = project[n].meta,
           rows[e][n].version = asked.version, Kind[n] # "view",
           \A d \in Moved(PlanChanges(e, project, asked), n) :
               SameData(PlanChanges(e, project, asked)[d])
    PROVE  LET act == PlanChanges(e, project, asked) IN
           /\ act[n].from # None
           /\ SameData(act[n])
  <1> DEFINE act == PlanChanges(e, project, asked)
             fp == FingerprintGraph(project, asked.version)
             old == rows[e][n]
  <1>1. asked.version \in Versions
    BY DEF Askings
  <1>2. /\ fp[n] = ModelFingerprint(project[n], [d \in Deps[n] |-> fp[d]], asked.version)
        /\ Deps[n] \subseteq ModelsOf(project) /\ n \in Name
    BY <1>1, ProjectFingerprint
  <1>3. /\ old \in Fingerprints(n) /\ Known(e, n) = old
        /\ old.parents = [d \in Deps[n] |-> rows[e][d]] /\ Deps[n] \subseteq DOMAIN rows[e]
    <2>1. old \in Fingerprints(n) /\ Known(e, n) = old
      BY KnownIs
    <2>2. Promoted(e)
      BY DEF Books
    <2> QED
      BY <2>1, <2>2 DEF Promoted
  <1>4. old = [ast |-> old.ast, meta |-> old.meta, parents |-> old.parents,
               version |-> old.version]
        /\ (old.ast = None <=> Kind[n] = "seed")
    BY <1>2, <1>3, FingerprintShape
  <1>5. old = ModelFingerprint(project[n], [d \in Deps[n] |-> rows[e][d]], asked.version)
    BY <1>3, <1>4 DEF ModelFingerprint
  <1>6. Kind[n] # "seed"
    <2>1. ASSUME Kind[n] = "seed"
          PROVE  FALSE
      <3>1. Deps[n] = {}
        BY <1>2, <2>1, PlannerAssumption
      <3>2. [d \in Deps[n] |-> fp[d]] = [d \in Deps[n] |-> rows[e][d]]
        BY <3>1
      <3> QED
        BY <1>2, <1>5, <3>2
    <2> QED
      BY <2>1
  <1>7. OldAst(Snapshot(n, Known(e, n)), asked.version) = old.ast
    BY OldAstIs
  <1>8. Verdict(e, project, asked, n) = "indirect"
    BY <1>4, <1>6, <1>7 DEF Verdict, Categorize
  <1>9. Stated(e, project, asked, n) = "indirect"
    BY <1>8 DEF Stated, Overridden
  <1>10. ParentsOnly(e, n, project[n], asked.version)
    BY <1>3, <1>5 DEF ParentsOnly
  <1>11. ByParents(e, project, asked, n)
    BY <1>9, <1>10 DEF ByParents
  <1>12. Moved(act, n) # {}
    BY <1>10, SomeMoved
  <1>13. Kind[n] \in Reusable
    BY <1>2, <1>6, PlannerAssumption DEF Reusable
  <1>14. Forwarded(e, project, asked, n) \/ Inherits(e, project, asked, n)
    BY <1>11, <1>12, <1>13 DEF Inherits
  <1>15. /\ act[n].change = IF Forwarded(e, project, asked, n) THEN "forward-only"
                            ELSE Stated(e, project, asked, n)
         /\ act[n].reused = Inherits(e, project, asked, n)
         /\ act[n].from = IF Forwarded(e, project, asked, n)
                               \/ Inherits(e, project, asked, n) THEN old ELSE None
    BY Changed
  <1>16. old # None
    BY <1>2, <1>3, FingerprintShape
  <1> HIDE DEF act, old
  <1>17. CASE Forwarded(e, project, asked, n)
    BY <1>15, <1>16, <1>17 DEF SameData, act
  <1>18. CASE ~Forwarded(e, project, asked, n)
    <2>1. Inherits(e, project, asked, n)
      BY <1>14, <1>18
    <2>2. act[n].reused
      BY <1>15, <2>1, Zenon
    <2> QED
      BY <1>9, <1>15, <1>16, <1>18, <2>1, <2>2 DEF SameData, act
  <1> QED
    BY <1>17, <1>18

LEMMA AppendsApply ==
    ASSUME NoneBreaking, Books, NEW e \in Env, NEW project \in Projects,
           NEW asked \in Askings, Apply(e, project, asked), Appending(e), InLists(e)
    PROVE  OthersSpared(e)
  <1> DEFINE act == PlanChanges(e, project, asked)
             fp == FingerprintGraph(project, asked.version)
             M == ModelsOf(project)
  <1>1. /\ ~Refused(e, project, asked) /\ table' = Built(act)
        /\ rows' = [rows EXCEPT ![e] = [n \in DOMAIN act |-> act[n].fp]]
    BY DEF Apply
  <1>2. DOMAIN act = M /\ \A n \in M : n \in Name /\ act[n].fp = fp[n]
    BY ActionsDomain, Unchanged
  <1>3. rows'[e] = [n \in DOMAIN act |-> act[n].fp]
    <2> HIDE DEF act
    <2> QED
      BY <1>1 DEF Books
  <1>4. DOMAIN rows[e] = M
    <2> HIDE DEF act, M
    <2> QED
      BY <1>2, <1>3 DEF Appending
  <1>5. asked.version \in Versions
    BY DEF Askings
  <1>6. ASSUME NEW n \in M
        PROVE  /\ fp[n] = ModelFingerprint(project[n], [d \in Deps[n] |-> fp[d]], asked.version)
               /\ fp[n].ast = project[n].ast /\ fp[n].meta = project[n].meta
               /\ fp[n].version = asked.version
               /\ Deps[n] \subseteq M
    <2>1. /\ fp[n] = ModelFingerprint(project[n], [d \in Deps[n] |-> fp[d]], asked.version)
          /\ Deps[n] \subseteq M
      BY <1>5, ProjectFingerprint
    <2> QED
      BY <2>1 DEF ModelFingerprint
  <1>7. ASSUME NEW n \in M
        PROVE  /\ rows[e][n].meta = project[n].meta /\ rows[e][n].version = asked.version
               /\ rows[e][n].ast = project[n].ast \/ OnlyAppends(rows[e][n].ast, project[n].ast)
               /\ rows[e][n].ast # project[n].ast <=> n \in Edited(e)
    <2>1. rows'[e][n] = fp[n]
      BY <1>2, <1>3
    <2>2. DOMAIN rows'[e] = M
      BY <1>2, <1>3
    <2> HIDE DEF fp, M, act
    <2>3. rows'[e][n].ast = project[n].ast /\ rows'[e][n].meta = project[n].meta
          /\ rows'[e][n].version = asked.version
      BY <1>6, <2>1
    <2>4. n \in Edited(e) <=> rows[e][n].ast # project[n].ast
      BY <1>4, <2>2, <2>3 DEF Edited
    <2>5. /\ rows[e][n].meta = project[n].meta /\ rows[e][n].version = asked.version
          /\ rows[e][n].ast = project[n].ast \/ Appended(rows[e][n].ast, project[n].ast)
      BY <1>4, <2>3 DEF Appending
    <2>6. ASSUME rows[e][n].ast # project[n].ast
          PROVE  OnlyAppends(rows[e][n].ast, project[n].ast)
      <3>1. rows[e][n].ast.rest \in Listed
        BY <2>4, <2>6 DEF InLists
      <3> QED
        BY <2>5, <2>6, <3>1 DEF OnlyAppends, Compared, Appended
    <2> QED
      BY <2>4, <2>5, <2>6
  <1> DEFINE Spoilt == {n \in M : /\ Kind[n] # "view" /\ n \notin PastView
                                  /\ act[n].change # "unchanged" /\ ~SameData(act[n])}
  <1>8. ASSUME NEW n \in M, rows[e][n] # fp[n], Kind[n] # "view", n \notin PastView,
               n \notin Edited(e), Deps[n] \cap Spoilt = {}
        PROVE  act[n].from # None /\ SameData(act[n])
    <2>1. ASSUME NEW d \in Moved(act, n)
          PROVE  SameData(act[d])
      <3>1. d \in Deps[n] /\ act[d].change # "unchanged"
        BY <2>1 DEF Moved
      <3>2. d \in M /\ Kind[d] # "view" /\ d \notin PastView
        BY <1>2, <1>6, <1>8, <3>1, PastViewDef
      <3> QED
        BY <1>8, <3>1, <3>2
    <2>2. rows[e][n].ast = project[n].ast
      BY <1>7, <1>8
    <2> QED
      BY <1>4, <1>7, <1>8, <2>1, <2>2, SparedByParents
  <1>9. ASSUME NEW n \in M, rows[e][n] # fp[n], n \in Edited(e)
        PROVE  SameData(act[n])
    <2>1. rows[e][n].ast # project[n].ast /\ OnlyAppends(rows[e][n].ast, project[n].ast)
      BY <1>7, <1>9
    <2>2. rows[e][n] \in Fingerprints(n) /\ fp[n] \in Fingerprints(n)
      BY <1>4, KnownIs, Unchanged
    <2>3. rows[e][n].ast # None /\ project[n].ast # None
      <3>1. rows[e][n].ast = None <=> Kind[n] = "seed"
        BY <1>2, <2>2, FingerprintShape
      <3>2. fp[n].ast = None <=> Kind[n] = "seed"
        BY <1>2, <2>2, FingerprintShape
      <3>3. fp[n].ast = project[n].ast
        BY <1>6
      <3> HIDE DEF fp
      <3> QED
        BY <2>1, <3>1, <3>2, <3>3
    <2>4. OldAst(Snapshot(n, Known(e, n)), asked.version) = rows[e][n].ast
      BY <1>4, <1>7, OldAstIs
    <2>5. Verdict(e, project, asked, n) = "non-breaking"
      <3> HIDE DEF M, fp, act
      <3> QED
        BY <2>1, <2>3, <2>4 DEF Verdict, Categorize
    <2>6. n \in DOMAIN asked.verdicts => asked.verdicts[n] = "non-breaking"
      BY PlannerAssumption DEF NoneBreaking, Askings
    <2>7. Stated(e, project, asked, n) = "non-breaking"
      BY <2>5, <2>6 DEF Stated, Overridden
    <2>8. act[n].change = IF Forwarded(e, project, asked, n) THEN "forward-only"
                          ELSE Stated(e, project, asked, n)
      BY <1>4, <1>9, Changed
    <2> HIDE DEF act
    <2> QED
      BY <2>7, <2>8 DEF SameData
  <1>10. \A n \in M : act[n].change # "unchanged" <=> rows[e][n] # fp[n]
    BY <1>4, Unchanged
  <1>11. Spoilt = {}
    <2> SUFFICES ASSUME Spoilt # {}
                 PROVE  FALSE
      OBVIOUS
    <2>1. Spoilt \subseteq Name
      BY <1>2
    <2>2. PICK n \in Spoilt : Deps[n] \cap Spoilt = {}
      <3> HIDE DEF Spoilt
      <3> QED
        BY <2>1, Minimal
    <2>3. /\ n \in M /\ rows[e][n] # fp[n]
          /\ Kind[n] # "view" /\ n \notin PastView /\ ~SameData(act[n])
      BY <1>10
    <2> HIDE DEF Spoilt, act, fp, M
    <2> QED
      BY <1>8, <1>9, <2>2, <2>3
  <1> SUFFICES ASSUME NEW k \in DOMAIN table' \ DOMAIN table,
                      k[1] \notin Edited(e) \cup PastView, Kind[k[1]] # "view"
               PROVE  FALSE
    BY DEF OthersSpared
  <1>12. k \in Fresh(act)
    BY <1>1, BuiltDomain
  <1>13. PICK n \in Written(act) : k = <<n, act[n].pfp>>
    BY <1>12 DEF Fresh
  <1>14. n \in M /\ Kind[n] # "view" /\ n \notin PastView /\ n \notin Edited(e)
    <2>1. n \in DOMAIN act
      BY <1>13 DEF Written, Working
    <2> HIDE DEF act, M
    <2> QED
      BY <1>2, <1>13, <2>1
  <1>15. k \notin Live
    BY LiveThere
  <1>16. Snapshot(n, fp[n]) = None /\ act[n].from = None
    <2>1. act[n].pfp = IF Snapshot(n, fp[n]) # None THEN Snapshot(n, fp[n]).pfp
                       ELSE IF act[n].from # None THEN Snapshot(n, Known(e, n)).pfp ELSE fp[n]
      BY <1>14, Planned
    <2>2. \A s \in snapshots : s.name = n => s.pfp # act[n].pfp
      <3> HIDE DEF act
      <3> QED
        BY <1>13, <1>15 DEF Live
    <2>3. Snapshot(n, fp[n]) # None => Snapshot(n, fp[n]) \in snapshots
                                       /\ Snapshot(n, fp[n]).name = n
      BY SnapshotNone
    <2>4. act[n].from # None => Snapshot(n, Known(e, n)) \in snapshots
                                /\ Snapshot(n, Known(e, n)).name = n
      BY <1>4, <1>14, KnownIs
    <2> HIDE DEF act, fp
    <2> QED
      BY <2>1, <2>2, <2>3, <2>4
  <1>17. rows[e][n] # fp[n]
    BY <1>4, <1>14, <1>16, KnownIs
  <1>18. act[n].from # None
    <2> HIDE DEF act, fp, M
    <2>1. Deps[n] \cap Spoilt = {}
      BY <1>11
    <2> HIDE DEF Spoilt
    <2> QED
      BY <1>8, <1>14, <1>17, <2>1
  <1> QED
    BY <1>16, <1>18

\* "Non-breaking: only the model itself" is recomputed (categorize.ts,
\* planner.ts), where the canon has a top SELECT list: when all edits of an
\* environment append columns to such lists, whatever these read, no other model
\* gets a new table, but behind a view.  Of a set operation and of any query on
\* Postgres it says nothing: there an append is breaking.
THEOREM AppendsSpare ==
    ASSUME NoneBreaking
    PROVE  Spec => AppendsSpareOthers
  <1> DEFINE Spares(e) == rows'[e] # rows[e] /\ Appending(e) /\ InLists(e) => OthersSpared(e)
  <1>1. Books /\ [Next]_vars => [\A e \in Env : Spares(e)]_vars
    <2> SUFFICES ASSUME Books, Next, NEW x \in Env, rows'[x] # rows[x], Appending(x), InLists(x)
                 PROVE  OthersSpared(x)
      OBVIOUS
    <2>1. ASSUME NEW e \in Env, NEW p \in Projects, NEW f \in Forward, NEW v \in Verdicts,
                 NEW a \in Versions, Apply(e, p, [forward |-> f, verdicts |-> v, version |-> a])
          PROVE  OthersSpared(x)
      <3>1. [forward |-> f, verdicts |-> v, version |-> a] \in Askings
        BY DEF Askings
      <3>2. x = e
        BY <2>1 DEF Apply, Books
      <3> QED
        BY <2>1, <3>1, <3>2, AppendsApply
    <2>2. ASSUME NEW s \in snapshots, Sweep(s)
          PROVE  FALSE
      BY <2>2 DEF Sweep
    <2> QED
      BY <2>1, <2>2 DEF Next
  <1> QED
    BY <1>1, BooksInvariant, PTL DEF Spec, AppendsSpareOthers
-----------------------------------------------------------------------------
(* What the tables hold.                                                   *)

\* What a query that mentions these columns sees of a content.
Glimpse(reads, content) ==
    [rows |-> content.rows,
     col  |-> [c \in reads \cap DOMAIN content.col |-> content.col[c]]]

Computed(ast) == {Column[i] : i \in Range(ast.list)}

Basis(f, inputs) ==
    <<Meaning[f.ast.rest], f.meta, [d \in DOMAIN inputs |-> inputs[d].rows],
      Seen(f.ast.rest, inputs),
      IF f.ast.rest \in Distinct THEN {<<i, Seen(i, inputs)>> : i \in Range(f.ast.list)}
      ELSE {}>>

\* The item that computes a column, and what it computes.
ItemOf(ast, c) == CHOOSE i \in Range(ast.list) : Column[i] = c
Datum(f, c, inputs) ==
    <<ItemOf(f.ast, c), Basis(f, inputs), Seen(ItemOf(f.ast, c), inputs)>>

LEMMA EvaluateIs ==
    ASSUME NEW f, NEW inputs
    PROVE  Evaluate(f, inputs)
           = [rows |-> Basis(f, inputs),
              col  |-> [c \in Computed(f.ast) |-> Datum(f, c, inputs)]]
BY DEF Evaluate, Basis, Datum, ItemOf, Computed

LEMMA ItemIs ==
    ASSUME NEW ast, NEW c \in Computed(ast)
    PROVE  ItemOf(ast, c) \in Range(ast.list) /\ Column[ItemOf(ast, c)] = c
  <1>1. PICK j \in Range(ast.list) : Column[j] = c
    BY DEF Computed
  <1> QED
    BY <1>1 DEF ItemOf

\* Parts that read the same of parents that look alike see the same.
LEMMA SeenAlike ==
    ASSUME NEW R, NEW D, NEW ins, NEW was, DOMAIN ins = D, DOMAIN was = D,
           \A d \in D : Glimpse(R, ins[d]) = Glimpse(R, was[d]),
           NEW p, NEW q, Reads[p] = Reads[q], Reads[q] \subseteq R
    PROVE  Seen(p, ins) = Seen(q, was)
  <1>1. ASSUME NEW d \in D
        PROVE  [c \in Reads[p] \cap DOMAIN ins[d].col |-> ins[d].col[c]]
               = [c \in Reads[q] \cap DOMAIN was[d].col |-> was[d].col[c]]
    <2> DEFINE one == [c \in R \cap DOMAIN ins[d].col |-> ins[d].col[c]]
               two == [c \in R \cap DOMAIN was[d].col |-> was[d].col[c]]
    <2>1. one = two
      BY DEF Glimpse
    <2>2. /\ DOMAIN one = R \cap DOMAIN ins[d].col
          /\ DOMAIN two = R \cap DOMAIN was[d].col
          /\ \A c \in R \cap DOMAIN ins[d].col : one[c] = ins[d].col[c]
          /\ \A c \in R \cap DOMAIN was[d].col : two[c] = was[d].col[c]
      OBVIOUS
    <2> HIDE DEF one, two
    <2>3. Reads[p] \cap DOMAIN ins[d].col = Reads[q] \cap DOMAIN was[d].col
      BY <2>1, <2>2
    <2>4. \A c \in Reads[q] \cap DOMAIN was[d].col : ins[d].col[c] = was[d].col[c]
      BY <2>1, <2>2
    <2> QED
      BY <2>3, <2>4
  <1> QED
    BY <1>1 DEF Seen

LEMMA RowsAlike ==
    ASSUME NEW R, NEW D, NEW ins, NEW was, DOMAIN ins = D, DOMAIN was = D,
           \A d \in D : Glimpse(R, ins[d]) = Glimpse(R, was[d])
    PROVE  [d \in DOMAIN ins |-> ins[d].rows] = [d \in DOMAIN was |-> was[d].rows]
  <1>1. \A d \in D : ins[d].rows = was[d].rows
    BY DEF Glimpse
  <1> QED
    BY <1>1

\* Models that were ever kept under forward-only, those this apply keeps by
\* flag, and all that reads them.
Keeping(K, e, project, asked) ==
    /\ kept \subseteq K
    /\ \A n \in Name : \A d \in Deps[n] : d \in K => n \in K
    /\ \A n \in asked.forward \cap Name :
          PlanChanges(e, project, asked)[n].change = "forward-only" => n \in K

\* Forward-only comes from a flag, down a chain of parents.
LEMMA NoForward ==
    ASSUME Books, NEW e \in Env, NEW project \in Projects, NEW asked \in Askings,
           NEW K, Keeping(K, e, project, asked)
    PROVE  \A n \in ModelsOf(project) \ K :
               PlanChanges(e, project, asked)[n].change # "forward-only"
  <1> DEFINE act == PlanChanges(e, project, asked)
             odd == {n \in ModelsOf(project) \ K : act[n].change = "forward-only"}
  <1> SUFFICES ASSUME odd # {}
               PROVE  FALSE
    OBVIOUS
  <1>1. odd \subseteq Name
    BY DEF ModelsOf
  <1>2. PICK n \in odd : Deps[n] \cap odd = {}
    <2> HIDE DEF odd
    <2> QED
      BY <1>1, Minimal
  <1>3. n \in ModelsOf(project) /\ n \notin K /\ act[n].change = "forward-only" /\ n \in Name
    BY <1>1
  <1>4. n \in DOMAIN rows[e] /\ rows[e][n] # FingerprintGraph(project, asked.version)[n]
    BY <1>3, Unchanged
  <1>5. Forwarded(e, project, asked, n)
    <2>1. act[n].change = IF Forwarded(e, project, asked, n) THEN "forward-only"
                          ELSE Stated(e, project, asked, n)
      BY <1>3, <1>4, Changed
    <2> HIDE DEF act
    <2> QED
      BY <1>3, <2>1, Verdicted
  <1>6. n \notin asked.forward
    BY <1>3 DEF Keeping
  <1>7. Cascaded(e, project, asked, n)
    BY <1>5, <1>6 DEF Forwarded
  <1>8. /\ ParentsOnly(e, n, project[n], asked.version)
        /\ \A d \in Moved(act, n) : act[d].change = "forward-only"
    BY <1>7 DEF Cascaded, ByParents
  <1>9. Moved(act, n) # {}
    BY <1>3, <1>4, <1>8, SomeMoved
  <1>10. PICK d \in Deps[n] : act[d].change = "forward-only" /\ d \in ModelsOf(project)
    <2>1. Deps[n] \subseteq ModelsOf(project)
      BY <1>3, <1>4, <1>8, SomeMoved
    <2>2. PICK d \in Moved(act, n) : TRUE
      <3> HIDE DEF act
      <3> QED
        BY <1>9
    <2> QED
      BY <1>8, <2>1, <2>2 DEF Moved
  <1>11. d \notin K
    BY <1>3, <1>10 DEF Keeping
  <1> QED
    BY <1>2, <1>10, <1>11

\* A model's new version gives its readers what its old one does.
Spared(e, project, asked, n) ==
    \A m \in ModelsOf(project) \cap DOMAIN rows[e] : n \in Deps[m] =>
        LET mentioned == Mentions(rows[e][m].ast) IN
        Glimpse(mentioned, Ideal[<<n, FingerprintGraph(project, asked.version)[n]>>])
        = Glimpse(mentioned, Ideal[<<n, rows[e][n]>>])

\* What both versions of a model are made of.
LEMMA TwoVersions ==
    ASSUME Books, NEW e \in Env, NEW project \in Projects, NEW asked \in Askings,
           NEW n \in ModelsOf(project), n \in DOMAIN rows[e]
    PROVE  LET new == FingerprintGraph(project, asked.version)[n]
               old == rows[e][n]
           IN  /\ n \in Name /\ Deps[n] \subseteq ModelsOf(project)
               /\ Deps[n] \subseteq DOMAIN rows[e]
               /\ new \in Fingerprints(n) /\ old \in Fingerprints(n)
               /\ new.ast = project[n].ast /\ new.meta = project[n].meta
               /\ \A d \in Deps[n] : /\ new.parents[d]
                                        = FingerprintGraph(project, asked.version)[d]
                                     /\ old.parents[d] = rows[e][d]
               /\ new.ast = None <=> Kind[n] = "seed"
               /\ old.ast = None <=> Kind[n] = "seed"
  <1> DEFINE fp == FingerprintGraph(project, asked.version)
             old == rows[e][n]
  <1>1. asked.version \in Versions
    BY DEF Askings
  <1>2. /\ n \in Name /\ Deps[n] \subseteq ModelsOf(project) /\ fp[n] \in Fingerprints(n)
        /\ fp[n] = ModelFingerprint(project[n], [d \in Deps[n] |-> fp[d]], asked.version)
    BY <1>1, ProjectFingerprint
  <1>3. /\ fp[n].ast = project[n].ast /\ fp[n].meta = project[n].meta
        /\ \A d \in Deps[n] : fp[n].parents[d] = fp[d]
    BY <1>2 DEF ModelFingerprint
  <1>4. old \in Fingerprints(n)
    BY KnownIs
  <1>5. Promoted(e)
    BY DEF Books
  <1>6. Deps[n] \subseteq DOMAIN rows[e] /\ \A d \in Deps[n] : old.parents[d] = rows[e][d]
    <2>1. /\ Deps[n] \subseteq DOMAIN rows[e]
          /\ old.parents = [d \in Deps[n] |-> rows[e][d]]
      BY <1>5 DEF Promoted
    <2> HIDE DEF old
    <2> QED
      BY <2>1
  <1>7. fp[n].ast = None <=> Kind[n] = "seed"
    BY <1>2, FingerprintShape
  <1>8. old.ast = None <=> Kind[n] = "seed"
    BY <1>2, <1>4, FingerprintShape
  <1> HIDE DEF fp, old
  <1> QED
    BY <1>2, <1>3, <1>4, <1>6, <1>7, <1>8 DEF fp, old

\* A model of which nothing changed but parents that give it what they gave
\* computes what it computed.
LEMMA IdealReused ==
    ASSUME Books, NEW e \in Env, NEW project \in Projects, NEW asked \in Askings,
           NEW n \in ModelsOf(project), n \in DOMAIN rows[e], Kind[n] # "seed",
           rows[e][n] # FingerprintGraph(project, asked.version)[n],
           ParentsOnly(e, n, project[n], asked.version),
           \A d \in Deps[n] : Spared(e, project, asked, d)
    PROVE  Ideal[<<n, FingerprintGraph(project, asked.version)[n]>>] = Ideal[<<n, rows[e][n]>>]
  <1> DEFINE new == FingerprintGraph(project, asked.version)[n]
             old == rows[e][n]
             ins == [d \in Deps[n] |-> Ideal[<<d, new.parents[d]>>]]
             was == [d \in Deps[n] |-> Ideal[<<d, old.parents[d]>>]]
  <1>1. /\ n \in Name /\ new \in Fingerprints(n) /\ old \in Fingerprints(n)
        /\ new.ast = project[n].ast /\ new.meta = project[n].meta
        /\ \A d \in Deps[n] : /\ new.parents[d] = FingerprintGraph(project, asked.version)[d]
                              /\ old.parents[d] = rows[e][d]
    BY TwoVersions
  <1>2. old.ast = project[n].ast /\ old.meta = project[n].meta
    <2>1. old = ModelFingerprint(project[n], [d \in Deps[n] |-> rows[e][d]], asked.version)
      BY SomeMoved
    <2> QED
      BY <2>1 DEF ModelFingerprint
  <1>3. Ideal[<<n, new>>] = Evaluate(new, ins) /\ Ideal[<<n, old>>] = Evaluate(old, was)
    BY <1>1, IdealDef
  <1>4. \A d \in Deps[n] : Glimpse(Mentions(old.ast), ins[d]) = Glimpse(Mentions(old.ast), was[d])
    BY <1>1 DEF Spared
  <1>5. DOMAIN ins = Deps[n] /\ DOMAIN was = Deps[n]
    OBVIOUS
  <1> HIDE DEF new, old, ins, was
  <1>6. /\ Seen(old.ast.rest, ins) = Seen(old.ast.rest, was)
        /\ \A i \in Range(old.ast.list) : Seen(i, ins) = Seen(i, was)
    <2>1. /\ Reads[old.ast.rest] \subseteq Mentions(old.ast)
          /\ \A i \in Range(old.ast.list) : Reads[i] \subseteq Mentions(old.ast)
      BY DEF Mentions
    <2> QED
      BY <1>4, <1>5, <2>1, SeenAlike
  <1>7. new.ast = old.ast /\ new.meta = old.meta
    BY <1>1, <1>2
  <1>8. Basis(new, ins) = Basis(old, was)
    <2>1. [d \in DOMAIN ins |-> ins[d].rows] = [d \in DOMAIN was |-> was[d].rows]
      BY <1>4, <1>5, RowsAlike
    <2>2. {<<i, Seen(i, ins)>> : i \in Range(old.ast.list)}
          = {<<i, Seen(i, was)>> : i \in Range(old.ast.list)}
      BY <1>6
    <2> QED
      BY <1>6, <1>7, <2>1, <2>2 DEF Basis
  <1>9. \A c \in Computed(old.ast) : Datum(new, c, ins) = Datum(old, c, was)
    BY <1>6, <1>7, <1>8, ItemIs DEF Datum
  <1>10. Evaluate(new, ins) = Evaluate(old, was)
    <2>1. [c \in Computed(new.ast) |-> Datum(new, c, ins)]
          = [c \in Computed(old.ast) |-> Datum(old, c, was)]
      BY <1>7, <1>9
    <2> QED
      BY <1>8, <2>1, EvaluateIs
  <1> QED
    BY <1>3, <1>10 DEF new, old

LEMMA PrefixRange ==
    ASSUME NEW S, NEW s \in Seq(S), NEW t \in Seq(S), IsStrictPrefix(s, t)
    PROVE  Range(s) \subseteq Range(t)
  <1>1. Len(s) \in Nat /\ Len(t) \in Nat /\ Len(s) <= Len(t)
    BY DEF IsStrictPrefix, IsPrefix
  <1>2. DOMAIN s = 1..Len(s) /\ DOMAIN t = 1..Len(t)
    OBVIOUS
  <1>3. SubSeq(s, 1, Len(s)) = SubSeq(t, 1, Len(s))
    BY DEF IsStrictPrefix, IsPrefix
  <1>4. \A i \in 1..Len(s) : s[i] = t[i] /\ i \in DOMAIN t
    <2> TAKE i \in 1..Len(s)
    <2>1. SubSeq(s, 1, Len(s))[i] = s[i] /\ SubSeq(t, 1, Len(s))[i] = t[i]
      BY <1>1
    <2> QED
      BY <1>1, <1>2, <1>3, <2>1
  <1> QED
    BY <1>2, <1>4 DEF Range

\* The new query gives its readers all the old one gave, from the same reads.
Keeps(old, new) ==
    /\ Meaning[old.rest] = Meaning[new.rest] /\ Reads[old.rest] = Reads[new.rest]
    /\ old.rest \notin Distinct => new.rest \notin Distinct
    /\ Range(old.list) \subseteq Range(new.list)

\* What the plan has made sure of when it calls an edit non-breaking.
LEMMA NonBreakingIs ==
    ASSUME Books, NEW e \in Env, NEW project \in Projects, NEW asked \in Askings,
           ~Refused(e, project, asked), Truthful(e, project, asked),
           NEW n \in ModelsOf(project),
           PlanChanges(e, project, asked)[n].change = "non-breaking"
    PROVE  /\ n \in DOMAIN rows[e] /\ Kind[n] # "seed"
           /\ Keeps(rows[e][n].ast, project[n].ast)
  <1> DEFINE act == PlanChanges(e, project, asked)
             old == rows[e][n].ast
             new == project[n].ast
             fp == FingerprintGraph(project, asked.version)
  <1>1. n \in DOMAIN rows[e] /\ rows[e][n] # fp[n]
    BY Unchanged
  <1>2. /\ n \in Name /\ rows[e][n] \in Fingerprints(n)
        /\ new = None <=> Kind[n] = "seed"
        /\ old = None <=> Kind[n] = "seed"
    <2>1. /\ fp[n].ast = None <=> Kind[n] = "seed"
          /\ fp[n].ast = new
      BY <1>1, TwoVersions
    <2> QED
      BY <1>1, <2>1, TwoVersions
  <1>3. Stated(e, project, asked, n) = "non-breaking"
    <2>1. act[n].change = IF Forwarded(e, project, asked, n) THEN "forward-only"
                          ELSE Stated(e, project, asked, n)
      BY <1>1, Changed
    <2> HIDE DEF act
    <2> QED
      BY <2>1 DEF act
  <1> DEFINE seen == OldAst(Snapshot(n, Known(e, n)), asked.version)
  <1>4. seen = IF rows[e][n].version = asked.version THEN old ELSE None
    BY <1>1, OldAstIs
  <1>5. Verdict(e, project, asked, n) = Categorize(seen, new)
    BY DEF Verdict
  <1>6. Known(e, n) = rows[e][n] /\ Known(e, n) # None /\ Snapshot(n, Known(e, n)) # None
    BY <1>1, KnownIs
  <1>7. CASE Verdict(e, project, asked, n) = "non-breaking"
    <2> HIDE DEF seen, new
    <2>1. seen # None /\ new # None /\ OnlyAppends(seen, new)
      BY <1>5, <1>7 DEF Categorize
    <2>2. seen = old
      BY <1>4, <2>1
    <2>3. old.rest = new.rest /\ IsStrictPrefix(old.list, new.list)
      BY <2>1, <2>2 DEF OnlyAppends, Appended
    <2>4. old.list \in Seq(DOMAIN Column)
      <3>1. PICK p \in Projects : p[n] # None /\ p[n].ast = old
        BY <1>2, FingerprintShape
      <3>2. old # None
        BY <2>1, <2>2
      <3> HIDE DEF old
      <3> QED
        BY <1>2, <3>1, <3>2, PlannerAssumption
    <2>5. new.list \in Seq(DOMAIN Column)
      BY <1>2, <2>1, PlannerAssumption DEF ModelsOf, new
    <2>6. Range(old.list) \subseteq Range(new.list)
      BY <2>3, <2>4, <2>5, PrefixRange
    <2>7. Kind[n] # "seed"
      BY <1>2, <2>1
    <2> HIDE DEF old
    <2> QED
      BY <1>1, <2>3, <2>6, <2>7 DEF old, new, Keeps
  <1>8. CASE Verdict(e, project, asked, n) # "non-breaking"
    <2>1. /\ Overridden(n, Verdict(e, project, asked, n), asked.verdicts)
          /\ n \in DOMAIN asked.verdicts /\ asked.verdicts[n] = "non-breaking"
      BY <1>3, <1>8 DEF Stated, Overridden
    <2>2. seen # None /\ new # None
      BY <1>1, <1>6, <2>1 DEF Refused, Verdict
    <2>3. seen = old
      BY <1>4, <2>2
    <2>4. /\ Meaning[seen.rest] = Meaning[new.rest] /\ Reads[seen.rest] = Reads[new.rest]
          /\ Distinct \cap {seen.rest, new.rest} = {}
          /\ Range(seen.list) \subseteq Range(new.list)
      BY <2>1, <2>2 DEF Truthful
    <2>5. Kind[n] # "seed"
      BY <1>2, <2>2
    <2> HIDE DEF seen, old, new
    <2> QED
      BY <1>1, <2>3, <2>4, <2>5 DEF old, new, Keeps
  <1> QED
    BY <1>7, <1>8

\* A model whose edit is non-breaking gives its readers what it gave, when the
\* plan was right to call it so.
LEMMA IdealAppended ==
    ASSUME ColumnsApart, Books, NEW e \in Env, NEW project \in Projects, NEW asked \in Askings,
           ~Refused(e, project, asked), Truthful(e, project, asked),
           Lasting(e, project, asked), NEW n \in ModelsOf(project),
           PlanChanges(e, project, asked)[n].change = "non-breaking",
           \A d \in Deps[n] : Spared(e, project, asked, d)
    PROVE  Spared(e, project, asked, n)
  <1> DEFINE act == PlanChanges(e, project, asked)
             new == FingerprintGraph(project, asked.version)[n]
             old == rows[e][n]
             ins == [d \in Deps[n] |-> Ideal[<<d, new.parents[d]>>]]
             was == [d \in Deps[n] |-> Ideal[<<d, old.parents[d]>>]]
  <1>1. /\ n \in DOMAIN rows[e] /\ Kind[n] # "seed"
        /\ Meaning[old.ast.rest] = Meaning[project[n].ast.rest]
        /\ Reads[old.ast.rest] = Reads[project[n].ast.rest]
        /\ old.ast.rest \notin Distinct => project[n].ast.rest \notin Distinct
        /\ Range(old.ast.list) \subseteq Range(project[n].ast.list)
    <2>1. /\ n \in DOMAIN rows[e] /\ Kind[n] # "seed"
          /\ Keeps(rows[e][n].ast, project[n].ast)
      BY NonBreakingIs
    <2> QED
      BY <2>1 DEF Keeps
  <1>2. /\ n \in Name /\ new \in Fingerprints(n) /\ old \in Fingerprints(n)
        /\ new.ast = project[n].ast /\ new.meta = project[n].meta
        /\ \A d \in Deps[n] : /\ new.parents[d] = FingerprintGraph(project, asked.version)[d]
                              /\ old.parents[d] = rows[e][d]
        /\ new.ast # None
    BY <1>1, TwoVersions
  <1>3. /\ act[n].fp = new /\ DOMAIN act = ModelsOf(project)
        /\ \A m \in ModelsOf(project) : act[m].fp.ast = project[m].ast
    <2>1. \A m \in ModelsOf(project) :
            act[m].fp = FingerprintGraph(project, asked.version)[m]
      BY Unchanged
    <2>2. asked.version \in Versions
      BY DEF Askings
    <2>3. \A m \in ModelsOf(project) :
            FingerprintGraph(project, asked.version)[m].ast = project[m].ast
      <3> TAKE m \in ModelsOf(project)
      <3>1. FingerprintGraph(project, asked.version)[m]
            = ModelFingerprint(project[m], [d \in Deps[m] |->
                FingerprintGraph(project, asked.version)[d]], asked.version)
        BY <2>2, ProjectFingerprint
      <3> QED
        BY <3>1 DEF ModelFingerprint
    <2> QED
      BY <2>1, <2>3, ActionsDomain
  <1>4. /\ new.meta = old.meta /\ old.ast.rest \notin Distinct
        /\ \A m \in ModelsOf(project) \cap DOMAIN rows[e] : n \in Deps[m] =>
              Mentions(rows[e][m].ast) \cap (Computed(new.ast) \ Computed(old.ast)) = {}
    <2> HIDE DEF act, new, old
    <2> QED
      BY <1>1, <1>3 DEF Lasting, Computed, act, old
  <1>5. Ideal[<<n, new>>] = Evaluate(new, ins) /\ Ideal[<<n, old>>] = Evaluate(old, was)
    BY <1>1, <1>2, IdealDef
  <1>6. \A d \in Deps[n] : Glimpse(Mentions(old.ast), ins[d]) = Glimpse(Mentions(old.ast), was[d])
    BY <1>1, <1>2 DEF Spared
  <1>7. DOMAIN ins = Deps[n] /\ DOMAIN was = Deps[n]
    OBVIOUS
  <1>8. \A i, j \in Range(new.ast.list) : Column[i] = Column[j] => i = j
    BY <1>2 DEF ColumnsApart, ModelsOf
  <1> HIDE DEF act, new, old, ins, was
  <1>9. /\ Seen(new.ast.rest, ins) = Seen(old.ast.rest, was)
        /\ \A i \in Range(old.ast.list) : Seen(i, ins) = Seen(i, was)
    <2>1. /\ Reads[old.ast.rest] \subseteq Mentions(old.ast)
          /\ \A i \in Range(old.ast.list) : Reads[i] \subseteq Mentions(old.ast)
      BY DEF Mentions
    <2>2. Reads[new.ast.rest] = Reads[old.ast.rest]
      BY <1>1, <1>2
    <2> QED
      BY <1>6, <1>7, <2>1, <2>2, SeenAlike
  <1>10. Basis(new, ins) = Basis(old, was)
    <2>1. [d \in DOMAIN ins |-> ins[d].rows] = [d \in DOMAIN was |-> was[d].rows]
      BY <1>6, <1>7, RowsAlike
    <2>2. /\ Meaning[new.ast.rest] = Meaning[old.ast.rest]
          /\ new.ast.rest \notin Distinct /\ old.ast.rest \notin Distinct
      BY <1>1, <1>2, <1>4
    <2> QED
      BY <1>4, <1>9, <2>1, <2>2 DEF Basis
  <1>11. Range(old.ast.list) \subseteq Range(new.ast.list)
         /\ Computed(old.ast) \subseteq Computed(new.ast)
    BY <1>1, <1>2 DEF Computed
  <1>12. ASSUME NEW c \in Computed(old.ast)
         PROVE  Datum(new, c, ins) = Datum(old, c, was)
    <2>1. ItemOf(new.ast, c) = ItemOf(old.ast, c)
      BY <1>8, <1>11, ItemIs
    <2>2. Seen(ItemOf(old.ast, c), ins) = Seen(ItemOf(old.ast, c), was)
      BY <1>9, ItemIs
    <2> QED
      BY <1>10, <2>1, <2>2 DEF Datum
  <1> DEFINE colNew == [c \in Computed(new.ast) |-> Datum(new, c, ins)]
             colOld == [c \in Computed(old.ast) |-> Datum(old, c, was)]
  <1>13. /\ Ideal[<<n, new>>] = [rows |-> Basis(new, ins), col |-> colNew]
         /\ Ideal[<<n, old>>] = [rows |-> Basis(old, was), col |-> colOld]
    BY <1>5, EvaluateIs
  <1>14. /\ DOMAIN colNew = Computed(new.ast) /\ DOMAIN colOld = Computed(old.ast)
         /\ \A c \in Computed(old.ast) : colNew[c] = colOld[c]
    BY <1>11, <1>12
  <1>15. ASSUME NEW m \in ModelsOf(project) \cap DOMAIN rows[e], n \in Deps[m]
         PROVE  Glimpse(Mentions(rows[e][m].ast), Ideal[<<n, new>>])
                = Glimpse(Mentions(rows[e][m].ast), Ideal[<<n, old>>])
    <2> DEFINE reads == Mentions(rows[e][m].ast)
    <2>1. reads \cap Computed(new.ast) = reads \cap Computed(old.ast)
      BY <1>4, <1>11, <1>15
    <2> HIDE DEF colNew, colOld, reads
    <2>2. [c \in reads \cap DOMAIN colNew |-> colNew[c]]
          = [c \in reads \cap DOMAIN colOld |-> colOld[c]]
      BY <1>14, <2>1
    <2> QED
      BY <1>10, <1>13, <2>2 DEF Glimpse, reads
  <1> QED
    BY <1>15 DEF Spared, new, old

\* All that is outside what is kept and keeps its data, as the plan has it,
\* gives its readers what it gave.
LEMMA SparedAll ==
    ASSUME ColumnsApart, Books, NEW e \in Env, NEW project \in Projects, NEW asked \in Askings,
           ~Refused(e, project, asked), Truthful(e, project, asked),
           Lasting(e, project, asked), NEW K, Keeping(K, e, project, asked)
    PROVE  \A n \in ModelsOf(project) \ K :
             LET act == PlanChanges(e, project, asked) IN
             /\ act[n].change = "unchanged" \/ SameData(act[n]) => Spared(e, project, asked, n)
             /\ act[n].reused => Ideal[<<n, act[n].fp>>] = Ideal[<<n, rows[e][n]>>]
  <1> DEFINE act == PlanChanges(e, project, asked)
             fp == FingerprintGraph(project, asked.version)
             Alike(n) == act[n].change = "unchanged" \/ SameData(act[n])
             odd == {n \in ModelsOf(project) \ K : Alike(n) /\ ~Spared(e, project, asked, n)}
  <1>1. asked.version \in Versions
    BY DEF Askings
  <1>2. \A n \in ModelsOf(project) \ K : Deps[n] \subseteq ModelsOf(project) \ K
    <2> TAKE n \in ModelsOf(project) \ K
    <2>1. n \in Name /\ Deps[n] \subseteq ModelsOf(project)
      BY <1>1, ProjectFingerprint
    <2> QED
      BY <2>1 DEF Keeping
  <1>3. ASSUME NEW n \in ModelsOf(project) \ K, act[n].reused, Deps[n] \cap odd = {}
        PROVE  /\ Ideal[<<n, fp[n]>>] = Ideal[<<n, rows[e][n]>>]
               /\ Spared(e, project, asked, n)
    <2>1. n \in DOMAIN rows[e] /\ rows[e][n] # fp[n]
      BY <1>3, Unchanged
    <2>2. Inherits(e, project, asked, n)
      <3>1. act[n].reused = Inherits(e, project, asked, n)
        BY <2>1, Changed
      <3> QED
        BY <1>3, <3>1, Zenon
    <2>3. /\ ParentsOnly(e, n, project[n], asked.version) /\ Kind[n] # "seed"
          /\ \A d \in Moved(act, n) : SameData(act[d])
      BY <2>2 DEF Inherits, ByParents, Reusable
    <2>4. \A d \in Deps[n] : Spared(e, project, asked, d)
      <3> TAKE d \in Deps[n]
      <3>1. Alike(d)
        BY <2>3 DEF Moved
      <3>2. d \in ModelsOf(project) \ K
        BY <1>2
      <3> HIDE DEF Alike, act
      <3> QED
        BY <1>3, <3>1, <3>2
    <2>5. Ideal[<<n, fp[n]>>] = Ideal[<<n, rows[e][n]>>]
      BY <2>1, <2>3, <2>4, IdealReused
    <2> QED
      BY <2>5 DEF Spared
  <1>4. ASSUME NEW n \in ModelsOf(project) \ K, act[n].change = "non-breaking",
               Deps[n] \cap odd = {}
        PROVE  Spared(e, project, asked, n)
    <2>1. \A d \in Moved(act, n) : SameData(act[d])
      <3>1. n \in DOMAIN rows[e] /\ n \in DOMAIN act
        BY <1>4, NonBreakingIs, ActionsDomain
      <3> HIDE DEF act
      <3> QED
        BY <1>4, <3>1 DEF Lasting, Moved, act
    <2>2. \A d \in Deps[n] : Spared(e, project, asked, d)
      <3> TAKE d \in Deps[n]
      <3>1. Alike(d)
        BY <2>1 DEF Moved
      <3>2. d \in ModelsOf(project) \ K
        BY <1>2
      <3> HIDE DEF Alike, act
      <3> QED
        BY <1>4, <3>1, <3>2
    <2> QED
      BY <1>4, <2>2, IdealAppended
  <1>5. ASSUME NEW n \in ModelsOf(project) \ K, act[n].change = "unchanged"
        PROVE  Spared(e, project, asked, n)
    <2>1. rows[e][n] = fp[n]
      BY <1>5, Unchanged
    <2> QED
      BY <2>1 DEF Spared
  <1>6. \A n \in ModelsOf(project) \ K : act[n].change # "forward-only"
    BY NoForward
  <1>7. odd = {}
    <2> SUFFICES ASSUME odd # {}
                 PROVE  FALSE
      OBVIOUS
    <2>1. odd \subseteq Name
      BY DEF ModelsOf
    <2>2. PICK n \in odd : Deps[n] \cap odd = {}
      <3> HIDE DEF odd
      <3> QED
        BY <2>1, Minimal
    <2>3. n \in ModelsOf(project) \ K /\ Alike(n) /\ ~Spared(e, project, asked, n)
      OBVIOUS
    <2>4. act[n].change \in {"unchanged", "non-breaking"} \/ act[n].reused
      BY <1>6, <2>3 DEF SameData
    <2> HIDE DEF odd, act, Alike
    <2> QED
      BY <1>3, <1>4, <1>5, <2>2, <2>3, <2>4
  <1>8. \A n \in ModelsOf(project) : act[n].fp = fp[n]
    BY Unchanged
  <1> SUFFICES ASSUME NEW n \in ModelsOf(project) \ K
               PROVE  /\ Alike(n) => Spared(e, project, asked, n)
                      /\ act[n].reused => Ideal[<<n, act[n].fp>>] = Ideal[<<n, rows[e][n]>>]
    BY DEF act
  <1>9. Alike(n) => Spared(e, project, asked, n)
    BY <1>7
  <1>10. Deps[n] \cap odd = {}
    BY <1>7
  <1> HIDE DEF odd, Alike, act, fp
  <1> QED
    BY <1>3, <1>8, <1>9, <1>10

\* A planned model that is not kept has physics of the data its version computes.
LEMMA PhysicsIdeal ==
    ASSUME ColumnsApart, PInv, NEW e \in Env, NEW project \in Projects, NEW asked \in Askings,
           ~Refused(e, project, asked), Truthful(e, project, asked),
           Lasting(e, project, asked), NEW K, Keeping(K, e, project, asked)
    PROVE  \A n \in ModelsOf(project) \ K :
             LET act == PlanChanges(e, project, asked) IN
             Ideal[<<n, act[n].pfp>>] = Ideal[<<n, act[n].fp>>]
  <1> SUFFICES ASSUME NEW n \in ModelsOf(project) \ K
               PROVE  Ideal[<<n, PlanChanges(e, project, asked)[n].pfp>>]
                      = Ideal[<<n, PlanChanges(e, project, asked)[n].fp>>]
    OBVIOUS
  <1> DEFINE act == PlanChanges(e, project, asked)
             existing == Snapshot(n, act[n].fp)
             previous == Snapshot(n, Known(e, n))
  <1>0. Books
    BY DEF PInv
  <1>1. act[n].fp = FingerprintGraph(project, asked.version)[n]
    BY <1>0, Unchanged
  <1>2. act[n].pfp = IF existing # None THEN existing.pfp
                     ELSE IF act[n].from # None THEN previous.pfp ELSE act[n].fp
    BY <1>1, Planned
  <1>3. n \notin kept
    BY DEF Keeping
  <1>4. existing # None => existing \in snapshots /\ existing.name = n
                           /\ existing.fp = act[n].fp
    BY <1>0, SnapshotNone
  <1>5. act[n].from # None =>
          /\ previous \in snapshots /\ previous.name = n /\ previous.fp = rows[e][n]
          /\ Ideal[<<n, act[n].fp>>] = Ideal[<<n, rows[e][n]>>]
    <2> SUFFICES ASSUME act[n].from # None
                 PROVE  /\ previous \in snapshots /\ previous.name = n
                        /\ previous.fp = rows[e][n]
                        /\ Ideal[<<n, act[n].fp>>] = Ideal[<<n, rows[e][n]>>]
      OBVIOUS
    <2>1. n \in DOMAIN rows[e] /\ (act[n].change = "forward-only" \/ act[n].reused)
      BY <1>0, Inherited
    <2>2. act[n].change # "forward-only"
      BY <1>0, NoForward
    <2>3. Ideal[<<n, act[n].fp>>] = Ideal[<<n, rows[e][n]>>]
      BY <1>0, <2>1, <2>2, SparedAll
    <2> QED
      BY <1>0, <2>1, <2>3, KnownIs
  <1> HIDE DEF act, existing, previous
  <1>6. CASE existing # None
    <2>1. Holds(existing)
      BY <1>3, <1>4, <1>6 DEF PInv
    <2> QED
      BY <1>2, <1>4, <1>6, <2>1 DEF Holds, act
  <1>7. CASE existing = None /\ act[n].from # None
    <2>1. Holds(previous)
      BY <1>3, <1>5, <1>7 DEF PInv
    <2> QED
      BY <1>2, <1>5, <1>7, <2>1 DEF Holds, act
  <1>8. CASE existing = None /\ act[n].from = None
    BY <1>2, <1>8 DEF act
  <1> QED
    BY <1>6, <1>7, <1>8
-----------------------------------------------------------------------------
(* Reading the tables, those that an apply writes and the others.          *)

Tables(act) == Live \cup Fresh(act)

Entry(act, k) ==
    IF k \in Fresh(act)
    THEN [fp |-> act[k[1]].fp, over |-> [d \in Deps[k[1]] |-> <<d, act[d].pfp>>]]
    ELSE table[k]

Calculated(act) ==
    {k \in Tables(act) : Kind[k[1]] = "view" \/ (k \in Fresh(act) /\ Kind[k[1]] # "seed")}

Source(act) == [k \in Tables(act) |-> Entry(act, k).fp]

Inputs(act) == [k \in Tables(act) |-> Entry(act, k).over]

Given(act) == [k \in Tables(act) |-> IF k \in Fresh(act) THEN SeedContent(k[2]) ELSE table[k]]

\* This is what reading gives once a plan has been carried out.
ReadAfter(read, act) ==
    Reading(read, Tables(act), Calculated(act), Source(act), Inputs(act), Given(act))

\* What is written reads tables there are.
Consistent(act) ==
    \A n \in Written(act) : n \in Name /\ \A d \in Deps[n] : <<d, act[d].pfp>> \in Tables(act)

\* Physics may be exchanged for the version's own.
Agreeing(act, K) ==
    \A n \in Written(act) \ K :
        /\ act[n].pfp \in Fingerprints(n) /\ act[n].fp \in Fingerprints(n)
        /\ Ideal[<<n, act[n].pfp>>] = Ideal[<<n, act[n].fp>>]
        /\ \A d \in Deps[n] : Ideal[<<d, act[d].pfp>>] = Ideal[<<d, act[n].fp.parents[d]>>]

\* The tables of a record, of those it is over.
LEMMA ViewOver ==
    ASSUME PInv, NEW k \in Live
    PROVE  /\ k[1] \in Name /\ k = <<k[1], k[2]>> /\ k \in Keys
           /\ \E s \in snapshots : s.name = k[1] /\ s.pfp = k[2]
           /\ k[1] \notin kept /\ Kind[k[1]] # "view" => table[k] = Ideal[k]
           /\ Kind[k[1]] = "view" =>
                /\ table[k].fp = k[2]
                /\ \A d \in Deps[k[1]] :
                      /\ table[k].over[d] \in Live /\ table[k].over[d][1] = d
                      /\ d \notin kept =>
                            Ideal[table[k].over[d]] = Ideal[<<d, k[2].parents[d]>>]
  <1>1. PICK s \in snapshots : k = <<s.name, s.pfp>>
    BY DEF Live
  <1>2. Recorded(s) /\ Over(s) /\ (s.name \notin kept => Holds(s))
    BY DEF PInv, Books
  <1>3. s.name \in Name /\ s.pfp \in Fingerprints(s.name)
    BY <1>2 DEF Recorded, Record
  <1>4. k \in Keys
    BY <1>1, <1>3, KeysAre
  <1>5. k[1] \notin kept /\ Kind[k[1]] # "view" => table[k] = Ideal[k]
    BY <1>1, <1>2 DEF Holds
  <1>6. ASSUME Kind[k[1]] = "view"
        PROVE  /\ table[k].fp = k[2]
               /\ \A d \in Deps[k[1]] :
                     /\ table[k].over[d] \in Live /\ table[k].over[d][1] = d
                     /\ d \notin kept =>
                           Ideal[table[k].over[d]] = Ideal[<<d, k[2].parents[d]>>]
    <2>1. s.pfp = s.fp
      BY <1>1, <1>2, <1>6 DEF Recorded
    <2>2. table[k].fp = s.fp
      BY <1>1, <1>2, <1>6 DEF Over
    <2>3. ASSUME NEW d \in Deps[s.name]
          PROVE  /\ table[k].over[d] \in Live /\ table[k].over[d][1] = d
                 /\ d \notin kept =>
                       Ideal[table[k].over[d]] = Ideal[<<d, s.fp.parents[d]>>]
      <3>1. PICK t \in snapshots : t.name = d /\ t.fp = s.fp.parents[d]
        BY <1>2 DEF Recorded
      <3>2. table[k].over[d] = <<d, t.pfp>>
        BY <1>1, <1>2, <1>6, <3>1 DEF Over
      <3>3. <<d, t.pfp>> \in Live
        BY <3>1 DEF Live
      <3>4. d \notin kept => Holds(t)
        BY <3>1 DEF PInv
      <3> QED
        BY <3>1, <3>2, <3>3, <3>4 DEF Holds
    <2> QED
      BY <1>1, <2>1, <2>2, <2>3
  <1> QED
    BY <1>1, <1>3, <1>4, <1>5, <1>6

LEMMA FreshIs ==
    ASSUME NEW act, NEW k \in Fresh(act)
    PROVE  k[1] \in Written(act) /\ k = <<k[1], act[k[1]].pfp>>
BY DEF Fresh

LEMMA AllReadable ==
    ASSUME PInv, NEW act, Consistent(act)
    PROVE  Readable(Tables(act), Calculated(act), Inputs(act))
  <1>1. ASSUME NEW k \in Tables(act)
        PROVE  k[1] \in Name /\ k = <<k[1], k[2]>>
    <2>1. CASE k \in Fresh(act)
      BY <2>1, FreshIs DEF Consistent
    <2>2. CASE k \in Live
      BY <2>2, ViewOver
    <2> QED
      BY <2>1, <2>2 DEF Tables
  <1>2. ASSUME NEW k \in Tables(act) \cap Calculated(act), NEW d \in Deps[k[1]]
        PROVE  Inputs(act)[k][d] \in Tables(act) /\ Inputs(act)[k][d][1] = d
    <2>0. Inputs(act)[k] = Entry(act, k).over
      BY DEF Inputs
    <2>1. CASE k \in Fresh(act)
      <3>1. Entry(act, k).over[d] = <<d, act[d].pfp>>
        BY <2>1 DEF Entry
      <3>2. k[1] \in Written(act)
        BY <2>1, FreshIs
      <3> QED
        BY <2>0, <3>1, <3>2 DEF Consistent
    <2>2. CASE k \notin Fresh(act)
      <3>1. k \in Live /\ Kind[k[1]] = "view"
        BY <2>2 DEF Calculated, Tables
      <3>2. table[k].over[d] \in Live /\ table[k].over[d][1] = d
        BY <3>1, ViewOver
      <3>3. Entry(act, k) = table[k]
        BY <2>2 DEF Entry
      <3> QED
        BY <2>0, <3>2, <3>3 DEF Tables
    <2> QED
      BY <2>1, <2>2
  <1> QED
    BY <1>1, <1>2 DEF Readable

\* Outside what is kept a table reads what its version computes.
LEMMA ReadsIdeal ==
    ASSUME PInv, NEW act, Consistent(act), NEW K, kept \subseteq K,
           \A n \in Name : \A d \in Deps[n] : d \in K => n \in K,
           Agreeing(act, K), NEW read, ReadAfter(read, act)
    PROVE  \A k \in Tables(act) : k[1] \notin K => read[k] = Ideal[k]
  <1> DEFINE odd == {n \in Name \ K : \E k \in Tables(act) : k[1] = n /\ read[k] # Ideal[k]}
  <1>1. \A k \in Tables(act) : k[1] \in Name /\ k = <<k[1], k[2]>>
    BY AllReadable DEF Readable
  <1>2. odd = {}
    <2> SUFFICES ASSUME odd # {}
                 PROVE  FALSE
      OBVIOUS
    <2>1. PICK n \in odd : Deps[n] \cap odd = {}
      <3>1. odd \subseteq Name
        OBVIOUS
      <3> HIDE DEF odd
      <3> QED
        BY <3>1, Minimal
    <2>2. n \in Name /\ n \notin K
      OBVIOUS
    <2>3. PICK k \in Tables(act) : k[1] = n /\ read[k] # Ideal[k]
      OBVIOUS
    <2>4. ASSUME NEW d \in Deps[n], NEW x \in Tables(act), x[1] = d
          PROVE  read[x] = Ideal[x]
      <3>1. d \notin K /\ d \in Name
        BY <2>2, DepsNames
      <3>2. d \notin odd
        BY <2>1
      <3> QED
        BY <2>4, <3>1, <3>2
    <2> HIDE DEF odd
    <2>5. read[k] = TableAt(Calculated(act), Source(act), Inputs(act), Given(act), k, read)
      BY <2>3 DEF ReadAfter, Reading
    <2>6. Source(act)[k] = Entry(act, k).fp /\ Inputs(act)[k] = Entry(act, k).over
          /\ Given(act)[k] = IF k \in Fresh(act) THEN SeedContent(k[2]) ELSE table[k]
      BY <2>3 DEF Source, Inputs, Given
    <2>7. CASE k \in Fresh(act) /\ Kind[n] = "seed"
      <3>1. n \in Written(act) /\ k = <<n, act[n].pfp>>
        BY <2>3, <2>7, FreshIs
      <3>2. act[n].pfp \in Fingerprints(n)
        BY <2>2, <3>1 DEF Agreeing
      <3>3. Ideal[k] = SeedContent(act[n].pfp)
        BY <2>2, <2>7, <3>1, <3>2, IdealDef
      <3>4. k \notin Calculated(act)
        BY <2>3, <2>7 DEF Calculated
      <3> QED
        BY <2>3, <2>5, <2>6, <2>7, <3>1, <3>3, <3>4 DEF TableAt
    <2>8. CASE k \in Fresh(act) /\ Kind[n] # "seed"
      <3>1. n \in Written(act) /\ k = <<n, act[n].pfp>>
        BY <2>3, <2>8, FreshIs
      <3> DEFINE f == act[n].fp
      <3>2. /\ f \in Fingerprints(n)
            /\ Ideal[<<n, act[n].pfp>>] = Ideal[<<n, f>>]
            /\ \A d \in Deps[n] : Ideal[<<d, act[d].pfp>>] = Ideal[<<d, f.parents[d]>>]
        BY <2>2, <3>1 DEF Agreeing
      <3>3. /\ Entry(act, k).fp = f
            /\ \A d \in Deps[n] : Entry(act, k).over[d] = <<d, act[d].pfp>>
        BY <2>3, <2>8 DEF Entry
      <3>4. k \in Calculated(act)
        BY <2>3, <2>8 DEF Calculated
      <3>5. \A d \in Deps[n] : read[<<d, act[d].pfp>>] = Ideal[<<d, f.parents[d]>>]
        <4> TAKE d \in Deps[n]
        <4>1. <<d, act[d].pfp>> \in Tables(act)
          BY <3>1 DEF Consistent
        <4> QED
          BY <2>4, <3>2, <4>1
      <3> HIDE DEF f
      <3>6. read[k] = Evaluate(f, [d \in Deps[n] |-> read[Inputs(act)[k][d]]])
        BY <2>3, <2>5, <2>6, <3>3, <3>4 DEF TableAt
      <3>7. [d \in Deps[n] |-> read[Inputs(act)[k][d]]]
            = [d \in Deps[n] |-> Ideal[<<d, f.parents[d]>>]]
        BY <2>6, <3>3, <3>5
      <3>8. Ideal[<<n, f>>] = Evaluate(f, [d \in Deps[n] |-> Ideal[<<d, f.parents[d]>>]])
        BY <2>2, <2>8, <3>2, IdealDef
      <3> QED
        BY <2>3, <3>1, <3>2, <3>6, <3>7, <3>8
    <2>9. CASE k \notin Fresh(act)
      <3>1. k \in Live /\ n \notin kept /\ Entry(act, k) = table[k]
        BY <2>2, <2>3, <2>9 DEF Tables, Entry
      <3>2. CASE Kind[n] # "view"
        <4>1. k \notin Calculated(act)
          BY <2>3, <2>9, <3>2 DEF Calculated
        <4>2. table[k] = Ideal[k]
          BY <2>3, <3>1, <3>2, ViewOver
        <4> QED
          BY <2>3, <2>5, <2>6, <2>9, <4>1, <4>2 DEF TableAt
      <3>3. CASE Kind[n] = "view"
        <4> DEFINE f == k[2]
        <4>1. /\ table[k].fp = f /\ k = <<n, f>> /\ k \in Keys
              /\ \A d \in Deps[n] : /\ table[k].over[d] \in Live /\ table[k].over[d][1] = d
                                    /\ d \notin kept =>
                                         Ideal[table[k].over[d]] = Ideal[<<d, f.parents[d]>>]
          BY <2>3, <3>1, <3>3, ViewOver
        <4>2. \A d \in Deps[n] : read[table[k].over[d]] = Ideal[<<d, f.parents[d]>>]
          <5> TAKE d \in Deps[n]
          <5>1. d \notin kept
            BY <2>2
          <5>2. table[k].over[d] \in Tables(act)
            BY <4>1 DEF Tables
          <5> QED
            BY <2>4, <4>1, <5>1, <5>2
        <4>3. k \in Calculated(act)
          BY <2>3, <3>3 DEF Calculated
        <4> HIDE DEF f
        <4>4. read[k] = Evaluate(f, [d \in Deps[n] |-> read[Inputs(act)[k][d]]])
          BY <2>3, <2>5, <2>6, <3>1, <4>1, <4>3 DEF TableAt
        <4>5. [d \in Deps[n] |-> read[Inputs(act)[k][d]]]
              = [d \in Deps[n] |-> Ideal[<<d, f.parents[d]>>]]
          BY <2>6, <3>1, <4>2
        <4>6. f \in Fingerprints(n)
          BY <4>1, KeysAre
        <4>7. Ideal[<<n, f>>] = Evaluate(f, [d \in Deps[n] |-> Ideal[<<d, f.parents[d]>>]])
          BY <2>2, <3>3, <4>6, IdealDef
        <4> QED
          BY <2>3, <4>1, <4>4, <4>5, <4>7
      <3> QED
        BY <3>2, <3>3
    <2> QED
      BY <2>7, <2>8, <2>9
  <1> QED
    BY <1>1, <1>2

\* Reading is defined once the plan has been carried out, ...
LEMMA ReadAfterExists ==
    ASSUME PInv, NEW act, Consistent(act)
    PROVE  /\ \E read : ReadAfter(read, act)
           /\ \E read : read = [k \in Tables(act) |->
                TableAt(Calculated(act), Source(act), Inputs(act), Given(act), k, read)]
  <1>1. Readable(Tables(act), Calculated(act), Inputs(act))
    BY AllReadable
  <1>2. PICK read : Reading(read, Tables(act), Calculated(act), Source(act), Inputs(act),
                            Given(act))
    BY <1>1, ReadingExists
  <1>3. read = [k \in Tables(act) |->
          TableAt(Calculated(act), Source(act), Inputs(act), Given(act), k, read)]
    BY <1>2 DEF Reading
  <1> QED
    BY <1>2, <1>3 DEF ReadAfter

\* ... and before.
LEMMA ContentsIdeal ==
    ASSUME PInv
    PROVE  \A k \in Live : k[1] \notin kept => Contents[k] = Ideal[k]
  <1> DEFINE act == [n \in {} |-> None]
             F(g) == [k \in Tables(act) |->
                TableAt(Calculated(act), Source(act), Inputs(act), Given(act), k, g)]
             G(g) == [k \in Live |->
                IF Kind[k[1]] = "view"
                THEN Evaluate(table[k].fp, [d \in Deps[k[1]] |-> g[table[k].over[d]]])
                ELSE table[k]]
  <1>1. Written(act) = {} /\ Fresh(act) = {}
    BY DEF Working, Written, Fresh
  <1>2. Consistent(act) /\ Agreeing(act, kept)
    BY <1>1 DEF Consistent, Agreeing
  <1>3. Tables(act) = Live
    BY <1>1 DEF Tables
  <1> HIDE DEF act
  <1>4. ASSUME NEW g
        PROVE  F(g) = G(g)
    <2>1. ASSUME NEW k \in Live
          PROVE  TableAt(Calculated(act), Source(act), Inputs(act), Given(act), k, g)
                 = IF Kind[k[1]] = "view"
                   THEN Evaluate(table[k].fp, [d \in Deps[k[1]] |-> g[table[k].over[d]]])
                   ELSE table[k]
      <3>1. Entry(act, k) = table[k]
        BY <1>1 DEF Entry
      <3>2. /\ Source(act)[k] = table[k].fp /\ Inputs(act)[k] = table[k].over
            /\ Given(act)[k] = table[k]
        BY <1>1, <1>3, <3>1 DEF Source, Inputs, Given
      <3>3. k \in Calculated(act) <=> Kind[k[1]] = "view"
        BY <1>1, <1>3 DEF Calculated
      <3> QED
        BY <3>2, <3>3 DEF TableAt
    <2> QED
      BY <1>3, <2>1
  <1>5. \E g : g = F(g)
    BY <1>2, ReadAfterExists
  <1>6. Contents = CHOOSE g : g = G(g)
    BY DEF Contents
  <1>7. Contents = F(Contents)
    <2>1. \E g : g = G(g)
      <3> HIDE DEF F, G
      <3> QED
        BY <1>4, <1>5
    <2>2. Contents = G(Contents)
      <3> HIDE DEF G
      <3> QED
        BY <1>6, <2>1
    <2> HIDE DEF F, G
    <2> QED
      BY <1>4, <2>2
  <1>8. ReadAfter(Contents, act)
    <2>1. \A k \in Tables(act) : Contents[k]
            = TableAt(Calculated(act), Source(act), Inputs(act), Given(act), k, Contents)
      BY <1>7
    <2>2. Contents = [k \in Tables(act) |-> Contents[k]]
      BY <1>7
    <2> QED
      BY <2>1, <2>2 DEF ReadAfter, Reading
  <1>9. \A n \in Name : \A d \in Deps[n] : d \in kept => n \in kept
    BY DEF PInv, Kept
  <1> QED
    BY <1>2, <1>3, <1>8, <1>9, ReadsIdeal

\* The tables after an apply.
LEMMA BuiltIs ==
    ASSUME PInv, NEW act, Consistent(act)
    PROVE  \E read : /\ ReadAfter(read, act)
                     /\ Built(act) = [k \in DOMAIN table \cup Fresh(act) |->
                            IF Kind[k[1]] = "view" \/ k \notin Fresh(act)
                            THEN Entry(act, k) ELSE read[k]]
  <1> DEFINE F(g) == [k \in Tables(act) |->
                TableAt(Calculated(act), Source(act), Inputs(act), Given(act), k, g)]
             view(n) == [fp |-> act[n].fp, over |-> [d \in Deps[n] |-> <<d, act[d].pfp>>]]
             entry(k) == IF k \in Fresh(act) THEN view(k[1]) ELSE table[k]
             G(g) == [k \in Live \cup Fresh(act) |->
                IF Kind[k[1]] = "view" \/ (k \in Fresh(act) /\ Kind[k[1]] # "seed")
                THEN Evaluate(entry(k).fp, [d \in Deps[k[1]] |-> g[entry(k).over[d]]])
                ELSE IF k \in Fresh(act) THEN SeedContent(k[2]) ELSE table[k]]
             read == CHOOSE g : g = G(g)
  <1>1. \A k : entry(k) = Entry(act, k)
    BY DEF Entry
  <1>2. Built(act) = [k \in DOMAIN table \cup Fresh(act) |->
            IF Kind[k[1]] = "view" \/ k \notin Fresh(act) THEN entry(k) ELSE read[k]]
    BY DEF Built, Fresh
  <1>3. ASSUME NEW g
        PROVE  F(g) = G(g)
    <2>1. ASSUME NEW k \in Tables(act)
          PROVE  TableAt(Calculated(act), Source(act), Inputs(act), Given(act), k, g)
                 = IF Kind[k[1]] = "view" \/ (k \in Fresh(act) /\ Kind[k[1]] # "seed")
                   THEN Evaluate(entry(k).fp, [d \in Deps[k[1]] |-> g[entry(k).over[d]]])
                   ELSE IF k \in Fresh(act) THEN SeedContent(k[2]) ELSE table[k]
      <3>1. /\ Source(act)[k] = entry(k).fp /\ Inputs(act)[k] = entry(k).over
            /\ Given(act)[k] = IF k \in Fresh(act) THEN SeedContent(k[2]) ELSE table[k]
        BY <1>1 DEF Source, Inputs, Given
      <3>2. k \in Calculated(act) <=>
              Kind[k[1]] = "view" \/ (k \in Fresh(act) /\ Kind[k[1]] # "seed")
        BY DEF Calculated
      <3> HIDE DEF entry
      <3> QED
        BY <3>1, <3>2 DEF TableAt
    <2> HIDE DEF entry
    <2> QED
      BY <2>1 DEF Tables
  <1>4. \E g : g = F(g)
    BY ReadAfterExists
  <1> HIDE DEF F, G, entry, view
  <1>5. read = G(read)
    <2>1. \E g : g = G(g)
      BY <1>3, <1>4
    <2> QED
      BY <2>1
  <1> HIDE DEF read
  <1>6. read = F(read)
    BY <1>3, <1>5
  <1>7. ReadAfter(read, act)
    <2>1. \A k \in Tables(act) : read[k]
            = TableAt(Calculated(act), Source(act), Inputs(act), Given(act), k, read)
      BY <1>6 DEF F
    <2>2. read = [k \in Tables(act) |-> read[k]]
      BY <1>6 DEF F
    <2> QED
      BY <2>1, <2>2 DEF ReadAfter, Reading
  <1>8. Built(act) = [k \in DOMAIN table \cup Fresh(act) |->
            IF Kind[k[1]] = "view" \/ k \notin Fresh(act) THEN Entry(act, k) ELSE read[k]]
    BY <1>1, <1>2
  <1> QED
    BY <1>7, <1>8
-----------------------------------------------------------------------------
(* The invariant.                                                          *)

LEMMA KeptApply ==
    ASSUME Kept, NEW e \in Env, NEW project \in Projects, NEW asked \in Askings,
           Apply(e, project, asked)
    PROVE  Kept' /\ Keeping(kept', e, project, asked)
  <1> DEFINE act == PlanChanges(e, project, asked)
             flagged == {n \in asked.forward : act[n].change = "forward-only"}
  <1>1. kept' = kept \cup Downstream(flagged)
    BY DEF Apply
  <1>2. /\ Downstream(flagged) \subseteq Name
        /\ \A n \in Name : n \in Downstream(flagged) <=>
              n \in flagged \/ \E d \in Deps[n] : d \in Downstream(flagged)
    BY DownstreamDef
  <1>3. Kept'
    <2> HIDE DEF flagged
    <2> QED
      BY <1>1, <1>2 DEF Kept
  <1>4. \A n \in asked.forward \cap Name : act[n].change = "forward-only" => n \in kept'
    BY <1>1, <1>2
  <1> QED
    BY <1>1, <1>3, <1>4 DEF Keeping, Kept

\* What an apply does to the tables.
LEMMA PInvApply ==
    ASSUME ColumnsApart, PInv, NEW e \in Env, NEW project \in Projects,
           NEW asked \in Askings, Apply(e, project, asked), Lasting(e, project, asked)
    PROVE  PInv'
  <1> DEFINE act == PlanChanges(e, project, asked)
             new == Registered(act, asked.version)
             K == kept'
             M == ModelsOf(project)
  <1>1. /\ ~Refused(e, project, asked) /\ Truthful(e, project, asked)
        /\ table' = Built(act) /\ snapshots' = snapshots \cup new
    BY DEF Apply
  <1>2. Books /\ Kept
    BY DEF PInv
  <1>3. Books' /\ Kept' /\ Keeping(K, e, project, asked)
    BY <1>2, BooksApply, KeptApply
  <1>4. asked.version \in Versions
    BY DEF Askings
  <1>5. ASSUME NEW n \in M
        PROVE  /\ n \in Name /\ Deps[n] \subseteq M
               /\ act[n].fp \in Fingerprints(n) /\ act[n].pfp \in Fingerprints(n)
               /\ \A d \in Deps[n] : act[n].fp.parents[d] = act[d].fp
               /\ <<n, act[n].pfp>> \in Tables(act)
               /\ Kind[n] \in {"view", "seed"} => act[n].from = None /\ act[n].pfp = act[n].fp
               /\ \E t \in snapshots \cup new :
                     t.name = n /\ t.fp = act[n].fp /\ t.pfp = act[n].pfp
    <2> DEFINE fp == FingerprintGraph(project, asked.version)
    <2>1. /\ fp[n] = ModelFingerprint(project[n], [d \in Deps[n] |-> fp[d]], asked.version)
          /\ Deps[n] \subseteq M
      BY <1>4, ProjectFingerprint
    <2>2. \A m \in M : act[m].fp = fp[m]
      BY <1>2, Unchanged
    <2>3. n \in Name /\ act[n].fp \in Fingerprints(n)
      BY <1>2, Unchanged
    <2>4. \A d \in Deps[n] : act[n].fp.parents[d] = act[d].fp
      <3> HIDE DEF fp, act, M
      <3> QED
        BY <2>1, <2>2 DEF ModelFingerprint
    <2>5. /\ act[n].pfp \in Fingerprints(n)
          /\ <<n, act[n].pfp>> \in Live \cup Fresh(act)
          /\ Kind[n] \in {"view", "seed"} => act[n].from = None /\ act[n].pfp = act[n].fp
          /\ \E t \in snapshots \cup new :
                t.name = n /\ t.fp = act[n].fp /\ t.pfp = act[n].pfp
      BY <1>1, <1>2, PhysicsIs
    <2> QED
      BY <2>1, <2>3, <2>4, <2>5 DEF Tables
  <1>6. \A n \in M \ K : /\ Ideal[<<n, act[n].pfp>>] = Ideal[<<n, act[n].fp>>]
                         /\ \A d \in Deps[n] : d \in M \ K
    <2>1. \A n \in M \ K : Ideal[<<n, act[n].pfp>>] = Ideal[<<n, act[n].fp>>]
      BY <1>1, <1>3, PhysicsIdeal
    <2>2. \A n \in M \ K : \A d \in Deps[n] : d \in M \ K
      BY <1>3, <1>5 DEF Keeping
    <2> QED
      BY <2>1, <2>2
  <1>7. DOMAIN act = M
    BY ActionsDomain
  <1> HIDE DEF act, M
  <1>8. Written(act) \subseteq M /\ Working(act) \subseteq M
    BY <1>7 DEF Written, Working
  <1>9. Consistent(act)
    BY <1>5, <1>8 DEF Consistent
  <1>10. Agreeing(act, K)
    <2> SUFFICES ASSUME NEW n \in Written(act) \ K
                 PROVE  /\ act[n].pfp \in Fingerprints(n) /\ act[n].fp \in Fingerprints(n)
                        /\ Ideal[<<n, act[n].pfp>>] = Ideal[<<n, act[n].fp>>]
                        /\ \A d \in Deps[n] : Ideal[<<d, act[d].pfp>>]
                                              = Ideal[<<d, act[n].fp.parents[d]>>]
      BY DEF Agreeing
    <2>1. n \in M \ K
      BY <1>8
    <2> QED
      BY <1>5, <1>6, <2>1
  <1>11. PICK read :
           /\ ReadAfter(read, act)
           /\ table' = [k \in DOMAIN table \cup Fresh(act) |->
                IF Kind[k[1]] = "view" \/ k \notin Fresh(act) THEN Entry(act, k) ELSE read[k]]
    <2>1. PICK read : /\ ReadAfter(read, act)
                      /\ Built(act) = [k \in DOMAIN table \cup Fresh(act) |->
                            IF Kind[k[1]] = "view" \/ k \notin Fresh(act)
                            THEN Entry(act, k) ELSE read[k]]
      BY <1>9, BuiltIs
    <2> DEFINE built == [k \in DOMAIN table \cup Fresh(act) |->
                            IF Kind[k[1]] = "view" \/ k \notin Fresh(act)
                            THEN Entry(act, k) ELSE read[k]]
    <2>2. table' = built
      BY <1>1, <2>1 DEF act
    <2> QED
      BY <2>1, <2>2
  <1>12. \A k \in Tables(act) : k[1] \notin K => read[k] = Ideal[k]
    BY <1>3, <1>9, <1>10, <1>11, ReadsIdeal DEF Keeping
  <1>13. Live \subseteq DOMAIN table
    BY <1>2, LiveThere
  <1>14. \A k \in Tables(act) : table'[k] =
            IF Kind[k[1]] = "view" \/ k \notin Fresh(act) THEN Entry(act, k) ELSE read[k]
    BY <1>11, <1>13 DEF Tables
  <1>15. ASSUME NEW s \in snapshots'
         PROVE  <<s.name, s.pfp>> \in Tables(act)
    <2>1. CASE s \in snapshots
      BY <2>1 DEF Live, Tables
    <2>2. CASE s \in new
      <3>1. s.name \in M /\ s.pfp = act[s.name].pfp
        BY <2>2, RegisteredIs DEF act, M
      <3> QED
        BY <1>5, <3>1
    <2> QED
      BY <1>1, <2>1, <2>2
  <1>16. \A s, t \in snapshots' : s.name = t.name /\ s.fp = t.fp => s = t
    BY <1>3 DEF Books
  <1>17. ASSUME NEW s \in snapshots'
         PROVE  Over(s)'
    <2> SUFFICES ASSUME Kind[s.name] = "view"
                 PROVE  LET view == table'[<<s.name, s.pfp>>] IN
                        /\ view.fp = s.fp
                        /\ \A d \in Deps[s.name] : \A t \in snapshots' :
                              t.name = d /\ t.fp = s.fp.parents[d]
                                  => view.over[d] = <<d, t.pfp>>
      BY DEF Over
    <2> DEFINE k == <<s.name, s.pfp>>
    <2>1. table'[k] = Entry(act, k)
      BY <1>14, <1>15
    <2>2. CASE s \in snapshots
      <3>1. Recorded(s) /\ Over(s)
        BY <1>2, <2>2 DEF PInv, Books
      <3>2. k \notin Fresh(act)
        <4> SUFFICES ASSUME k \in Fresh(act)
                     PROVE  FALSE
          OBVIOUS
        <4>1. s.name \in Written(act) /\ s.pfp = act[s.name].pfp
          BY FreshIs
        <4>2. s.name \in M /\ s.fp = act[s.name].fp
          BY <1>5, <1>8, <3>1, <4>1 DEF Recorded
        <4>3. Snapshot(s.name, act[s.name].fp) # None
          BY <1>2, <2>2, <4>2, SnapshotIs
        <4>4. ~act[s.name].build
          <5> DEFINE f == FingerprintGraph(project, asked.version)[s.name]
          <5>1. /\ act[s.name].build <=> /\ act[s.name].change # "unchanged"
                                         /\ Snapshot(s.name, f) = None
                /\ act[s.name].fp = f
            BY <4>2, Planned DEF act, M
          <5> QED
            BY <4>3, <5>1
        <4> QED
          BY <4>1, <4>4 DEF Written, Working, Refresh
      <3>3. table'[k] = table[k]
        BY <2>1, <3>2 DEF Entry
      <3>4. ASSUME NEW d \in Deps[s.name], NEW t \in snapshots', t.name = d,
                   t.fp = s.fp.parents[d]
            PROVE  table[k].over[d] = <<d, t.pfp>>
        <4>1. PICK u \in snapshots : u.name = d /\ u.fp = s.fp.parents[d]
          BY <3>1 DEF Recorded
        <4>2. u = t
          BY <1>1, <1>16, <3>4, <4>1
        <4> QED
          BY <3>1, <4>1, <4>2 DEF Over
      <3>5. table[k].fp = s.fp
        BY <3>1 DEF Over
      <3> QED
        BY <3>3, <3>4, <3>5
    <2>3. CASE s \in new
      <3> DEFINE n == s.name
      <3>1. n \in M /\ n \in Working(act) /\ s.fp = act[n].fp /\ s.pfp = act[n].pfp
        BY <2>3, RegisteredIs DEF act, M
      <3>2. act[n].from = None
        BY <1>5, <3>1
      <3>3. k \in Fresh(act)
        BY <3>1, <3>2 DEF Fresh, Written
      <3>4. Entry(act, k).fp = s.fp
            /\ \A d \in Deps[n] : Entry(act, k).over[d] = <<d, act[d].pfp>>
        BY <3>1, <3>3 DEF Entry
      <3>5. ASSUME NEW d \in Deps[n], NEW t \in snapshots', t.name = d,
                   t.fp = s.fp.parents[d]
            PROVE  t.pfp = act[d].pfp
        <4>1. t.fp = act[d].fp /\ d \in M
          BY <1>5, <3>1, <3>5
        <4>2. PICK u \in snapshots \cup new :
                u.name = d /\ u.fp = act[d].fp /\ u.pfp = act[d].pfp
          BY <1>5, <4>1
        <4>3. u = t
          BY <1>1, <1>16, <3>5, <4>1, <4>2
        <4> QED
          BY <4>2, <4>3
      <3> QED
        BY <2>1, <3>4, <3>5
    <2> QED
      BY <1>1, <2>2, <2>3
  <1>18. ASSUME NEW s \in snapshots', s.name \notin K
         PROVE  Holds(s)'
    <2> DEFINE k == <<s.name, s.pfp>>
    <2>1. Ideal[k] = Ideal[<<s.name, s.fp>>]
      <3>1. CASE s \in snapshots
        <4>1. s.name \notin kept
          BY <1>3, <1>18 DEF Keeping
        <4> QED
          BY <3>1, <4>1 DEF PInv, Holds
      <3>2. CASE s \in new
        <4>1. s.name \in M /\ s.fp = act[s.name].fp /\ s.pfp = act[s.name].pfp
          BY <3>2, RegisteredIs DEF act, M
        <4> QED
          BY <1>6, <1>18, <4>1
      <3> QED
        BY <1>1, <3>1, <3>2
    <2>2. Kind[s.name] # "view" => table'[k] = Ideal[k]
      <3> SUFFICES ASSUME Kind[s.name] # "view"
                   PROVE  table'[k] = Ideal[k]
        OBVIOUS
      <3>1. k \in Tables(act) /\ k[1] = s.name
        BY <1>15
      <3>2. CASE k \in Fresh(act)
        BY <1>12, <1>14, <1>18, <3>1, <3>2
      <3>3. CASE k \notin Fresh(act)
        <4>1. k \in Live /\ table'[k] = table[k]
          BY <1>14, <3>1, <3>3 DEF Tables, Entry
        <4>2. s.name \notin kept
          BY <1>3, <1>18 DEF Keeping
        <4> QED
          BY <3>1, <4>1, <4>2, ViewOver
      <3> QED
        BY <3>2, <3>3
    <2>3. Ideal' = Ideal
      BY DEF Ideal, Keys, Yield
    <2> QED
      BY <2>1, <2>2, <2>3 DEF Holds
  <1> QED
    BY <1>3, <1>17, <1>18 DEF PInv

LEMMA PInvSweep ==
    ASSUME PInv, NEW s \in snapshots, Sweep(s)
    PROVE  PInv'
  <1>1. Books /\ Kept
    BY DEF PInv
  <1>2. /\ snapshots' = snapshots \ {s} /\ kept' = kept
        /\ \A t \in snapshots' : table'[<<t.name, t.pfp>>] = table[<<t.name, t.pfp>>]
    BY <1>1, SweepIs
  <1>3. Ideal' = Ideal
    BY DEF Ideal, Keys, Yield
  <1>4. ASSUME NEW t \in snapshots'
        PROVE  Over(t)' /\ (t.name \notin kept' => Holds(t)')
    <2>1. t \in snapshots /\ Over(t) /\ (t.name \notin kept => Holds(t))
      BY <1>2 DEF PInv
    <2>2. Over(t)'
      BY <1>2, <2>1 DEF Over
    <2>3. t.name \notin kept' => Holds(t)'
      BY <1>2, <1>3, <2>1 DEF Holds
    <2> QED
      BY <2>2, <2>3
  <1>5. Books' /\ Kept'
    BY <1>1, <1>2, BooksSweep DEF Kept
  <1> QED
    BY <1>4, <1>5 DEF PInv

\* What an environment serves of a model that is not kept is what its version
\* computes.
ServedIdeal ==
    \A e \in Env : \A n \in DOMAIN rows[e] \ kept :
        Served(e)[n] = Ideal[<<n, rows[e][n]>>]

LEMMA Serves == PInv => ServedIdeal
  <1> SUFFICES ASSUME PInv, NEW e \in Env, NEW n \in DOMAIN rows[e], n \notin kept
               PROVE  Served(e)[n] = Ideal[<<n, rows[e][n]>>]
    BY DEF ServedIdeal
  <1> DEFINE s == Snapshot(n, rows[e][n])
  <1>1. s \in snapshots /\ s.name = n /\ s.fp = rows[e][n]
    BY KnownIs DEF PInv
  <1>2. Served(e)[n] = Contents[<<n, s.pfp>>]
    BY DEF Served, Physics
  <1> HIDE DEF s
  <1>3. <<n, s.pfp>> \in Live
    BY <1>1 DEF Live
  <1>4. Contents[<<n, s.pfp>>] = Ideal[<<n, s.pfp>>]
    BY <1>3, ContentsIdeal
  <1>5. Holds(s)
    BY <1>1 DEF PInv
  <1> QED
    BY <1>1, <1>2, <1>4, <1>5 DEF Holds

LEMMA PInvCoherent == PInv => Coherent
  <1> SUFFICES ASSUME PInv, NEW e \in Env, NEW n \in DOMAIN rows[e], n \notin kept
               PROVE  Served(e)[n] = Yield(n, rows[e][n], Served(e))
    BY DEF Coherent
  <1> DEFINE f == rows[e][n]
             served == Served(e)
  <1>1. ServedIdeal
    BY Serves
  <1>2. n \in Name /\ f \in Fingerprints(n)
    BY KnownIs DEF PInv
  <1>3. Deps[n] \subseteq DOMAIN rows[e] /\ f.parents = [d \in Deps[n] |-> rows[e][d]]
    BY DEF PInv, Books, Promoted
  <1>4. \A d \in Deps[n] : d \notin kept
    BY <1>2 DEF PInv, Kept
  <1> HIDE DEF f
  <1>5. \A d \in Deps[n] : served[d] = Ideal[<<d, f.parents[d]>>]
    BY <1>1, <1>3, <1>4 DEF ServedIdeal
  <1>6. served[n] = Ideal[<<n, f>>]
    BY <1>1 DEF ServedIdeal, f
  <1>7. [d \in Deps[n] |-> served[d]] = [d \in Deps[n] |-> Ideal[<<d, f.parents[d]>>]]
    BY <1>5
  <1>8. Ideal[<<n, f>>] = IF Kind[n] = "seed" THEN SeedContent(f)
                          ELSE Evaluate(f, [d \in Deps[n] |-> Ideal[<<d, f.parents[d]>>]])
    BY <1>2, IdealDef
  <1> QED
    BY <1>6, <1>7, <1>8 DEF Yield, f

LEMMA PInvInit == Init => PInv
  <1> SUFFICES ASSUME Init
               PROVE  PInv
    OBVIOUS
  <1>1. snapshots = {} /\ rows = [e \in Env |-> [n \in {} |-> None]] /\ kept = {}
    BY DEF Init
  <1>2. \A e \in Env : DOMAIN rows[e] = {}
    BY <1>1
  <1>3. \A e \in Env : Promoted(e)
    BY <1>2 DEF Promoted
  <1>4. rows = [e \in Env |-> rows[e]]
    BY <1>1
  <1> QED
    BY <1>1, <1>3, <1>4 DEF PInv, Books, Kept

LEMMA PInvNext ==
    ASSUME ColumnsApart
    PROVE  PInv /\ [Next]_vars /\ [Careful]_vars => PInv'
  <1> SUFFICES ASSUME PInv, [Next]_vars, [Careful]_vars
               PROVE  PInv'
    OBVIOUS
  <1>1. ASSUME Careful, NEW e \in Env, NEW p \in Projects, NEW f \in Forward,
               NEW v \in Verdicts, NEW a \in Versions,
               Apply(e, p, [forward |-> f, verdicts |-> v, version |-> a])
        PROVE  PInv'
    <2>1. [forward |-> f, verdicts |-> v, version |-> a] \in Askings
      BY DEF Askings
    <2>2. Lasting(e, p, [forward |-> f, verdicts |-> v, version |-> a])
      BY <1>1 DEF Careful
    <2> QED
      BY <1>1, <2>1, <2>2, PInvApply
  <1>2. ASSUME NEW s \in snapshots, Sweep(s)
        PROVE  PInv'
    BY <1>2, PInvSweep
  <1>3. CASE UNCHANGED vars
    <2>1. UNCHANGED <<snapshots, rows, table, kept>>
      BY <1>3 DEF vars
    <2>2. Ideal' = Ideal
      BY DEF Ideal, Keys, Yield
    <2>3. Books' /\ Kept'
      BY <2>1 DEF PInv, Books, Recorded, Promoted, Kept
    <2>4. \A s \in snapshots : Over(s)' /\ (s.name \notin kept => Holds(s)')
      BY <2>1, <2>2 DEF PInv, Over, Holds
    <2> QED
      BY <2>1, <2>3, <2>4 DEF PInv
  <1> QED
    BY <1>1, <1>2, <1>3 DEF Next

LEMMA PInvInvariant ==
    ASSUME ColumnsApart
    PROVE  Spec /\ [][Careful]_vars => []PInv
BY PInvInit, PInvNext, PTL DEF Spec

\* Whatever was categorized, inherited, shared between environments, swept and
\* brought back (planner.ts, categorize.ts, executor.ts, janitor.ts), what an
\* environment serves for a model is what the query of its version yields over
\* what the environment serves for its parents.
THEOREM PlannerCoherent ==
    ASSUME ColumnsApart
    PROVE  Spec /\ [][Careful]_vars => []Coherent
BY PInvInvariant, PInvCoherent, PTL

\* What one environment serves is never changed by an apply to another one, nor
\* by the janitor, though they share physics.
THEOREM PlannerIsolated ==
    ASSUME ColumnsApart
    PROVE  Spec /\ [][Careful]_vars => Isolated
  <1> DEFINE Alone(e) == rows'[e] = rows[e] /\ DOMAIN rows[e] \cap kept' = {}
                            => Served(e)' = Served(e)
  <1>1. /\ Books /\ ServedIdeal /\ ServedIdeal' /\ [Next]_vars
        => [\A e \in Env : Alone(e)]_vars
    <2> SUFFICES ASSUME Books, ServedIdeal, ServedIdeal', Next, NEW e \in Env,
                        rows'[e] = rows[e], DOMAIN rows[e] \cap kept' = {}
                 PROVE  Served(e)' = Served(e)
      OBVIOUS
    <2>1. kept \subseteq kept'
      <3>1. ASSUME NEW x, NEW p, NEW asked, Apply(x, p, asked)
            PROVE  kept \subseteq kept'
        BY <3>1 DEF Apply
      <3>2. ASSUME NEW s, Sweep(s)
            PROVE  kept \subseteq kept'
        BY <3>2 DEF Sweep
      <3> QED
        BY <3>1, <3>2 DEF Next
    <2>2. Ideal' = Ideal
      BY DEF Ideal, Keys, Yield
    <2>3. ASSUME NEW n \in DOMAIN rows[e]
          PROVE  Served(e)'[n] = Served(e)[n]
      <3>1. n \notin kept /\ n \notin kept'
        BY <2>1
      <3>2. Served(e)[n] = Ideal[<<n, rows[e][n]>>]
        BY <3>1 DEF ServedIdeal
      <3>3. Served(e)'[n] = Ideal'[<<n, rows'[e][n]>>]
        BY <3>1 DEF ServedIdeal
      <3> QED
        BY <2>2, <3>2, <3>3
    <2>4. /\ Served(e) = [n \in DOMAIN rows[e] |-> Served(e)[n]]
          /\ Served(e)' = [n \in DOMAIN rows'[e] |-> Served(e)'[n]]
      BY DEF Served
    <2> QED
      BY <2>3, <2>4
  <1>2. Spec /\ [][Careful]_vars => []ServedIdeal
    BY PInvInvariant, Serves, PTL
  <1> QED
    BY <1>1, <1>2, BooksInvariant, PTL DEF Spec, Isolated

\* Every record is of a version some apply built and its table is there, that
\* of every row of an environment too.
THEOREM PlannerTypeCorrect == Spec => []TypeOK
  <1> DEFINE Counted == applies \in 0..MaxApplies /\ Kept
  <1>1. Init => Counted
    BY PlannerAssumption DEF Init, Kept
  <1>2. Counted /\ [Next]_vars => Counted'
    <2> SUFFICES ASSUME Counted, [Next]_vars
                 PROVE  Counted'
      OBVIOUS
    <2>1. ASSUME NEW e \in Env, NEW p \in Projects, NEW f \in Forward, NEW v \in Verdicts,
                 NEW a \in Versions, Apply(e, p, [forward |-> f, verdicts |-> v, version |-> a])
          PROVE  Counted'
      <3>1. [forward |-> f, verdicts |-> v, version |-> a] \in Askings
        BY DEF Askings
      <3>2. Kept'
        BY <2>1, <3>1, KeptApply
      <3>3. applies' \in 0..MaxApplies
        BY <2>1, PlannerAssumption DEF Apply
      <3> QED
        BY <3>2, <3>3
    <2>2. CASE UNCHANGED <<applies, kept>>
      BY <2>2 DEF Kept
    <2> QED
      BY <2>1, <2>2 DEF Next, Sweep, vars
  <1>3. Books /\ Counted => TypeOK
    <2> SUFFICES ASSUME Books, Counted
                 PROVE  TypeOK
      OBVIOUS
    <2>1. \A s \in snapshots : /\ s.name \in Name /\ s.version \in Versions
                               /\ <<s.name, s.pfp>> \in DOMAIN table
      BY DEF Books, Recorded, Record
    <2>2. \A e \in Env : \A n \in DOMAIN rows[e] : Snapshot(n, rows[e][n]) # None
      BY KnownIs
    <2> QED
      BY <2>1, <2>2 DEF TypeOK, Kept
  <1> HIDE DEF Counted
  <1> QED
    BY <1>1, <1>2, <1>3, BooksInvariant, PTL DEF Spec
=============================================================================
