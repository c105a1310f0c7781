------------------------------ MODULE Planner ------------------------------
(***************************************************************************)
(* How a plan categorizes changes, and whose physics a new version takes.  *)
(*                                                                         *)
(* A fingerprint is modelled by what it hashes.  The data of a table is    *)
(* modelled by what it was computed from, so that two tables hold the same *)
(* data when their terms are equal.  Time stands still: every interval of  *)
(* a time-range model is loaded when the model is built.  Applies do not   *)
(* overlap here (Warehouse has their interleavings).                       *)
(***************************************************************************)
EXTENDS Naturals, FiniteSets, SequencesExt

CONSTANTS Name, Env, None,
          Kind,      \* Name -> "full", "timeRange", "uniqueKey", "view", "seed"
          Deps,      \* Name -> the models it reads; acyclic
          Projects,  \* the projects planned: Name -> definition, or None
          Forward,   \* the sets of models flagged forward-only in an apply
          Verdicts,  \* the overrides stated: functions from some names to
                     \* "breaking" or "non-breaking"
          Versions,  \* of the fingerprint algorithm, by the efmesh in use
          Column,    \* of an item of a SELECT list: the column it computes
          Reads,     \* of an item or a rest: the parents' columns it names
          Meaning,   \* of the rest of a query: the rows it selects
          Listed,    \* the rests beside which the engine's canon has a top
                     \* SELECT list: not a set operation, none on Postgres
          Distinct,  \* the rests under which the list decides the rows too
          MaxApplies

\* A definition is the metadata that affects data and the canonical AST of the
\* body: the top SELECT list and the rest of the tree.  A seed has no AST.
ASSUME PlannerAssumption ==
    /\ Deps \in [Name -> SUBSET Name]
    \* acyclic: among any models there is one that reads none of them
    /\ \A names \in SUBSET Name : names # {} => \E n \in names : Deps[n] \cap names = {}
    /\ Kind \in [Name -> {"full", "timeRange", "uniqueKey", "view", "seed"}]
    /\ \A n \in Name : Kind[n] = "seed" => Deps[n] = {}
    /\ \A p \in Projects : \A n \in Name :
         p[n] # None => /\ \A d \in Deps[n] : p[d] # None
                        /\ (p[n].ast = None) = (Kind[n] = "seed")
                        /\ p[n].ast # None => p[n].ast.list \in Seq(DOMAIN Column)
    /\ \A v \in Verdicts : \A n \in DOMAIN v : v[n] \in {"breaking", "non-breaking"}
    /\ Versions \subseteq Nat /\ MaxApplies \in Nat

VARIABLES snapshots,  \* the records of the versions: name, fp, pfp, ast, version
          rows,       \* env -> the fingerprints of the models it has
          table,      \* (name, pfp) -> the data, for a view what it reads
          applies,    \* applies so far, at most MaxApplies
          kept        \* models ever applied forward-only by flag, with their
                      \* descendants (for the properties)

vars == <<snapshots, rows, table, applies, kept>>

-----------------------------------------------------------------------------
(* fingerprint.ts                                                          *)

ModelsOf(project) == {n \in Name : project[n] # None}

\* The payload that is hashed: the body, the metadata that affects data, the
\* fingerprints of the parents, under the composition of this algorithm.
ModelFingerprint(def, parents, version) ==
    [ast |-> def.ast, meta |-> def.meta, parents |-> parents, version |-> version]

FingerprintGraph(project, version) ==
    LET fp[n \in ModelsOf(project)] ==
            ModelFingerprint(project[n], [d \in Deps[n] |-> fp[d]], version)
    IN  fp

\* All that a model's fingerprint may be.
Fingerprints(n) ==
    {FingerprintGraph(q[1], q[2])[n] : q \in {r \in Projects \X Versions : r[1][n] # None}}

\* No version is no fingerprint and no record.
ASSUME NoneAssumption ==
    LET fingerprints == UNION {Fingerprints(n) : n \in Name} IN
    /\ None \notin fingerprints
    /\ None \notin [name : Name, fp : fingerprints, pfp : fingerprints,
                    ast : {f.ast : f \in fingerprints}, version : Versions]

-----------------------------------------------------------------------------
(* categorize.ts                                                           *)

\* Columns were appended to the list and nothing else was touched.
Appended(old, new) == old.rest = new.rest /\ IsStrictPrefix(old.list, new.list)

\* topSelect finds a list in both; without one every edit is breaking.
Compared(old, new) == {old.rest, new.rest} \subseteq Listed

OnlyAppends(old, new) == Compared(old, new) /\ Appended(old, new)

\* (Without a list to look at, nothing contradicts the operator.)
DropsColumns(old, new) == Compared(old, new) /\ Len(new.list) < Len(old.list)

Categorize(old, new) ==
    IF old = None \/ new = None THEN "breaking"
    ELSE IF old = new THEN "indirect"
    ELSE IF OnlyAppends(old, new) THEN "non-breaking" ELSE "breaking"

-----------------------------------------------------------------------------
(* planChanges                                                             *)

Reusable == {"full", "timeRange", "uniqueKey"}

Snapshot(n, f) ==
    IF \E s \in snapshots : s.name = n /\ s.fp = f
    THEN CHOOSE s \in snapshots : s.name = n /\ s.fp = f ELSE None

Known(e, n) == IF n \in DOMAIN rows[e] THEN rows[e][n] ELSE None

\* (The algorithm of the snapshot is not looked at.)
ComparesAny(previous, version) == previous # None

\* Whether an AST may be compared with: not one of an earlier algorithm.
Comparable(previous, version) == previous # None /\ previous.version = version

OldAst(previous, version) ==
    IF Comparable(previous, version) THEN previous.ast ELSE None

\* An override governs breaking and non-breaking verdicts only.
Overridden(n, verdict, stated) ==
    n \in DOMAIN stated /\ verdict \in {"breaking", "non-breaking"}
                        /\ stated[n] # verdict

\* (Metadata that has changed along with the parents is not noticed.)
ParentsPresent(e, n, def, version) == Deps[n] \subseteq DOMAIN rows[e]

\* The version was moved by parents alone: with the fingerprints the parents
\* have in the environment the model has the one it had.
ParentsOnly(e, n, def, version) ==
    /\ Deps[n] \subseteq DOMAIN rows[e]
    /\ ModelFingerprint(def, [d \in Deps[n] |-> rows[e][d]], version) = Known(e, n)

\* (A parent that was rebuilt for its own parents counts as unchanged data.)
SameDataLax(parent) ==
    parent.change \in {"non-breaking", "forward-only", "indirect"}

\* (No parent is known to keep its data by inheriting it.)
SameDataShallow(parent) == parent.change \in {"non-breaking", "forward-only"}

\* A changed parent whose old columns hold the data they held.
SameData(parent) ==
    \/ parent.change \in {"non-breaking", "forward-only"}
    \/ parent.change = "indirect" /\ parent.reused

\* The action for a model whose version f differs from the one the environment
\* has; parents are the actions of its parents.
ChangedAction(e, n, def, f, parents, asked) ==
    LET known    == Known(e, n)
        previous == Snapshot(n, known)
        verdict  == Categorize(OldAst(previous, asked.version), def.ast)
        stated   == IF Overridden(n, verdict, asked.verdicts)
                    THEN asked.verdicts[n] ELSE verdict
        changed  == {d \in Deps[n] : parents[d].change # "unchanged"}
        byParents == /\ stated = "indirect"
                     /\ ParentsOnly(e, n, def, asked.version)
        cascaded == /\ byParents /\ Kind[n] = "timeRange"
                    /\ \A d \in changed : parents[d].change = "forward-only"
        forward  == /\ Comparable(previous, asked.version)
                    /\ n \in asked.forward \/ cascaded
        inherits == /\ ~forward /\ byParents /\ Kind[n] \in Reusable
                    /\ changed # {}
                    /\ \A d \in changed : SameData(parents[d])
    IN  [fp |-> f, reused |-> inherits,
         change |-> IF forward THEN "forward-only" ELSE stated,
         from |-> IF forward \/ inherits THEN known ELSE None]

PlainAction(f, change) ==
    [fp |-> f, reused |-> FALSE, change |-> change, from |-> None]

\* A version that is in the store keeps its physics and is not built again.
WithPhysics(n, act, previous) ==
    LET existing == Snapshot(n, act.fp) IN
    [fp |-> act.fp, reused |-> act.reused, change |-> act.change, from |-> act.from,
     pfp |-> IF existing # None THEN existing.pfp
             ELSE IF act.from # None THEN previous.pfp ELSE act.fp,
     build |-> act.change # "unchanged" /\ existing = None]

PlanChanges(e, project, asked) ==
    LET fp == FingerprintGraph(project, asked.version)
        act[n \in ModelsOf(project)] ==
            LET known == Known(e, n)
                a == IF known = None THEN PlainAction(fp[n], "added")
                     ELSE IF known = fp[n]
                     THEN PlainAction(fp[n], "unchanged")
                     ELSE ChangedAction(e, n, project[n], fp[n],
                                        [d \in Deps[n] |-> act[d]], asked)
            IN  WithPhysics(n, a, Snapshot(n, known))
    IN  act

\* FingerprintVersionError, ForwardOnlyError, ReclassifyError: no plan.
Refused(e, project, asked) ==
    LET fp == FingerprintGraph(project, asked.version) IN
    \/ \E n \in ModelsOf(project) :
         LET previous == Snapshot(n, Known(e, n))
             old      == OldAst(previous, asked.version)
         IN  /\ Known(e, n) \notin {None, fp[n]}
             /\ previous # None
             /\ \/ previous.version > asked.version
                \/ /\ Overridden(n, Categorize(old, project[n].ast), asked.verdicts)
                   /\ asked.verdicts[n] = "non-breaking"
                   /\ \/ old = None \/ project[n].ast = None
                      \/ DropsColumns(old, project[n].ast)
    \/ \E n \in asked.forward : project[n] = None \/ Kind[n] # "timeRange"
    \/ ~(DOMAIN asked.verdicts \subseteq ModelsOf(project))

-----------------------------------------------------------------------------
(* The physics: applyPlan with no failure                                  *)

\* What an item or a rest sees of the contents of the parents.
Seen(part, inputs) ==
    [d \in DOMAIN inputs |->
        [c \in Reads[part] \cap DOMAIN inputs[d].col |-> inputs[d].col[c]]]

\* What the query of a version yields over the contents of its parents: the
\* rows are the rest's, unless they are told apart by what the list computes.
Evaluate(f, inputs) ==
    LET ast   == f.ast
        items == Range(ast.list)
        base  == <<Meaning[ast.rest], f.meta, [d \in DOMAIN inputs |-> inputs[d].rows],
                   Seen(ast.rest, inputs),
                   IF ast.rest \in Distinct
                   THEN {<<i, Seen(i, inputs)>> : i \in items} ELSE {}>>
    IN  [rows |-> base,
         col  |-> [c \in {Column[i] : i \in items} |->
                      LET i == CHOOSE x \in items : Column[x] = c
                      IN  <<i, base, Seen(i, inputs)>>]]

SeedContent(f) == [rows |-> <<f.meta>>, col |-> [c \in {"x"} |-> f.meta]]

\* The tables that some version has.
Live == {<<s.name, s.pfp>> : s \in snapshots}

\* What reading a table gives; a view reads the tables it was created over.
Contents ==
    LET read[k \in Live] ==
            IF Kind[k[1]] = "view"
            THEN Evaluate(table[k].fp,
                          [d \in Deps[k[1]] |-> read[table[k].over[d]]])
            ELSE table[k]
    IN  read

Refresh(n) == Kind[n] = "uniqueKey"

\* The models the executor works on, and those whose table it writes: it only
\* audits inherited full physics and loads nothing into an inherited ledger.
Working(act) == {n \in DOMAIN act : act[n].build \/ Refresh(n)}
Written(act) == {n \in Working(act) : act[n].from = None \/ Refresh(n)}

\* The tables after the models have been built: a table that is written is
\* computed from what its parents hold by then, a view is created over them.
Built(act) ==
    LET key(n)  == <<n, act[n].pfp>>
        fresh   == {key(n) : n \in Written(act)}
        view(n) == [fp |-> act[n].fp, over |-> [d \in Deps[n] |-> key(d)]]
        entry(k) == IF k \in fresh THEN view(k[1]) ELSE table[k]
        read[k \in Live \cup fresh] ==
            IF Kind[k[1]] = "view" \/ (k \in fresh /\ Kind[k[1]] # "seed")
            THEN Evaluate(entry(k).fp,
                          [d \in Deps[k[1]] |-> read[entry(k).over[d]]])
            ELSE IF k \in fresh THEN SeedContent(k[2]) ELSE table[k]
    IN  [k \in DOMAIN table \cup fresh |->
            IF Kind[k[1]] = "view" \/ k \notin fresh THEN entry(k) ELSE read[k]]

\* Physics that is inherited under forward-only may gain columns, not lose any.
Evolves(n, act) ==
    act.build /\ act.change = "forward-only" =>
        DOMAIN table[<<n, act.pfp>>].col
            \subseteq {Column[i] : i \in Range(act.fp.ast.list)}

-----------------------------------------------------------------------------
Init ==
    /\ snapshots = {}
    /\ rows = [e \in Env |-> [n \in {} |-> None]]
    /\ table = [k \in {} |-> None]
    /\ applies = 0
    /\ kept = {}

\* upsertSnapshot: a record that is there stays as it is.
Registered(act, version) ==
    {[name |-> n, fp |-> act[n].fp, pfp |-> act[n].pfp, ast |-> act[n].fp.ast,
      version |-> version] :
        n \in {m \in Working(act) : Snapshot(m, act[m].fp) = None}}

\* The descendants of a set of models, itself included.
Downstream(names) ==
    LET below[n \in Name] == n \in names \/ \E d \in Deps[n] : below[d]
    IN  {n \in Name : below[n]}

\* The operator states non-breaking of an edit that leaves the old columns with
\* the data they had.
Truthful(e, project, asked) ==
    \A n \in DOMAIN asked.verdicts :
        LET old == OldAst(Snapshot(n, Known(e, n)), asked.version)
            new == project[n].ast
        IN  asked.verdicts[n] = "non-breaking" /\ None \notin {old, new} =>
                /\ Meaning[old.rest] = Meaning[new.rest] /\ Reads[old.rest] = Reads[new.rest]
                /\ Distinct \cap {old.rest, new.rest} = {}
                /\ Range(old.list) \subseteq Range(new.list)

Apply(e, project, asked) ==
    /\ applies < MaxApplies
    /\ ~Refused(e, project, asked)
    /\ Truthful(e, project, asked)
    /\ LET act == PlanChanges(e, project, asked) IN
        /\ \A n \in DOMAIN act : Evolves(n, act[n])
        /\ table' = Built(act)
        /\ snapshots' = snapshots \cup Registered(act, asked.version)
        /\ rows' = [rows EXCEPT ![e] = [n \in DOMAIN act |-> act[n].fp]]
        /\ kept' = kept \cup Downstream({n \in asked.forward :
                                            act[n].change = "forward-only"})
    /\ applies' = applies + 1

Referenced(s) == \E e \in Env : Known(e, s.name) = s.fp

Orphaned(s) ==
    /\ ~Referenced(s)
    /\ \A t \in snapshots : s.name \in Deps[t.name] => t.fp.parents[s.name] # s.fp

\* The janitor: a version nobody has, once its ttl is over.  What is built on a
\* version is orphaned no later than the version, and goes first.
Sweep(s) ==
    /\ Orphaned(s)
    /\ snapshots' = snapshots \ {s}
    /\ table' = IF \E t \in snapshots' : t.pfp = s.pfp THEN table
                ELSE [k \in DOMAIN table \ {<<s.name, s.pfp>>} |-> table[k]]
    /\ UNCHANGED <<rows, applies, kept>>

Next ==
    \/ \E e \in Env, p \in Projects, f \in Forward, v \in Verdicts, a \in Versions :
         Apply(e, p, [forward |-> f, verdicts |-> v, version |-> a])
    \/ \E s \in snapshots : Sweep(s)

Spec == Init /\ [][Next]_vars

-----------------------------------------------------------------------------
(* Properties                                                              *)

\* The physics of a model an environment has, and what it gives to a reader.
Physics(e, n) == <<n, Snapshot(n, rows[e][n]).pfp>>
Served(e) ==
    LET read == Contents IN [n \in DOMAIN rows[e] |-> read[Physics(e, n)]]

\* Every record is of a version some apply built and its table is there, that
\* of every row of an environment too.
TypeOK ==
    /\ applies \in 0..MaxApplies
    /\ kept \subseteq Name
    /\ \A s \in snapshots : /\ s.name \in Name /\ s.version \in Versions
                            /\ <<s.name, s.pfp>> \in DOMAIN table
    /\ \A e \in Env : \A n \in DOMAIN rows[e] : Snapshot(n, rows[e][n]) # None

\* What model n of fingerprint f yields over what is served for its parents.
Yield(n, f, served) ==
    IF Kind[n] = "seed" THEN SeedContent(f)
    ELSE Evaluate(f, [d \in Deps[n] |-> served[d]])

\* Whatever was categorized, inherited, shared between environments, swept and
\* brought back: what an environment serves for a model is what the query of
\* its version yields over what the environment serves for its parents.
\* History that was kept on purpose excepts a model and what reads it.
Coherent ==
    \A e \in Env : LET served == Served(e) IN
        \A n \in DOMAIN rows[e] \ kept :
            served[n] = Yield(n, rows[e][n], served)

\* Physics is never inherited from a version another fingerprint algorithm
\* made, by flag, by cascade, or through versions in between.
OneAlgorithm ==
    \A s \in snapshots : s.pfp.version = s.version /\ s.fp.version = s.version

\* What one environment serves is never changed by an apply to another one,
\* nor by the janitor, though they share physics.
Isolated ==
    [][\A e \in Env : rows'[e] = rows[e] /\ DOMAIN rows[e] \cap kept' = {}
                        => Served(e)' = Served(e)]_vars

\* The models that read, however far up, through a view.
PastView ==
    LET past[n \in Name] == \E d \in Deps[n] : Kind[d] = "view" \/ past[d]
    IN  {n \in Name : past[n]}

\* Of the models an environment gets in a step: those whose own query changed.
Edited(e) == {n \in DOMAIN rows[e] \cap DOMAIN rows'[e] :
                 rows[e][n].ast # rows'[e][n].ast}

\* Columns are appended between two versions of an environment, and nothing else
\* is edited.
Appending(e) ==
    /\ DOMAIN rows[e] = DOMAIN rows'[e]
    /\ \A n \in DOMAIN rows[e] :
         LET f == rows[e][n]  g == rows'[e][n] IN
         /\ f.meta = g.meta /\ f.version = g.version
         /\ f.ast = g.ast \/ Appended(f.ast, g.ast)

\* What is edited has a list in its canon.
InLists(e) == \A n \in Edited(e) : rows[e][n].ast.rest \in Listed

\* No model gets a new table but the edited ones (and what is behind a view,
\* which has no physics to inherit).
OthersSpared(e) ==
    \A k \in DOMAIN table' \ DOMAIN table :
        k[1] \in Edited(e) \cup PastView \/ Kind[k[1]] = "view"

\* "Non-breaking: only the model itself" is recomputed, whatever the appended
\* columns read of the parents, where the canon has a list to append to.
AppendsSpareOthers ==
    [][\A e \in Env : rows'[e] # rows[e] /\ Appending(e) /\ InLists(e)
                        => OthersSpared(e)]_vars

\* The same of every append, whether the canon has a list or not.
AnyAppendSparesOthers ==
    [][\A e \in Env : rows'[e] # rows[e] /\ Appending(e) => OthersSpared(e)]_vars
=============================================================================
