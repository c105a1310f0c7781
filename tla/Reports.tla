------------------------------ MODULE Reports ------------------------------
(***************************************************************************)
(* What efmesh says of an environment and changes nothing by saying it:    *)
(* the passport (plan/passport.ts), the difference of two environments     *)
(* (plan/diff.ts), what a restate reaches (plan/restate.ts) and where a    *)
(* column comes from (plan/lineage.ts).  The graph is that of the project  *)
(* in the working copy; the ledgers are those of the versions the          *)
(* environment serves.                                                     *)
(*                                                                         *)
(* Of a ledger only the end of its first run is kept (Ticks has the rest), *)
(* and 0 is none.                                                          *)
(***************************************************************************)
EXTENDS Integers, FiniteSets, SequencesExt

CONSTANTS Name,      \* models, numbered so that parents come first
          Env,
          Projects,  \* name -> declaration, or None
          None,
          MaxTime, MaxEdits, MaxLoads  \* bounds

ReportsAssumption ==
    /\ Name \subseteq Nat \ {0} /\ IsFiniteSet(Name)
    /\ \A p \in Projects : DOMAIN p = Name
    /\ \A p \in Projects, n \in Name : p[n] # None =>
          \A m \in p[n].deps : m < n /\ p[m] # None
    /\ {MaxTime, MaxEdits, MaxLoads} \subseteq Nat

VARIABLES project,
          served,  \* env -> name -> the version it serves
          ledger,  \* version -> how far it is done
          edits, loads

vars == <<project, served, ledger, edits, loads>>

Models(p) == {n \in Name : p[n] # None}
Timed(p, n) == p[n].kind = "incrementalByTimeRange"
Raw(p, n) == p[n].kind \in {"external", "seed"} \/ p[n].deps = {}
Names == SetToSortSeq(Name, <)

\* The models a model is computed from, by definition: those in every set that
\* has its parents and the parents of what it has.
Above(p, n) ==
    {m \in Models(p) : \A s \in SUBSET Models(p) :
        p[n].deps \subseteq s /\ (\A k \in s : p[k].deps \subseteq s) => m \in s}

\* A version is a declaration with those it is computed from, without what
\* they only say of themselves; of no declaration it is empty.
Unserved == <<>>
Physics(d) == [d EXCEPT !.answerable = 0, !.caveats = {}]

Version(p, n) ==
    IF p[n] = None THEN Unserved
    ELSE [m \in Above(p, n) \cup {n} |-> Physics(p[m])]
Versions(p) == [n \in Name |-> Version(p, n)]

Init ==
    /\ project \in Projects
    /\ served = [e \in Env |-> [n \in Name |-> Unserved]]
    /\ ledger = <<>>
    /\ edits = 0 /\ loads = 0

-----------------------------------------------------------------------------
(* The passport                                                            *)

Members(e) == {n \in Name : served[e][n] # Unserved}
Own(e, n) == ledger[served[e][n]]

\* How bad: 0 full, 1 sampled, 2 unobservable.
Worst(severities) == CHOOSE s \in severities : \A t \in severities : t <= s

\* The least limit, of the first model that has it.
Strongest(limits) ==
    CHOOSE l \in limits : \A k \in limits : l.through < k.through
                                            \/ (l.through = k.through /\ l.by <= k.by)

\* Nothing it is computed from has intervals.
NoLimit == [through |-> 0, by |-> 0]

\* Its own first, then each of its parents' that is not there yet.
Caveats(p, n, parents, out) ==
    FoldLeft(LAMBDA list, m :
               list \o SelectSeq(out[m].caveats, LAMBDA c : c \notin ToSet(list)),
             SetToSeq({<<n, text>> : text \in p[n].caveats}),
             parents)

\* One model, over the passports of its parents.
Passport(e, n, out) ==
    LET parents == SetToSortSeq(project[n].deps \cap DOMAIN out, <)
        inherited == {out[m].limit : m \in ToSet(parents)} \ {NoLimit}
        limits == inherited \cup (IF Timed(project, n)
                                  THEN {[through |-> Own(e, n), by |-> n]} ELSE {})
    IN [answerable |-> Worst({project[n].answerable}
                             \cup {out[m].answerable : m \in ToSet(parents)}),
        caveats |-> Caveats(project, n, parents, out),
        limit |-> IF limits = {} THEN NoLimit ELSE Strongest(limits)]

\* passportsOver: in topological order, over what the environment serves.
Passports(e) ==
    FoldLeft(LAMBDA out, n : (n :> Passport(e, n, out)) @@ out,
             <<>>, SelectSeq(Names, LAMBDA n : n \in Models(project) \cap Members(e)))

-----------------------------------------------------------------------------
(* The difference of two environments                                      *)

Diff(a, b) ==
    [onlyInA |-> Members(a) \ Members(b),
     onlyInB |-> Members(b) \ Members(a),
     different |-> {n \in Members(a) \cap Members(b) : served[a][n] # served[b][n]},
     same |-> {n \in Members(a) \cap Members(b) : served[a][n] = served[b][n]}]

-----------------------------------------------------------------------------
(* What a restate reaches                                                  *)

Children(p, n) == {m \in Models(p) : n \in p[m].deps}

\* (A dependent that has no intervals ends the walk.)
VisitTimed(p, st) ==
    IF st.stack = <<>> THEN st
    ELSE LET new == {m \in Children(p, Last(st.stack)) : Timed(p, m)} \ st.out
         IN [out |-> st.out \cup new, stack |-> Front(st.stack) \o SetToSortSeq(new, <)]

Visit(p, st) ==
    IF st.stack = <<>> THEN st
    ELSE LET new == Children(p, Last(st.stack)) \ st.out
         IN [out |-> st.out \cup new, stack |-> Front(st.stack) \o SetToSortSeq(new, <)]

\* Each model is put on the stack once.
TransitiveDependents(p, n) ==
    FoldLeft(LAMBDA st, i : Visit(p, st), [out |-> {}, stack |-> <<n>>], Names).out

\* Refused for a model that has no intervals or is not served.
Restatable(e, n) == n \in Models(project) \cap Members(e) /\ Timed(project, n)

Targets(e, n) ==
    {n} \cup {m \in TransitiveDependents(project, n) : m \in Members(e) /\ Timed(project, m)}

-----------------------------------------------------------------------------
(* Where a column comes from.  An item of a select list has an alias, ""   *)
(* where it has none, and the columns its expression refers to: of which   *)
(* parent, nobody asks.                                                    *)

Columns(item) == {r[2] : r \in item.refs}

\* The item of this alias, or the bare column of this name; or the star;
\* else none, as for a constant.
Expression(d, column) ==
    LET aliased == {i \in d.items : i.alias = column}
        bare == {i \in d.items : i.alias = "" /\ Columns(i) = {column}}
    IN IF aliased # {} THEN Columns(CHOOSE i \in aliased : TRUE)
       ELSE IF bare # {} \/ d.star THEN {column}
       ELSE {}

\* The leaves of the trace of each of its columns, over those of its parents.
Traces(p, n, out) ==
    [c \in p[n].cols |->
        LET columns == IF Raw(p, n) THEN {} ELSE Expression(p[n], c)
            below == UNION {out[r[1]][r[2]] :
                              r \in {s \in p[n].deps \X columns : s[2] \in p[s[1]].cols}}
        IN IF below = {} THEN {<<n, c>>} ELSE below]

Lineage(p) ==
    FoldLeft(LAMBDA out, n : (n :> Traces(p, n, out)) @@ out,
             <<>>, SelectSeq(Names, LAMBDA n : n \in Models(p)))

-----------------------------------------------------------------------------
Edit ==
    /\ edits < MaxEdits
    /\ project' \in Projects \ {project}
    /\ edits' = edits + 1
    /\ UNCHANGED <<served, ledger, loads>>

Apply(e) ==
    /\ served' = [served EXCEPT ![e] = Versions(project)]
    /\ ledger' = [v \in DOMAIN ledger \cup {Version(project, n) : n \in Models(project)} |->
                    IF v \in DOMAIN ledger THEN ledger[v] ELSE 0]
    /\ UNCHANGED <<project, edits, loads>>

\* Some intervals of a version are loaded.
Load(e, n) ==
    /\ n \in Members(e) /\ served[e][n][n].kind = "incrementalByTimeRange"
    /\ loads < MaxLoads /\ Own(e, n) < MaxTime
    /\ \E t \in Own(e, n) + 1 .. MaxTime : ledger' = [ledger EXCEPT ![served[e][n]] = t]
    /\ loads' = loads + 1
    /\ UNCHANGED <<project, served, edits>>

\* From a time on; the ledgers of the targets end there at the latest.
Restate(e, n, from) ==
    /\ Restatable(e, n)
    /\ LET cleared == {served[e][m] : m \in Targets(e, n)}
       IN ledger' = [v \in DOMAIN ledger |->
                       IF v \in cleared /\ ledger[v] > from THEN from ELSE ledger[v]]
    /\ UNCHANGED <<project, served, edits, loads>>

Next ==
    \/ Edit
    \/ \E e \in Env :
        \/ Apply(e)
        \/ \E n \in Name : Load(e, n) \/ \E from \in 0 .. MaxTime - 1 : Restate(e, n, from)

Spec == Init /\ [][Next]_vars

-----------------------------------------------------------------------------
TypeOK ==
    /\ project \in Projects
    /\ \A e \in Env : \A n \in Members(e) : served[e][n] \in DOMAIN ledger
    /\ \A v \in DOMAIN ledger : ledger[v] \in 0 .. MaxTime

\* What a passport has to say: the worst of what a model is computed from, and
\* every caveat once and its own first.
ClaimsHonest(n, passport) ==
    LET all == Above(project, n) \cup {n}
        own == {<<n, text>> : text \in project[n].caveats}
    IN /\ passport.answerable = Worst({project[m].answerable : m \in all})
       /\ ToSet(passport.caveats)
            = UNION {{<<m, text>> : text \in project[m].caveats} : m \in all}
       /\ Len(passport.caveats) = Cardinality(ToSet(passport.caveats))
       /\ ToSet(SubSeq(passport.caveats, 1, Cardinality(own))) = own

\* And the least that anything its version is computed from is complete up to,
\* with a name, where there is such a claim.
LimitHonest(e, n, passport) ==
    LET version == served[e][n]
        timed == {m \in DOMAIN version : version[m].kind = "incrementalByTimeRange"}
    IN /\ timed = {} => passport.limit = NoLimit
       /\ timed # {} =>
            /\ passport.limit.by \in timed
            /\ passport.limit.through = Own(e, passport.limit.by)
            /\ \A m \in timed : passport.limit.through <= Own(e, m)

Current(e) == served[e] = Versions(project)

\* While an environment serves what the working copy says, its passports are
\* honest, through every model in between and by whichever path.
PassportsExact ==
    \A e \in Env : Current(e) =>
        LET passports == Passports(e)
        IN \A n \in Members(e) :
             ClaimsHonest(n, passports[n]) /\ LimitHonest(e, n, passports[n])

\* Then a restate clears every model with intervals that is computed from the
\* restated one, also through models that have none, and no other.
CascadeExact ==
    \A e \in Env : Current(e) =>
        \A n \in Models(project) : Restatable(e, n) =>
            Targets(e, n) = {m \in Models(project) :
                               Timed(project, m) /\ (m = n \/ n \in Above(project, m))}

\* Environments the diff finds no difference in get the same passports.
DiffTells ==
    \A a, b \in Env : a # b /\ Diff(a, b).same = Members(a) \cup Members(b)
                      => Passports(a) = Passports(b)

\* The columns a column is computed from, of the parents that are meant.
From(p, n, column) ==
    LET items == {i \in p[n].items : i.alias = column
                                     \/ (i.alias = "" /\ Columns(i) = {column})}
    IN IF items # {} THEN UNION {i.refs : i \in items}
       ELSE {<<m, column>> : m \in {k \in p[n].deps : p[n].star /\ column \in p[k].cols}}

Ancestry(p, n, column) ==
    FoldLeft(LAMBDA s, i : s \cup UNION {From(p, x[1], x[2]) : x \in s}, {<<n, column>>}, Names)

\* The lineage of a column leads to every raw column that goes into it; and to
\* no other where no two parents of a model have a column of one name.
LineageSound ==
    LET trace == Lineage(project)
        apart == \A n \in Models(project) : \A k, m \in project[n].deps :
                    k # m => project[k].cols \cap project[m].cols = {}
    IN \A n \in Models(project) : \A c \in project[n].cols :
         LET raw == {x \in Ancestry(project, n, c) : Raw(project, x[1])}
         IN /\ raw \subseteq trace[n][c]
            /\ apart /\ raw # {} => trace[n][c] = raw

\* The four.
ReportsExact == PassportsExact /\ CascadeExact /\ DiffTells /\ LineageSound

\* "The honest passport describes the physics behind that view and not
\* whatever the working copy would produce" (passport.ts:248): whatever has
\* been edited since the apply.
PassportsOfServed ==
    \A e \in Env : \A n \in Members(e) \cap Models(project) :
        LimitHonest(e, n, Passports(e)[n])
=============================================================================
