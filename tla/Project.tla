------------------------------ MODULE Project ------------------------------
(***************************************************************************)
(* From declarations to an environment: what defineModel and its fellows   *)
(* accept (core/model.ts), the graph (core/graph.ts), the redaction of an  *)
(* environment (plan/redact.ts), the contract (plan/contract.ts), the      *)
(* columns the statements of each kind name (plan/executor.ts), and the    *)
(* commands that go from one to the other: apply, run and audit.           *)
(*                                                                         *)
(* Of a table only its columns are modelled.  What the rows are is in      *)
(* Refresh and Executor, which physics a descendant inherits in Planner:   *)
(* it has the same columns either way.                                     *)
(***************************************************************************)
EXTENDS Integers, FiniteSets, Sequences, Functions

CONSTANTS Name,         \* models, numbered in the order of their names
          Env,
          Redacting,    \* the environments declared redacted
          Declarations, \* name -> what may be declared of it, None for nothing
          MaxEdits, MaxCommands  \* bounds

None == [kind |-> "none"]

Query == {"full", "view", "embedded", "incrementalByTimeRange",
          "incrementalByUniqueKey", "scdType2"}

ProjectAssumption ==
    /\ Name \subseteq Nat /\ IsFiniteSet(Name) /\ Redacting \subseteq Env
    /\ DOMAIN Declarations = Name
    \* what is declared has columns, returns some, and is not redacted yet
    /\ \A n \in Name : \A d \in Declarations[n] \ {None} :
          d.kind # "external" =>
            /\ {"kind", "cols", "returns", "reads", "keep", "target", "audits"} \subseteq DOMAIN d
            /\ d.kind = "scdType2" => {"from", "to"} \subseteq DOMAIN d
            /\ d.kind = "incrementalByUniqueKey" => "key" \in DOMAIN d
            /\ d.kind = "incrementalByTimeRange" => "time" \in DOMAIN d
            /\ d.kind \in Query => "deps" \in DOMAIN d
            /\ d.keep = {} /\ d.returns # {}
    /\ MaxEdits \in Nat /\ MaxCommands \in Nat

VARIABLES project,  \* the declarations, valid or not
          rows,     \* env -> name -> the version it serves, or None
          snap,     \* <<name, version>> -> the version whose physics it has
          phys,     \* <<name, version>> -> the columns of its physics
          last,     \* the last command: its name, environment, outcome
          applied,  \* env -> the project it was last brought to (history)
          widened,  \* what the physics of a redacted version gained columns by (history)
          edits, commands

vars == <<project, rows, snap, phys, last, applied, widened, edits, commands>>

Init ==
    /\ project \in [Name -> UNION {Declarations[n] : n \in Name}]
    /\ \A n \in Name : project[n] \in Declarations[n]
    /\ rows = [e \in Env |-> [n \in Name |-> None]]
    /\ snap = <<>> /\ phys = <<>>
    /\ last = [command |-> "none"]
    /\ applied = [e \in Env |-> <<>>] /\ widened = {}
    /\ edits = 0 /\ commands = 0

-----------------------------------------------------------------------------
(* A declaration.  What the code checks of a string or a number, that it   *)
(* is there and is one of a few, is a field that says so.                  *)

Refreshed == {"incrementalByUniqueKey", "scdType2"}

\* The columns efmesh fills in itself: declared, and not in the query.
Managed(d) == IF d.kind = "scdType2" THEN {d.from, d.to} ELSE {}

KeyDeclared(d) == d.kind \in Refreshed => d.key # {} /\ d.key \subseteq d.cols

VersioningDeclared(d) ==
    d.kind = "scdType2" =>
        /\ d.from # d.to
        /\ Managed(d) \subseteq d.cols \ d.key
        /\ d.target # "parquet"

TargetFits(d) ==
    /\ d.kind \in {"view", "embedded"} => d.target = "table"
    /\ d.kind = "incrementalByUniqueKey" => d.target # "parquet"

TimeDeclared(d) == d.kind = "incrementalByTimeRange" => d.time \in d.cols /\ d.dated

\* validateKindConfig and assembleModel; a .sql file declares what it refers
\* to, no less and no more.
AcceptedQuery(n, d) ==
    /\ KeyDeclared(d) /\ VersioningDeclared(d) /\ TargetFits(d) /\ TimeDeclared(d)
    /\ d.bounds => d.kind = "incrementalByTimeRange"
    /\ n \notin d.deps
    /\ d.file => d.deps = d.refs

\* Compaction is for local parquet files under a dated partition key, and
\* merges by columns that are declared.
AcceptedPolicy(d) ==
    /\ d.source = "files" /\ d.format = "parquet" /\ d.local
    /\ d.policy.dated /\ d.policy.numbers /\ d.policy.bare
    /\ d.policy.cols \subseteq d.cols

AcceptedExternal(d) ==
    /\ d.source \in {"table", "files"} /\ d.named
    /\ d.source = "files" => d.format \in {"parquet", "csv", "json"}
    /\ d.policy # None => AcceptedPolicy(d)

AcceptedSeed(d) == d.named /\ d.format \in {"csv", "json"}

Accepted(n, d) ==
    CASE d.kind = "external" -> AcceptedExternal(d)
      [] d.kind = "seed"     -> AcceptedSeed(d)
      [] d.kind = "none"     -> TRUE
      [] OTHER               -> AcceptedQuery(n, d)

-----------------------------------------------------------------------------
(* The graph                                                               *)

Models(p) == {n \in Name : p[n] # None}
Deps(p, n) == IF p[n].kind \in Query THEN p[n].deps ELSE {}
Dependents(p, n) == {c \in Models(p) : n \in Deps(p, c)}

Sorted(set) ==
    CHOOSE s \in [1 .. Cardinality(set) -> set] : \A i, j \in DOMAIN s : i < j => s[i] < s[j]

\* (A model is ready with the first of its parents.)
ReadyEarly(p, n, order) == {c \in Dependents(p, n) : TRUE} \ Range(order)

\* The children whose last parent this is.
Ready(p, n, order) == {c \in Dependents(p, n) : Deps(p, c) \subseteq Range(order)}

\* Kahn's algorithm: the head of the queue is done, the children it was the
\* last parent of join the queue.
Drain(p, st) ==
    IF st.queue = <<>> THEN st
    ELSE LET n == Head(st.queue)
             order == Append(st.order, n)
         IN [order |-> order, queue |-> Tail(st.queue) \o Sorted(Ready(p, n, order))]

Draining(p) ==
    LET st[i \in 0 .. Cardinality(Models(p))] ==
          IF i = 0
          THEN [order |-> <<>>, queue |-> Sorted({n \in Models(p) : Deps(p, n) = {}})]
          ELSE Drain(p, st[i - 1])
    IN  st

Drained(p) == Draining(p)[Cardinality(Models(p))].order

\* buildGraph: no dependency is unknown, and all models come out.
Graphed(p) ==
    /\ \A n \in Models(p) : Deps(p, n) \subseteq Models(p)
    /\ Len(Drained(p)) = Cardinality(Models(p))

Loads(p) == (\A n \in Name : Accepted(n, p[n])) /\ Graphed(p)

-----------------------------------------------------------------------------
(* Redaction                                                               *)

\* (Audits are left as they are.)
KeptAudits(d) == d.audits

\* An audit goes when its name has a redacted column in it.
RedactedAudits(d) == {a \in d.audits : a.mentions \cap d.redact = {}}

\* The body becomes a projection of the declared columns that are left.
RedactModel(d) ==
    IF d.kind \notin Query \/ d.redact = {} THEN d
    ELSE [d EXCEPT !.cols = @ \ d.redact, !.keep = d.cols \ d.redact,
                   !.audits = RedactedAudits(d)]

RedactGraph(p) == [n \in Name |-> RedactModel(p[n])]

GraphFor(e, p) == IF e \in Redacting THEN RedactGraph(p) ELSE p

-----------------------------------------------------------------------------
(* Versions and plans                                                      *)

\* What the fingerprint is of; neither the audits nor the policy is in it.
Payload(d) == [x \in DOMAIN d \ {"audits", "redact", "policy", "refs", "file"} |-> d[x]]

Version(p, n, versions) ==
    [kind |-> "version", self |-> Payload(p[n]),
     parents |-> [m \in Deps(p, n) |-> versions[m]]]

\* One after another, in topological order.
Versioning(p) ==
    LET order == Drained(p)
        versions[i \in 0 .. Cardinality(Models(p))] ==
          IF i = 0 THEN [n \in Name |-> None]
          ELSE LET n == order[i]
                   before == versions[i - 1]
               IN  [before EXCEPT ![n] = Version(p, n, before)]
    IN  versions

Versions(p) == Versioning(p)[Cardinality(Models(p))]

Unchanged(e, p) == rows[e] = Versions(p)

Alive(n, v) == <<n, v>> \in DOMAIN snap

\* Its physics: of the version it replaces where that is forward-only.
PhysicsOf(e, n, v, forward) ==
    IF Alive(n, v) THEN snap[<<n, v>>]
    ELSE IF n \in forward /\ rows[e][n] \notin {None, v} /\ Alive(n, rows[e][n])
         THEN snap[<<n, rows[e][n]>>]
    ELSE v

-----------------------------------------------------------------------------
(* Building one model                                                      *)

\* The columns the body may read: those of its parents' physics.
Readable(p, n, physics, pfps) ==
    UNION {IF p[m].kind = "external" THEN p[m].cols ELSE physics[<<m, pfps[m]>>] : m \in Deps(p, n)}

\* describe: the columns the query returns, or an engine error.
Describes(d, readable) == d.reads \subseteq readable /\ d.keep \subseteq d.returns
Result(d) == IF d.keep = {} THEN d.returns ELSE d.keep

Contract(d) == Result(d) = d.cols \ Managed(d)

\* The columns the statements that fill it name in its table.
Named(d) ==
    CASE d.kind = "incrementalByUniqueKey" -> d.key
      [] d.kind = "incrementalByTimeRange" -> {d.time}
      [] OTHER                             -> {}

Audited(d, columns) == \A a \in d.audits : a.on \subseteq columns

\* (The history keeps what the query has lost.)
EvolvesAnyway(d, have) == TRUE

\* evolveTableForForwardOnly; files are read by name, whatever each one has.
Evolves(d, have) == d.target = "parquet" \/ have \subseteq Result(d)

\* buildOne of a version, with the versions whose physics the models of the
\* plan have, on the snapshots and the physics as they are by then.  A version
\* is registered after its audits, a time-range one before it is loaded.
BuildOne(p, n, v, pfps, st) ==
    LET d     == p[n]
        key   == <<n, pfps[n]>>
        have  == IF key \in DOMAIN st.phys THEN st.phys[key] ELSE {}
        cols  == have \cup Result(d) \cup Managed(d)
        built == /\ Describes(d, Readable(p, n, st.phys, pfps))
                 /\ Contract(d)
                 /\ pfps[n] # v /\ ~Alive(n, v) => Evolves(d, have)
                 /\ Named(d) \subseteq cols
    IN IF ~built THEN [st EXCEPT !.ok = FALSE]
       ELSE [ok   |-> Audited(d, cols),
             phys |-> [k \in DOMAIN st.phys \cup {key} |-> IF k = key THEN cols ELSE st.phys[k]],
             snap |-> IF Audited(d, cols) \/ d.kind = "incrementalByTimeRange"
                      THEN [k \in DOMAIN st.snap \cup {<<n, v>>} |->
                              IF k = <<n, v>> THEN pfps[n] ELSE st.snap[k]]
                      ELSE st.snap]

\* What an apply of this plan works on; due: there are intervals to fill.
Works(p, n, v, due) ==
    /\ p[n].kind # "external"
    /\ \/ ~Alive(n, v)
       \/ p[n].kind \in Refreshed
       \/ p[n].kind = "incrementalByTimeRange" /\ due

PhysicsFor(e, versions, forward) == [n \in Name |-> PhysicsOf(e, n, versions[n], forward)]

\* Nothing is built after a failure.
BuildNext(p, n, v, pfps, due, st) ==
    IF st.ok /\ Works(p, n, v, due) THEN BuildOne(p, n, v, pfps, st) ELSE st

\* In topological order.
Building(e, p, forward, due) ==
    LET order == Drained(p)
        versions == Versions(p)
        pfps == PhysicsFor(e, versions, forward)
        st[i \in 0 .. Cardinality(Models(p))] ==
          IF i = 0 THEN [ok |-> TRUE, snap |-> snap, phys |-> phys]
          ELSE LET n == order[i]
               IN  BuildNext(p, n, versions[n], pfps, due, st[i - 1])
    IN  st

BuildAll(e, p, forward, due) == Building(e, p, forward, due)[Cardinality(Models(p))]

\* The physics of redacted versions that new versions add columns to.
Widened(built) ==
    {<<k[1], built.snap[k]>> : k \in {k \in DOMAIN built.snap \ DOMAIN snap :
        \E j \in DOMAIN snap :
          /\ j[1] = k[1] /\ snap[j] = built.snap[k] /\ j[2].self.keep # {}
          /\ ~ (Result(k[2].self) \subseteq Result(j[2].self))}}

-----------------------------------------------------------------------------
(* The commands                                                            *)

Command(name, e, outcome) ==
    /\ commands < MaxCommands
    /\ commands' = commands + 1
    /\ last' = [command |-> name, env |-> e, outcome |-> outcome]
    /\ UNCHANGED <<project, edits>>

Nothing == UNCHANGED <<rows, snap, phys, applied, widened>>

\* The models a forward-only flag is accepted for.
Timed == {n \in Models(project) : project[n].kind = "incrementalByTimeRange"}

Refuse(name, e) == ~Loads(project) /\ Command(name, e, "refused") /\ Nothing

Apply(e, forward, due) ==
    LET p == GraphFor(e, project)
        built == BuildAll(e, p, forward, due)
    IN /\ Loads(project)
       /\ snap' = built.snap /\ phys' = built.phys
       /\ widened' = widened \cup Widened(built)
       /\ IF built.ok
          THEN /\ Command("apply", e, "ok")
               /\ rows' = [rows EXCEPT ![e] = Versions(p)]
               /\ applied' = [applied EXCEPT ![e] = project]
          ELSE /\ Command("apply", e, IF forward = {} THEN "failed" ELSE "reuse failed")
               /\ UNCHANGED <<rows, applied>>

\* The graph a tick and `efmesh audit` plan on: that of the project.
TickGraph(p) == p

Blocked(e) == ~Unchanged(e, TickGraph(project))

Run(e, due) ==
    LET p == TickGraph(project)
        built == BuildAll(e, p, {}, due)
    IN /\ Loads(project)
       /\ IF Blocked(e) THEN Command("run", e, "awaiting human") /\ Nothing
          ELSE /\ Command("run", e, IF built.ok THEN "ok" ELSE "failed")
               /\ snap' = built.snap /\ phys' = built.phys
               /\ UNCHANGED <<rows, applied, widened>>

\* The columns of the environment's view of a model, where it has one.
ViewOf(e, n) ==
    IF rows[e][n] = None \/ ~Alive(n, rows[e][n]) THEN {}
    ELSE phys[<<n, snap[<<n, rows[e][n]>>]>>]

AuditRun(e) ==
    LET p == TickGraph(project)
        fit == \A n \in Models(p) : p[n].kind # "external" => Audited(p[n], ViewOf(e, n))
    IN /\ Loads(project)
       /\ Command("audit", e, IF fit THEN "ok" ELSE "failed")
       /\ Nothing

\* The declaration of one model is edited, added or taken away.
Edit ==
    /\ edits < MaxEdits
    /\ \E n \in Name : \E d \in Declarations[n] \ {project[n]} :
          project' = [project EXCEPT ![n] = d]
    /\ edits' = edits + 1
    /\ last' = [command |-> "none"]
    /\ UNCHANGED <<rows, snap, phys, applied, widened, commands>>

Next ==
    \/ Edit
    \/ \E e \in Env :
         \/ \E name \in {"apply", "run", "audit"} : Refuse(name, e)
         \/ \E due \in BOOLEAN, forward \in SUBSET Timed : Apply(e, forward, due)
         \/ \E due \in BOOLEAN : Run(e, due)
         \/ AuditRun(e)

Spec == Init /\ [][Next]_vars

-----------------------------------------------------------------------------
(* Properties                                                              *)

TypeOK ==
    /\ \A n \in Name : project[n] \in Declarations[n]
    /\ \A e \in Env, n \in Name : rows[e][n] # None =>
          rows[e][n].self.kind = "external" \/ <<n, rows[e][n]>> \in DOMAIN snap
    /\ \A k \in DOMAIN snap : <<k[1], snap[k]>> \in DOMAIN phys

\* The graph is refused for an unknown dependency or a cycle and for nothing
\* else, and what comes out has parents before children.
OrderExact ==
    LET models == Models(project)
        order  == Drained(project)
        acyclic == \A s \in SUBSET models : s # {} => \E n \in s : Deps(project, n) \cap s = {}
    IN (\A n \in models : Deps(project, n) \subseteq models) =>
         /\ Len(order) = Cardinality(models) <=> acyclic
         /\ \A i \in DOMAIN order : Deps(project, order[i]) \subseteq Range(SubSeq(order, 1, i - 1))

\* Queries and files return what is declared, read what their parents declare,
\* and the audits are of declared columns.
Honest(p) ==
    \A n \in Models(p) : p[n].kind # "external" =>
        LET d == p[n] IN
        /\ d.returns = d.cols \ Managed(d)
        /\ d.reads \subseteq UNION {p[m].cols : m \in Deps(p, n)}
        /\ \A a \in d.audits : a.on \subseteq d.cols

Failed(e) == "env" \in DOMAIN last /\ last.env = e /\ last.outcome = "failed"

\* What the declarations are checked for is enough: in a plain environment an
\* honest project is built, ticked and audited without an engine error.
AcceptedBuilds ==
    \A e \in Env \ Redacting :
        Failed(e) /\ (last.command = "audit" => applied[e] = project) => ~Honest(project)

\* What a policy must leave alone for its redacted environment to be built.
Redactable(p) ==
    \A n \in Models(p) : p[n].kind \in Query =>
        LET d == p[n] IN
        /\ d.redact # {} => /\ d.kind # "scdType2" /\ d.cols \ d.redact # {}
                            /\ Named(d) \cap d.redact = {}
                            /\ \A a \in d.audits :
                                 a.on \cap d.redact # {} => a.mentions \cap d.redact # {}
        /\ \A m \in d.deps : p[m].kind \in Query => d.reads \cap p[m].redact = {}

\* Then it is.
RedactedBuilds ==
    \A e \in Redacting :
        Failed(e) /\ last.command = "apply" => ~(Honest(project) /\ Redactable(project))

\* After an apply of a plain environment ticks go on until the project is
\* edited.
RunFollowsApply ==
    \A e \in Env \ Redacting : Loads(project) /\ applied[e] = project => ~Blocked(e)

\* All three: an accepted project that keeps to the rules fails no command and
\* is left to no person.
HonestBuilds == AcceptedBuilds /\ RedactedBuilds /\ RunFollowsApply

\* The tables a redacted environment serves have none of the columns it was
\* applied without, whatever reused what, until a forward-only version adds one
\* to them.  (Those efmesh fills in itself are added to the projection.)
NeverWritten ==
    \A e \in Redacting, n \in Name :
        applied[e] # <<>> /\ applied[e][n].kind \in Query =>
            \/ applied[e][n].target = "parquet"
            \/ <<n, snap[<<n, rows[e][n]>>]>> \in widened
            \/ ViewOf(e, n) \cap (applied[e][n].redact \ Managed(applied[e][n])) = {}

\* The same of all tables.
DifferentPhysics ==
    \A e \in Redacting, n \in Name :
        applied[e] # <<>> /\ applied[e][n].kind \in Query =>
            \/ applied[e][n].target = "parquet"
            \/ ViewOf(e, n) \cap applied[e][n].redact = {}

\* The same of a redacted environment: a tick plans on the project's graph.
RunFollowsApplyEverywhere ==
    \A e \in Env : Loads(project) /\ applied[e] = project => ~Blocked(e)

\* A policy is accepted or it can be built.
PolicyBuilds ==
    \A e \in Redacting : Failed(e) /\ last.command = "apply" => ~Honest(project)
=============================================================================
