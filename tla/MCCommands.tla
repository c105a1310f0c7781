----------------------------- MODULE MCCommands -----------------------------
(***************************************************************************)
(* Instances of seven parts of efmesh for TLC, each on its own: a          *)
(* behaviour is one of `efmesh compact` (Compaction), of opening and       *)
(* migrating the store (Migration), of declaring a project and applying it *)
(* (Project), of reconciling the rows of a model (Refresh), of what is     *)
(* reported of an environment (Reports), of `efmesh schedule` (Schedule)   *)
(* or of what ticks record (Journal).  Nothing is shared among them; the   *)
(* variables of the others stay as at first.                               *)
(***************************************************************************)
EXTENDS Compaction, Integers, TLC

CONSTANTS Checked,             \* the parts to check
          b1, b2, b3,          \* batches
          Proc, Fresh,         \* processes that open the store, and no store
          plain, safe,         \* an environment, and a redacted one
          ModelName, Deployed, Redacting, Declarable,
          MaxProjectEdits, MaxProjectCommands,
          Binaries, Stores,    \* the versions of binaries, and of stores there may be
          MaxMigrates, MaxKills,
          dev, prod, Env,      \* environments that reconcile
          RefVersion, Places,  \* the versions, and where the environments may be
          Key, Value, RefSources, \* what is reconciled
          Null, Absent,        \* no value, no row
          MaxTime, MaxResults, MaxApplies,
          Directory, Scheduled, \* projects and environments that are scheduled
          Words(_), MaxSchedules, MaxScheduleKills,
          MaxTicks, MaxFaults

VARIABLES part,
          migDialect, db, file, backup, proc, ops, kills, swallowed,
          project, rows, prjSnap, phys, last, applied, widened, prjEdits, commands,
          kind, refDialect, at, source, table, job, clock, refEdits, applies, latest, seen,
          reported, served, ledger, repEdits, loads,
          worker, entry, cmd, asked, overlapped, schOps, schKills,
          holder, act, journal, ended, silent, crossed, jrnOps, jrnFaults

-----------------------------------------------------------------------------
(* Compaction: three batches, two of which deliver one row under a key;    *)
(* with and without a key, and with several least numbers of files.        *)

Key1(b) == IF b = b3 THEN "k2" ELSE "k1"

Policies1 == [keyed : BOOLEAN, minFiles : {0, 2}, parquet : {TRUE}]

(* Migration: the binaries of two versions on no store and on an old one.  *)

Mig == INSTANCE Migration WITH
    dialect <- migDialect, Versions <- Binaries, Dialects <- {"sqlite", "postgres"},
    MaxOps <- MaxMigrates

Symmetric == Permutations(Proc)

(* Project: three models and two environments, one edit, two commands.     *)

Sample == INSTANCE SampleProject

Declared1 == Sample!Declared
Declared2 == Sample!Widening

Prj == INSTANCE Project WITH
    snap <- prjSnap, edits <- prjEdits, Name <- ModelName, Env <- Deployed,
    Declarations <- Declarable, MaxEdits <- MaxProjectEdits, MaxCommands <- MaxProjectCommands

(* Refresh: two environments at one version, or each at its own; a value   *)
(* changes and a key vanishes, a hole closes, a row has no key.            *)

Result(one, two, four, null) == [k \in {1, 2, 4, Null} |->
    CASE k = 1 -> one [] k = 2 -> two [] k = 4 -> four [] OTHER -> null]

Results == {Result("x", Absent, "x", Absent), Result("y", "x", Absent, Absent),
            Result("x", "x", Absent, "x")}

Placed == {[e \in {dev, prod} |-> "v1"], [e \in {dev, prod} |-> IF e = dev THEN "v1" ELSE "v2"]}

\* The interleavings of three applies are many on Postgres.
Applies == [d \in {"duckdb", "postgres"} |-> IF d = "duckdb" THEN 3 ELSE 2]

Ref == INSTANCE Refresh WITH
    dialect <- refDialect, edits <- refEdits, Version <- RefVersion, Sources <- RefSources,
    Kinds <- {"incrementalByUniqueKey", "scdType2"}, Dialects <- {"duckdb", "postgres"},
    MaxEdits <- MaxResults

(* Reports: four models in five projects, two environments, one edit.      *)

Rep == INSTANCE Reports WITH
    project <- reported, edits <- repEdits, Name <- 1 .. 4,
    Projects <- Sample!Projects, None <- Sample!None,
    MaxTime <- 2, MaxEdits <- 1, MaxLoads <- 2

(* Schedule: three projects, the directories of two of which come out the  *)
(* same in a title.                                                        *)

Words1(name) ==
    CASE name \in {"/a/my-shop", "/b/my.shop"} -> <<"my", "shop">>
      [] name = "/a/web" -> <<"web">> [] OTHER -> <<name>>

Sch == INSTANCE Schedule WITH
    ops <- schOps, kills <- schKills, Project <- Directory, Env <- Scheduled,
    MaxOps <- MaxSchedules, MaxKills <- MaxScheduleKills

(* Journal: two processes that tick or apply.                              *)

Jrn == INSTANCE Journal WITH
    ops <- jrnOps, faults <- jrnFaults, Nobody <- Fresh, MaxOps <- MaxTicks

ASSUME CommandsAssumption ==
    /\ Checked \subseteq {"compaction", "migration", "project", "refresh", "reports",
                         "schedule", "journal"}
    /\ Mig!MigrationAssumption /\ Prj!ProjectAssumption /\ Ref!RefreshAssumption
    /\ Rep!ReportsAssumption /\ Sch!ScheduleAssumption /\ Jrn!JournalAssumption

-----------------------------------------------------------------------------
\* A part that is not checked is in one of its initial states.
CommandsInit ==
    /\ part \in Checked
    /\ IF part = "compaction" THEN TRUE ELSE policy = CHOOSE p \in Policies : TRUE
    /\ IF part = "migration" THEN TRUE ELSE migDialect = "sqlite" /\ db = Mig!Empty
    /\ IF part = "project" THEN TRUE
       ELSE project = [n \in ModelName |-> CHOOSE d \in Declarable[n] : TRUE]
    /\ IF part = "refresh" THEN TRUE
       ELSE /\ kind = "scdType2" /\ refDialect = "duckdb"
            /\ at = (CHOOSE p \in Places : TRUE) /\ source = (CHOOSE s \in RefSources : TRUE)
    /\ IF part = "reports" THEN TRUE
       ELSE reported = <<Sample!Feed, Sample!Staged, Sample!Rates, Sample!Both>>
    /\ Init /\ Mig!Init /\ Prj!Init /\ Ref!Init /\ Rep!Init /\ Sch!Init /\ Jrn!Init

migVars == <<migDialect, db, file, backup, proc, ops, kills, swallowed>>
prjVars == <<project, rows, prjSnap, phys, last, applied, widened, prjEdits, commands>>
refVars == <<kind, refDialect, at, source, table, job, clock, refEdits, applies, latest, seen>>

repVars == <<reported, served, ledger, repEdits, loads>>
schVars == <<worker, entry, cmd, asked, overlapped, schOps, schKills>>
jrnVars == <<holder, act, journal, ended, silent, crossed, jrnOps, jrnFaults>>

CommandsNext ==
    \/ part = "compaction" /\ Next
       /\ UNCHANGED <<part, migVars, prjVars, refVars, repVars, schVars, jrnVars>>
    \/ part = "migration" /\ Mig!Next
       /\ UNCHANGED <<part, vars, prjVars, refVars, repVars, schVars, jrnVars>>
    \/ part = "project" /\ Prj!Next
       /\ UNCHANGED <<part, vars, migVars, refVars, repVars, schVars, jrnVars>>
    \/ part = "refresh" /\ Ref!Next
       /\ UNCHANGED <<part, vars, migVars, prjVars, repVars, schVars, jrnVars>>
    \/ part = "reports" /\ Rep!Next
       /\ UNCHANGED <<part, vars, migVars, prjVars, refVars, schVars, jrnVars>>
    \/ part = "schedule" /\ Sch!Next
       /\ UNCHANGED <<part, vars, migVars, prjVars, refVars, repVars, jrnVars>>
    \/ part = "journal" /\ Jrn!Next
       /\ UNCHANGED <<part, vars, migVars, prjVars, refVars, repVars, schVars>>

CommandsSpec ==
    CommandsInit
    /\ [][CommandsNext]_<<part, vars, migVars, prjVars, refVars, repVars, schVars, jrnVars>>

-----------------------------------------------------------------------------
(* The properties, under the names they have in their modules; NothingLost *)
(* and ReadOnce are those of Compaction.                                   *)

\* What a process has opened has all its version works with.
OpenedIsComplete == part = "migration" => Mig!OpenedIsComplete

\* An undisturbed migrate leaves a whole store with one stamp.
MigrateRepairs == part = "migration" => Mig!MigrateRepairs

\* The copy a migrate makes is the store as it was.
BackupIsTheStore == part = "migration" => Mig!BackupIsTheStore

\* The graph is refused for what is wrong with it, and orders parents first.
OrderExact == part = "project" => Prj!OrderExact

\* A project that is accepted and keeps to the rules fails no command, and no
\* tick after it is left to a person.
HonestBuilds == part = "project" => Prj!HonestBuilds

\* What a redacted environment serves does not have its redacted columns until
\* a forward-only version adds them.
NeverWritten == part = "project" => Prj!NeverWritten

\* A table is what its reconciliations promise, on one connection.
Reconciled == part = "refresh" => Ref!Reconciled

\* A closed version stays as it is.
ClosedStays == Ref!ClosedStays

\* The audits and the data diff say what is true of the rows.
ChecksExact == part = "refresh" => Ref!ChecksExact

\* Passports, differences, restates and lineages say what is true of an
\* environment that was applied as it is declared.
ReportsExact == part = "reports" => Rep!ReportsExact

\* What the system's scheduler runs is there and is what was registered, and
\* what its ticks came to is what the journal and the health check say.
ScheduleKept ==
    /\ part = "schedule" => Sch!EntriesRun
    /\ part = "journal" => Jrn!JournalExact

\* What the code or its comments say, and what does not hold: see the modules.
OnlyExistingColumnsFail == part = "migration" => Mig!OnlyExistingColumnsFail
BackupAlways == part = "migration" => Mig!BackupAlways
RunFollowsApplyEverywhere == part = "project" => Prj!RunFollowsApplyEverywhere
PolicyBuilds == part = "project" => Prj!PolicyBuilds
DifferentPhysics == part = "project" => Prj!DifferentPhysics
KeyOnce == part = "refresh" => Ref!KeyOnce
PassportsOfServed == part = "reports" => Rep!PassportsOfServed
AlertsOnLastTick == part = "journal" => Jrn!AlertsOnLastTick
RegisteredStays == part = "schedule" => Sch!RegisteredStays
=============================================================================
