----------------------------- MODULE Warehouse -----------------------------
(***************************************************************************)
(* apply and the janitor at work on one warehouse: the state store, the    *)
(* physical tables, the view layer of every environment.  Applies to one   *)
(* environment exclude each other (StateLock); applies to different        *)
(* environments, and the janitor with its own lock, do not.                *)
(*                                                                         *)
(* A step is one statement on the engine or one call of the state store.   *)
(* The plan is read in one step: all it reads that others may change       *)
(* meanwhile is whether a version nobody references is still in the store. *)
(*                                                                         *)
(* The ttl is much longer than an apply or a janitor run (days against     *)
(* minutes): it passes only while nothing is under way.                    *)
(***************************************************************************)
EXTENDS StateStore

CONSTANTS Kind,       \* Name -> "full" or "incremental" (by time range)
          Projects,   \* the projects applied: name -> fingerprint or None
          Reuse,      \* models whose new version may inherit the physics of
                      \* the old one: forward-only by flag or by cascade, and
                      \* the indirect reuse of a descendant
          Dialect,    \* the engine, "duckdb" or "postgres"
          Isolation,  \* of the store's transactions: "serial" (SQLite) or
                      \* "readCommitted" (Postgres, the default there)
          Overlap,    \* the janitor may run while an apply is under way
          FailAt      \* the stages at which an apply or the janitor may stop:
                      \* an audit, a contract, an engine error, SIGKILL

ASSUME WarehouseAssumption ==
    /\ Kind \in [Name -> {"full", "incremental"}]
    /\ Projects \subseteq [Name -> Fp \cup {None}]
    /\ Reuse \subseteq Name
    /\ Dialect \in {"duckdb", "postgres"}
    /\ Isolation \in {"serial", "readCommitted"}
    /\ Overlap \in BOOLEAN

VARIABLES table,  \* (name, physical fp) -> the intervals of data it holds, or
                  \* None when there is no such table; a full model holds all
          view,   \* env -> name -> the physical fp the view reads, or None
          job,    \* env -> the apply under way
          jan     \* the janitor run under way

vars == <<storeVars, table, view, job, jan>>

\* What a plan says of one model, and how far the executor is with it.
Action == [fp: Fp, pfp: Fp,
           from: Fp \cup {None},        \* reusedFrom
           change: {"unchanged", "changed", "removed"},
           stage: {"inherit", "create", "register", "fill", "built"},
           todo: SUBSET Interval,       \* backfill not yet loaded
           loaded: SUBSET Interval,     \* loaded, not yet marked done
           swapped: BOOLEAN]            \* the view layer has been brought along

ASSUME NoneAssumption ==
    None \notin Action /\ \A intervals \in SUBSET Interval : intervals # None

Job == [at: {"idle", "build", "views", "checked"},
        acts: [Name -> Action \cup {None}]]
NoJob == [at |-> "idle", acts |-> [n \in Name |-> None]]

Janitor == [at: {"idle", "claim", "drop"},
            listed: SUBSET Key,         \* doomed by the lists it has read
            claimed: SUBSET Key]        \* <<name, physical fp>> to drop
NoJanitor == [at |-> "idle", listed |-> {}, claimed |-> {}]

TypeOK ==
    /\ StoreTypeOK
    /\ table \in [Key -> (SUBSET Interval) \cup {None}]
    /\ view \in [Env -> [Name -> Fp \cup {None}]]
    /\ job \in [Env -> Job]
    /\ jan \in Janitor

Init ==
    /\ StoreInit
    /\ table = [k \in Key |-> None]
    /\ view = [e \in Env |-> [n \in Name |-> None]]
    /\ job = [e \in Env |-> NoJob]
    /\ jan = NoJanitor

Exists(n, p) == table[<<n, p>>] # None

\* Postgres refuses to drop a table some view reads; DuckDB drops it.
Pinned(n, p) == Dialect = "postgres" /\ \E e \in Env : view[e][n] = p

-----------------------------------------------------------------------------
(* planChanges                                                             *)

\* (The marks of the version reused are inherited, its physics is not.)
OwnPhysics(n, f, from) ==
    IF Alive(n, f) THEN snap[<<n, f>>].pfp ELSE f

\* The physics of a version that is in the store stays what it is; a new one
\* takes that of the version it reuses.
PhysicsOf(n, f, from) ==
    IF Alive(n, f) THEN snap[<<n, f>>].pfp
    ELSE IF from # None THEN snap[<<n, from>>].pfp ELSE f

\* A model of the project: old is the fingerprint the environment's row has, f
\* the one the project gives it, from the version whose physics it inherits.
ProjectAction(n, f, old, from) ==
    LET change == IF old = f THEN "unchanged" ELSE "changed"
        todo   == IF Kind[n] = "full" THEN {}
                  ELSE Interval \ (done[f] \cup
                                   IF from = None THEN {} ELSE done[from])
        build  == change = "changed" /\ ~Alive(n, f)
    IN  [fp |-> f, from |-> from, change |-> change, todo |-> todo,
         pfp |-> PhysicsOf(n, f, from),
         stage |-> IF ~build /\ todo = {} THEN "built"
                   ELSE IF Kind[n] = "incremental" THEN "inherit" ELSE "create",
         loaded |-> {}, swapped |-> change = "unchanged"]

\* A model the environment has and the project no longer has.
RemovedAction(old) ==
    [fp |-> old, pfp |-> old, from |-> None, change |-> "removed",
     stage |-> "built", todo |-> {}, loaded |-> {}, swapped |-> FALSE]

\* With this set of models asked to reuse their old version, which must be in
\* the store still.
PlanOf(e, project, reused) ==
    [n \in Name |->
        LET f == project[n]   old == rows[e][n] IN
        IF f # None
        THEN ProjectAction(n, f, old,
                 IF n \in reused /\ old \notin {None, f} /\ Alive(n, old)
                 THEN old ELSE None)
        ELSE IF old # None THEN RemovedAction(old) ELSE None]

Plan(e) ==
    /\ job[e].at = "idle"
    /\ Overlap \/ jan.at = "idle"
    /\ \E project \in Projects, reused \in SUBSET Reuse :
         job' = [job EXCEPT ![e] = [at   |-> "build",
                                    acts |-> PlanOf(e, project, reused)]]
    /\ UNCHANGED <<storeVars, table, view, jan>>

-----------------------------------------------------------------------------
(* applyPlan, stage 1: the physics of each model                           *)

At(e, n, stage) ==
    /\ job[e].at = "build"
    /\ job[e].acts[n] # None
    /\ job[e].acts[n].stage = stage

\* The executor's view of model n moves on.
Move(e, n, act) == job' = [job EXCEPT ![e].acts[n] = act]

\* incrementalByTimeRange: the intervals done for the version reused.
Inherit(e, n) ==
    /\ At(e, n, "inherit")
    /\ LET a == job[e].acts[n] IN
        /\ MarkDone(a.fp, IF a.from = None THEN {} ELSE done[a.from])
        /\ Move(e, n, [a EXCEPT !.stage = "create"])
    /\ UNCHANGED <<table, view, jan>>

\* CREATE TABLE IF NOT EXISTS for a time-range model.
CreateEmpty(e, n) ==
    /\ At(e, n, "create") /\ Kind[n] = "incremental"
    /\ LET a == job[e].acts[n] IN
        /\ table' = [table EXCEPT ![<<n, a.pfp>>] = IF @ = None THEN {} ELSE @]
        /\ Move(e, n, [a EXCEPT !.stage = "register"])
    /\ UNCHANGED <<storeVars, view, jan>>

\* CREATE OR REPLACE for a full model, or only an audit of inherited physics.
CreateFull(e, n) ==
    /\ At(e, n, "create") /\ Kind[n] = "full"
    /\ LET a == job[e].acts[n] IN
        /\ IF a.from = None
           THEN /\ ~(Pinned(n, a.pfp) /\ Exists(n, a.pfp))
                /\ table' = [table EXCEPT ![<<n, a.pfp>>] = Interval]
           ELSE Exists(n, a.pfp) /\ UNCHANGED table
        /\ Move(e, n, [a EXCEPT !.stage = "register"])
    /\ UNCHANGED <<storeVars, view, jan>>

Settled(a) == a.todo = {} /\ a.loaded = {}

\* upsertSnapshot: a time-range model is registered before its backfill.
Register(e, n) ==
    /\ At(e, n, "register")
    /\ LET a == job[e].acts[n] IN
        /\ UpsertSnapshot(n, a.fp, a.pfp)
        /\ Move(e, n, [a EXCEPT !.stage = IF Settled(a) THEN "built" ELSE "fill"])
    /\ UNCHANGED <<table, view, jan>>

\* The transaction of one batch: DELETE and INSERT of its range.
Load(e, n, i) ==
    /\ At(e, n, "fill")
    /\ LET a == job[e].acts[n] IN
        /\ i \in a.todo
        /\ Exists(n, a.pfp)
        /\ table' = [table EXCEPT ![<<n, a.pfp>>] = @ \cup {i}]
        /\ Move(e, n, [a EXCEPT !.todo = @ \ {i}, !.loaded = @ \cup {i}])
    /\ UNCHANGED <<storeVars, view, jan>>

\* Its audits have passed: the batch is marked done.
Settle(e, n, i) ==
    /\ At(e, n, "fill")
    /\ LET a == job[e].acts[n]
           b == [a EXCEPT !.loaded = @ \ {i}]
       IN  /\ i \in a.loaded
           /\ MarkDone(a.fp, {i})
           /\ Move(e, n, [b EXCEPT !.stage = IF Settled(b) THEN "built" ELSE @])
    /\ UNCHANGED <<table, view, jan>>

\* A batch or its audit fails: it is marked failed and the apply ends.
BatchFails(e, n, i) ==
    /\ At(e, n, "fill")
    /\ LET a == job[e].acts[n] IN
        /\ i \in a.todo \cup a.loaded
        /\ "fill" \in FailAt \/ ~Exists(n, a.pfp)
        /\ MarkNotDone(a.fp, {i})
    /\ job' = [job EXCEPT ![e] = NoJob]
    /\ UNCHANGED <<table, view, jan>>

-----------------------------------------------------------------------------
(* applyPlan, stages 2 and 4: the view layer, then the environment's rows  *)

Acts(e) == {n \in Name : job[e].acts[n] # None}

BuildDone(e) ==
    /\ job[e].at = "build"
    /\ \A n \in Acts(e) : job[e].acts[n].stage = "built"
    /\ job' = [job EXCEPT ![e].at = "views"]
    /\ UNCHANGED <<storeVars, table, view, jan>>

\* (The view of a removed model is forgotten.)
SwapViewKeepsRemoved(e, n) ==
    /\ job[e].at = "views" /\ n \in Acts(e)
    /\ LET a == job[e].acts[n] IN
        /\ ~a.swapped
        /\ a.change # "removed" => Exists(n, a.pfp)
        /\ view' = [view EXCEPT ![e][n] =
                        IF a.change = "removed" THEN @ ELSE a.pfp]
        /\ Move(e, n, [a EXCEPT !.swapped = TRUE])
    /\ UNCHANGED <<storeVars, table, jan>>

\* DROP VIEW, or CREATE OR REPLACE VIEW over a table that exists.
SwapView(e, n) ==
    /\ job[e].at = "views" /\ n \in Acts(e)
    /\ LET a == job[e].acts[n] IN
        /\ ~a.swapped
        /\ a.change # "removed" => Exists(n, a.pfp)
        /\ view' = [view EXCEPT ![e][n] =
                        IF a.change = "removed" THEN None ELSE a.pfp]
        /\ Move(e, n, [a EXCEPT !.swapped = TRUE])
    /\ UNCHANGED <<storeVars, table, jan>>

\* The entries of promote: every action but the removed ones.
Entries(e) ==
    [n \in Name |-> IF n \in Acts(e) /\ job[e].acts[n].change # "removed"
                    THEN job[e].acts[n].fp ELSE None]

Swapped(e) ==
    job[e].at = "views" /\ \A n \in Acts(e) : job[e].acts[n].swapped

\* promote in one transaction that excludes all others.
PromoteEnv(e) ==
    /\ Isolation = "serial"
    /\ Swapped(e)
    /\ Promote(e, Entries(e))
    /\ job' = [job EXCEPT ![e] = NoJob]
    /\ UNCHANGED <<table, view, jan>>

\* Under READ COMMITTED nothing keeps a snapshot that was found alive there
\* until the transaction's own writes are committed.
CheckAlive(e) ==
    /\ Isolation = "readCommitted"
    /\ Swapped(e)
    /\ CanPromote(Entries(e))
    /\ job' = [job EXCEPT ![e].at = "checked"]
    /\ UNCHANGED <<storeVars, table, view, jan>>

\* (Two of them that overlap leave the marks that one after the other leaves:
\* each may in truth still see references the other has just removed.)
CommitPromote(e) ==
    /\ job[e].at = "checked"
    /\ ReplaceEnv(e, Entries(e))
    /\ job' = [job EXCEPT ![e] = NoJob]
    /\ UNCHANGED <<table, view, jan>>

\* The statement that comes next cannot succeed.
Refused(e) ==
    \/ \E n \in Acts(e) :
         LET a == job[e].acts[n] IN
         \/ /\ At(e, n, "create") /\ Kind[n] = "full"
            /\ IF a.from = None THEN Pinned(n, a.pfp) /\ Exists(n, a.pfp)
                                ELSE ~Exists(n, a.pfp)
         \/ /\ job[e].at = "views" /\ ~a.swapped
            /\ a.change # "removed" /\ ~Exists(n, a.pfp)
    \/ Swapped(e) /\ ~CanPromote(Entries(e))

Stages(e) ==
    IF job[e].at = "build" THEN {job[e].acts[n].stage : n \in Acts(e)}
    ELSE {job[e].at}

\* The apply ends with an error or is killed; nothing is undone.
ApplyEnds(e) ==
    /\ job[e].at # "idle"
    /\ Stages(e) \cap FailAt # {} \/ Refused(e)
    /\ job' = [job EXCEPT ![e] = NoJob]
    /\ UNCHANGED <<storeVars, table, view, jan>>

-----------------------------------------------------------------------------
(* janitor                                                                 *)

Quiet == \A e \in Env : job[e].at = "idle"

\* listReferencedFingerprints, listSnapshots and the deadline.
JanitorLists ==
    /\ jan.at = "idle"
    /\ Overlap \/ Quiet
    /\ jan' = [NoJanitor EXCEPT !.at = "claim",
                                !.listed = {k \in Key : Claimable(k[1], k[2])}]
    /\ UNCHANGED <<storeVars, table, view, job>>

\* (Claims made with the unconditional deleteSnapshot.)
JanitorDeletes(k) ==
    /\ jan.at = "claim" /\ k \in jan.listed
    /\ Alive(k[1], k[2])
    /\ snap' = [snap EXCEPT ![k] = None]
    /\ done' = [done EXCEPT ![k[2]] = {}]
    /\ jan' = [jan EXCEPT !.listed = @ \ {k},
                          !.claimed = @ \cup {<<k[1], snap[k].pfp>>}]
    /\ UNCHANGED <<rows, recent, table, view, job>>

\* (What is to be dropped is remembered without the model's name.)
JanitorClaimsNameless(k) ==
    /\ jan.at = "claim" /\ k \in jan.listed
    /\ DeleteSnapshotIfDoomed(k[1], k[2])
    /\ jan' = [jan EXCEPT !.listed = @ \ {k},
                          !.claimed = @ \cup {snap[k].pfp}]
    /\ UNCHANGED <<table, view, job>>

\* Phase 1: a claim that is won deletes the record and its ledger.
JanitorClaims(k) ==
    /\ jan.at = "claim" /\ k \in jan.listed
    /\ DeleteSnapshotIfDoomed(k[1], k[2])
    /\ jan' = [jan EXCEPT !.listed = @ \ {k},
                          !.claimed = @ \cup {<<k[1], snap[k].pfp>>}]
    /\ UNCHANGED <<table, view, job>>

JanitorLosesClaim(k) ==
    /\ jan.at = "claim" /\ k \in jan.listed
    /\ ~Claimable(k[1], k[2])
    /\ jan' = [jan EXCEPT !.listed = @ \ {k}]
    /\ UNCHANGED <<storeVars, table, view, job>>

PhysicalInUse == {snap[k].pfp : k \in {x \in Key : snap[x] # None}}

\* (Everything claimed is dropped.)
JanitorSurveysNothing ==
    /\ jan.at = "claim" /\ jan.listed = {}
    /\ jan' = [jan EXCEPT !.at = "drop"]
    /\ UNCHANGED <<storeVars, table, view, job>>

\* Phase 2 reads the survivors once: what they use is left alone.
JanitorSurveys ==
    /\ jan.at = "claim" /\ jan.listed = {}
    /\ jan' = [jan EXCEPT !.at = "drop",
                          !.claimed = {c \in @ : c[2] \notin PhysicalInUse}]
    /\ UNCHANGED <<storeVars, table, view, job>>

\* One DROP per physical fingerprint.
JanitorDrops(c) ==
    /\ jan.at = "drop" /\ c \in jan.claimed
    /\ ~Pinned(c[1], c[2])
    /\ table' = [table EXCEPT ![c] = None]
    /\ jan' = [jan EXCEPT !.claimed = {d \in @ : d[2] # c[2]}]
    /\ UNCHANGED <<storeVars, view, job>>

\* Done, refused by the engine, or killed: what is claimed is not tried again.
JanitorEnds ==
    /\ jan.at # "idle"
    /\ \/ jan.at = "drop" /\ jan.claimed = {}
       \/ jan.at = "drop" /\ \E c \in jan.claimed : Pinned(c[1], c[2])
       \/ "janitor" \in FailAt
    /\ jan' = NoJanitor
    /\ UNCHANGED <<storeVars, table, view, job>>

\* The ttl passes between operations.
TimePasses ==
    /\ Quiet /\ jan.at = "idle"
    /\ TtlPasses
    /\ UNCHANGED <<table, view, job, jan>>

-----------------------------------------------------------------------------
Next ==
    \/ \E e \in Env :
        \/ Plan(e) \/ BuildDone(e)
        \/ PromoteEnv(e) \/ CheckAlive(e) \/ CommitPromote(e)
        \/ ApplyEnds(e)
        \/ \E n \in Name :
            \/ Inherit(e, n) \/ CreateEmpty(e, n) \/ CreateFull(e, n)
            \/ Register(e, n) \/ SwapView(e, n)
            \/ \E i \in Interval :
                 Load(e, n, i) \/ Settle(e, n, i) \/ BatchFails(e, n, i)
    \/ JanitorLists \/ JanitorSurveys \/ JanitorEnds
    \/ \E k \in Key :
         JanitorClaims(k) \/ JanitorLosesClaim(k) \/ JanitorDrops(k)
    \/ TimePasses

Spec == Init /\ [][Next]_vars

-----------------------------------------------------------------------------
\* The ledger is the truth about what has been computed: an interval done for a
\* registered version is in the physics of that version.
LedgerBacked ==
    \A n \in Name, f \in Fp :
        Kind[n] = "incremental" /\ Alive(n, f) =>
            /\ Exists(n, snap[<<n, f>>].pfp)
            /\ done[f] \subseteq table[<<n, snap[<<n, f>>].pfp>>]

\* What an environment serves is complete: the physics of every version it
\* points to holds every interval.
ServedComplete ==
    \A e \in Env, n \in Name : rows[e][n] # None /\ Alive(n, rows[e][n]) =>
        table[<<n, snap[<<n, rows[e][n]>>].pfp>>] = Interval

\* Between applies the view layer of an environment is what its rows say.
ViewsFollowRows ==
    \A e \in Env, n \in Name : job[e].at = "idle" =>
        /\ rows[e][n] = None => view[e][n] = None
        /\ rows[e][n] # None /\ Alive(n, rows[e][n]) =>
               view[e][n] = snap[<<n, rows[e][n]>>].pfp

\* No view of any environment reads physics that has been removed.
ViewsResolve ==
    \A e \in Env, n \in Name : view[e][n] # None => Exists(n, view[e][n])

\* The physics of a version is kept for as long as the version is in the store:
\* shared by several versions, until the last of them is gone; and with
\* RollbackWindow, for a ttl after it was last served.
PhysicsKept ==
    \A k \in Key : snap[k] # None => Exists(k[1], snap[k].pfp)

\* The versions each environment serves, and those whose physics is complete.
ServedFrom == [e \in Env |-> {k \in Key : rows[e][k[1]] = k[2]}]
Whole == {k \in Key : snap[k] # None /\ table[<<k[1], snap[k].pfp>>] = Interval}

\* Applies and the janitor keep the promise of Catalog: an environment goes over
\* at once to versions whose physics holds every interval, and no version served
\* within the last ttl loses rows, whichever versions share its physics, however
\* often environments went back and forth, whatever was built beside it, resumed
\* after a failure, or swept.
Promise == INSTANCE Catalog WITH Version <- Key, served <- ServedFrom, whole <- Whole
KeepsCatalog == Promise!Spec
=============================================================================
