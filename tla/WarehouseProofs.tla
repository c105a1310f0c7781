--------------------------- MODULE WarehouseProofs ---------------------------
(***************************************************************************)
(* What the state store guarantees to its clients, whatever methods they   *)
(* call in whatever order; and apply and the janitor at work on one        *)
(* warehouse, for any models, any versions and any number of environments. *)
(* Four invariants, each on top of the one before:                         *)
(*                                                                         *)
(* 0. StoreInv.  No environment points to a version that is gone           *)
(*    (RowsAlive), and a version that was served within the last ttl is    *)
(*    kept (RollbackWindow).  Neither is inductive.  A claim spares a      *)
(*    recently served version only because its mark is young, and the mark *)
(*    is young because promote, when it takes the last reference away,     *)
(*    finds the mark cleared: so StoreInv says as well that the mark of a  *)
(*    referenced version is clear, and why each recently served version is *)
(*    out of the janitor's reach.                                          *)
(*                                                                         *)
(* 1. WarehouseInv.  Every step is one call of the state store or none,    *)
(*    with arguments of the right types: what is proved of the store holds *)
(*    of the warehouse.  It takes Fenced: with promote in two halves and   *)
(*    the janitor at work between them, the second half is no call of the  *)
(*    store (Warehouse_read_committed.cfg).  What it says of rolling back  *)
(*    is for the serial store: promotions that overlap under READ          *)
(*    COMMITTED may each miss that a version is served no more, which      *)
(*    CommitPromote does not have.                                         *)
(*                                                                         *)
(* 2. DataInv.  The tables are what the store says of them.  It takes      *)
(*    Undisturbed, each part of which is needed: a janitor beside an apply *)
(*    drops what a plan has found, two models with one fingerprint share a *)
(*    ledger (Warehouse_rename.cfg), and a forward-only build that fails   *)
(*    leaves marks without a version (Warehouse_forward_only.cfg).  With   *)
(*    RecentSpared it gives the implementation of Catalog: a promotion     *)
(*    serves what is complete, and of what was served within the ttl       *)
(*    nothing is taken away.                                               *)
(*                                                                         *)
(* 3. LayerInv.  The views are what the rows say.  It takes Switching too: *)
(*    views are switched one by one before promote, and an apply that ends *)
(*    in between leaves some of them ahead of the rows.                    *)
(***************************************************************************)
EXTENDS Warehouse, TLAPS

-----------------------------------------------------------------------------
(* The store                                                               *)

\* The mark of every version whose fingerprint is referenced is clear.
MarksClear ==
    \A k \in Key : snap[k] # None /\ k[2] \in Referenced(rows) =>
        snap[k].orphaned = "no"

\* Out of the janitor's reach: referenced, or its ttl has only begun.
Spared(k) ==
    \/ k[2] \in Referenced(rows)
    \/ OrphanMark(snap[k]) = "young"

RecentSpared == \A k \in recent : snap[k] # None /\ Spared(k)

StoreInv == StoreTypeOK /\ RowsAlive /\ MarksClear /\ RecentSpared

-----------------------------------------------------------------------------
\* A version served by an environment is in the store when every row points to
\* one that is, and its fingerprint is referenced.
LEMMA ServedAlive ==
    ASSUME RowsAlive, NEW k \in Served(rows)
    PROVE  k \in Key /\ snap[k] # None /\ k[2] \in Referenced(rows)
  <1>1. PICK n \in Name, f \in Fp : k = <<n, f>>
    BY DEF Served, Key
  <1>2. PICK e \in Env : rows[e][n] = f
    BY <1>1 DEF Served
  <1>3. rows[e][n] # None
    BY <1>2, StoreAssumption
  <1> QED
    BY <1>1, <1>2, <1>3 DEF RowsAlive, Alive, Referenced, Key

\* The fingerprint in a row is one that is referenced.
LEMMA RowReferenced ==
    ASSUME StoreTypeOK, NEW e \in Env, NEW n \in Name, rows[e][n] # None
    PROVE  rows[e][n] \in Fp /\ rows[e][n] \in Referenced(rows)
  BY DEF StoreTypeOK, Referenced

\* The bookkeeping of promote keeps a record a record: it touches the mark only.
LEMMA RemarkedIsSnapshot ==
    ASSUME NEW s \in Snapshot, NEW r \in BOOLEAN
    PROVE  /\ Remarked(s, r) \in Snapshot
           /\ Remarked(s, r).pfp = s.pfp
           /\ Remarked(s, r).created = s.created
           /\ r => Remarked(s, r).orphaned = "no"
           /\ ~r => Remarked(s, r).orphaned =
                        IF s.orphaned = "no" THEN "young" ELSE s.orphaned
  BY DEF Remarked, Snapshot

-----------------------------------------------------------------------------
LEMMA StoreInvInit == StoreInit => StoreInv
  BY StoreAssumption
  DEF StoreInit, StoreInv, StoreTypeOK, RowsAlive, MarksClear, RecentSpared, Key

LEMMA UpsertKeeps ==
    ASSUME StoreInv, NEW n \in Name, NEW f \in Fp, NEW p \in Fp,
           UpsertSnapshot(n, f, p)
    PROVE  StoreInv'
  <1> DEFINE k0 == <<n, f>>
             s0 == [pfp |-> IF snap[k0] = None THEN p ELSE snap[k0].pfp,
                    created |-> "young", orphaned |-> "no"]
  <1>1. k0 \in Key /\ snap' = [snap EXCEPT ![k0] = s0]
        /\ rows' = rows /\ done' = done /\ recent' = recent
    BY DEF UpsertSnapshot, Key
  <1>2. s0 \in Snapshot
    BY <1>1 DEF StoreInv, StoreTypeOK, Snapshot
  <1>3. StoreTypeOK'
    BY <1>1, <1>2 DEF StoreInv, StoreTypeOK
  <1>4. \A k \in Key : snap'[k] = IF k = k0 THEN s0 ELSE snap[k]
    BY <1>1 DEF StoreInv, StoreTypeOK
  <1>5. s0 # None
    BY <1>2, StoreAssumption
  <1> HIDE DEF s0
  <1>6. RowsAlive'
    <2> SUFFICES ASSUME NEW e \in Env, NEW x \in Name, rows[e][x] # None
                 PROVE  snap'[<<x, rows[e][x]>>] # None
      BY <1>1 DEF RowsAlive, Alive
    <2>1. <<x, rows[e][x]>> \in Key
      BY RowReferenced DEF StoreInv, Key
    <2> QED
      BY <2>1, <1>4, <1>5 DEF StoreInv, RowsAlive, Alive
  <1>7. s0.orphaned = "no" /\ s0.created = "young"
    BY DEF s0
  <1>8. MarksClear'
    BY <1>1, <1>4, <1>7 DEF StoreInv, MarksClear, Referenced
  <1>9. RecentSpared'
    <2> SUFFICES ASSUME NEW k \in recent
                 PROVE  snap'[k] # None /\ Spared(k)'
      BY <1>1 DEF RecentSpared
    <2>1. k \in Key /\ snap[k] # None /\ Spared(k)
      BY DEF StoreInv, StoreTypeOK, RecentSpared
    <2> QED
      BY <2>1, <1>1, <1>4, <1>5, <1>7 DEF Spared, OrphanMark, Referenced
  <1> QED
    BY <1>3, <1>6, <1>8, <1>9 DEF StoreInv

LEMMA PromoteKeeps ==
    ASSUME StoreInv, NEW e \in Env, NEW entries \in [Name -> Fp \cup {None}],
           Promote(e, entries)
    PROVE  StoreInv'
  <1> DEFINE ref(k) == k[2] \in Referenced(rows')
  <1>1. /\ rows' = [rows EXCEPT ![e] = entries]
        /\ recent' = recent \cup Served(rows')
        /\ done' = done
        /\ snap' = [k \in Key |-> IF snap[k] = None THEN None
                                  ELSE Remarked(snap[k], ref(k))]
        /\ CanPromote(entries)
    BY DEF Promote, ReplaceEnv
  <1>2. ASSUME NEW k \in Key
        PROVE  /\ snap[k] = None => snap'[k] = None
               /\ snap[k] # None =>
                    /\ snap'[k] \in Snapshot /\ snap'[k] # None
                    /\ ref(k) => snap'[k].orphaned = "no"
                    /\ ~ref(k) => snap'[k].orphaned =
                          IF snap[k].orphaned = "no" THEN "young"
                          ELSE snap[k].orphaned
    <2>1. snap[k] # None => snap[k] \in Snapshot
      BY DEF StoreInv, StoreTypeOK
    <2>2. ref(k) \in BOOLEAN
      OBVIOUS
    <2>3. snap'[k] = IF snap[k] = None THEN None ELSE Remarked(snap[k], ref(k))
      BY <1>1
    <2> HIDE DEF ref
    <2> QED
      BY <2>1, <2>2, <2>3, RemarkedIsSnapshot, StoreAssumption
  <1>3. StoreTypeOK'
    <2>1. snap' \in [Key -> Snapshot \cup {None}]
      <3>1. \A k \in Key : snap'[k] \in Snapshot \cup {None}
        BY <1>2
      <3> QED
        BY <3>1, <1>1
    <2>2. rows' \in [Env -> [Name -> Fp \cup {None}]]
      BY <1>1 DEF StoreInv, StoreTypeOK
    <2>3. recent' \subseteq Key
      BY <1>1 DEF StoreInv, StoreTypeOK, Served
    <2> QED
      BY <2>1, <2>2, <2>3, <1>1 DEF StoreInv, StoreTypeOK
  <1>4. RowsAlive'
    <2> SUFFICES ASSUME NEW d \in Env, NEW x \in Name, rows'[d][x] # None
                 PROVE  snap'[<<x, rows'[d][x]>>] # None
      BY DEF RowsAlive, Alive
    <2>1. <<x, rows'[d][x]>> \in Key
      BY <1>3 DEF StoreTypeOK, Key
    <2>2. snap[<<x, rows'[d][x]>>] # None
      <3>1. CASE d = e
        BY <3>1, <1>1 DEF CanPromote, Alive, StoreInv, StoreTypeOK
      <3>2. CASE d # e
        BY <3>2, <1>1 DEF StoreInv, StoreTypeOK, RowsAlive, Alive
      <3> QED
        BY <3>1, <3>2
    <2> QED
      BY <2>1, <2>2, <1>2
  <1>5. MarksClear'
    BY <1>2 DEF MarksClear
  <1>6. RecentSpared'
    <2> SUFFICES ASSUME NEW k \in recent'
                 PROVE  snap'[k] # None /\ Spared(k)'
      BY DEF RecentSpared
    <2>1. k \in Key
      BY <1>3 DEF StoreTypeOK
    <2>2. CASE k \in Served(rows')
      <3>1. snap'[k] # None /\ ref(k)
        <4>1. PICK n \in Name, f \in Fp : k = <<n, f>>
          BY <2>2 DEF Served, Key
        <4>2. PICK d \in Env : rows'[d][n] = f
          BY <2>2, <4>1 DEF Served
        <4> QED
          BY <4>1, <4>2, <1>4, StoreAssumption DEF RowsAlive, Alive, Referenced
      <3> QED
        BY <3>1 DEF Spared
    <2>3. CASE k \in recent
      <3>1. snap[k] # None /\ Spared(k)
        BY <2>3 DEF StoreInv, RecentSpared
      <3>2. snap'[k] # None
        BY <2>1, <3>1, <1>2
      <3>3. CASE ref(k)
        BY <3>2, <3>3 DEF Spared
      <3>4. CASE ~ref(k)
        <4>1. snap[k].orphaned \in {"no", "young"}
          <5>1. snap[k] \in Snapshot
            BY <2>1, <3>1 DEF StoreInv, StoreTypeOK
          <5> QED
            BY <5>1, <2>1, <3>1
            DEF StoreInv, MarksClear, Spared, OrphanMark, Snapshot
        <4>2. snap'[k].orphaned = "young"
          BY <4>1, <3>1, <3>4, <2>1, <1>2
        <4> QED
          BY <3>2, <4>2 DEF Spared, OrphanMark
      <3> QED
        BY <3>3, <3>4
    <2> QED
      BY <2>2, <2>3, <1>1
  <1> QED
    BY <1>3, <1>4, <1>5, <1>6 DEF StoreInv

LEMMA DeleteKeeps ==
    ASSUME StoreInv, NEW n \in Name, NEW f \in Fp,
           DeleteSnapshotIfDoomed(n, f)
    PROVE  StoreInv'
  <1> DEFINE k0 == <<n, f>>
  <1>1. /\ k0 \in Key
        /\ snap' = [snap EXCEPT ![k0] = None]
        /\ done' = [done EXCEPT ![f] = {}]
        /\ rows' = rows /\ recent' = recent
        /\ f \notin Referenced(rows)
        /\ OrphanMark(snap[k0]) = "old"
    BY DEF DeleteSnapshotIfDoomed, Claimable, Key
  <1>2. StoreTypeOK'
    BY <1>1 DEF StoreInv, StoreTypeOK
  <1>3. \A k \in Key : k # k0 => snap'[k] = snap[k]
    BY <1>1 DEF StoreInv, StoreTypeOK
  <1>4. snap'[k0] = None
    BY <1>1 DEF StoreInv, StoreTypeOK
  <1>5. RowsAlive'
    <2> SUFFICES ASSUME NEW e \in Env, NEW x \in Name, rows[e][x] # None
                 PROVE  snap'[<<x, rows[e][x]>>] # None
      BY <1>1 DEF RowsAlive, Alive
    <2>1. <<x, rows[e][x]>> \in Key /\ <<x, rows[e][x]>> # k0
      BY RowReferenced, <1>1 DEF StoreInv, Key
    <2> QED
      BY <2>1, <1>3 DEF StoreInv, RowsAlive, Alive
  <1>6. MarksClear'
    BY <1>1, <1>3, <1>4 DEF StoreInv, MarksClear, Referenced
  <1>7. RecentSpared'
    <2> SUFFICES ASSUME NEW k \in recent
                 PROVE  snap'[k] # None /\ Spared(k)'
      BY <1>1 DEF RecentSpared
    <2>1. k \in Key /\ snap[k] # None /\ Spared(k)
      BY DEF StoreInv, StoreTypeOK, RecentSpared
    <2>2. k # k0
      BY <2>1, <1>1 DEF Spared
    <2> QED
      BY <2>1, <2>2, <1>1, <1>3 DEF Spared, Referenced
  <1> QED
    BY <1>2, <1>5, <1>6, <1>7 DEF StoreInv

LEMMA TtlKeeps ==
    ASSUME StoreInv, TtlPasses
    PROVE  StoreInv'
  <1>1. /\ rows' = rows /\ done' = done /\ recent' = Served(rows)
        /\ snap' = [k \in Key |-> IF snap[k] = None THEN None ELSE Older(snap[k])]
    BY DEF TtlPasses
  <1>2. ASSUME NEW k \in Key
        PROVE  /\ snap[k] = None => snap'[k] = None
               /\ snap[k] # None =>
                    /\ snap'[k] \in Snapshot /\ snap'[k] # None
                    /\ snap[k].orphaned = "no" => snap'[k].orphaned = "no"
    <2>1. CASE snap[k] = None
      BY <2>1, <1>1
    <2>2. CASE snap[k] # None
      <3>1. snap[k] \in Snapshot
        BY <2>2 DEF StoreInv, StoreTypeOK
      <3>2. snap'[k] = Older(snap[k])
        BY <2>2, <1>1
      <3>3. snap'[k] \in Snapshot
        BY <3>1, <3>2 DEF Snapshot, Older, Aged
      <3>4. snap[k].orphaned = "no" => snap'[k].orphaned = "no"
        BY <3>1, <3>2 DEF Snapshot, Older, Aged
      <3> QED
        BY <2>2, <3>3, <3>4, StoreAssumption
    <2> QED
      BY <2>1, <2>2
  <1>3. StoreTypeOK'
    <2>1. \A k \in Key : snap'[k] \in Snapshot \cup {None}
      BY <1>2
    <2> QED
      BY <2>1, <1>1 DEF StoreInv, StoreTypeOK, Served
  <1>4. RowsAlive'
    <2> SUFFICES ASSUME NEW e \in Env, NEW x \in Name, rows[e][x] # None
                 PROVE  snap'[<<x, rows[e][x]>>] # None
      BY <1>1 DEF RowsAlive, Alive
    <2>1. <<x, rows[e][x]>> \in Key
      BY RowReferenced DEF StoreInv, Key
    <2> QED
      BY <2>1, <1>2 DEF StoreInv, RowsAlive, Alive
  <1>5. MarksClear'
    <2> SUFFICES ASSUME NEW k \in Key, snap'[k] # None, k[2] \in Referenced(rows)
                 PROVE  snap'[k].orphaned = "no"
      BY <1>1 DEF MarksClear, Referenced
    <2> QED
      BY <1>2 DEF StoreInv, MarksClear
  <1>6. RecentSpared'
    <2> SUFFICES ASSUME NEW k \in Served(rows)
                 PROVE  snap'[k] # None /\ Spared(k)'
      BY <1>1 DEF RecentSpared
    <2>1. k \in Key /\ snap[k] # None /\ k[2] \in Referenced(rows)
      BY ServedAlive DEF StoreInv
    <2> QED
      BY <2>1, <1>1, <1>2 DEF Spared, Referenced
  <1> QED
    BY <1>3, <1>4, <1>5, <1>6 DEF StoreInv

\* The marks of the ledger are no part of the argument.
LEMMA MarkingKeeps ==
    ASSUME StoreInv, NEW f \in Fp, NEW intervals \in SUBSET Interval,
           MarkDone(f, intervals) \/ MarkNotDone(f, intervals)
    PROVE  StoreInv'
  <1>1. snap' = snap /\ rows' = rows /\ recent' = recent
    BY DEF MarkDone, MarkNotDone
  <1>2. done' \in [Fp -> SUBSET Interval]
    BY DEF MarkDone, MarkNotDone, StoreInv, StoreTypeOK
  <1> QED
    BY <1>1, <1>2 DEF StoreInv, StoreTypeOK, RowsAlive, Alive, MarksClear,
                      RecentSpared, Spared, OrphanMark, Referenced

-----------------------------------------------------------------------------
\* No method of the store breaks it.
LEMMA StoreStep == StoreInv /\ [StoreNext]_storeVars => StoreInv'
  <1> SUFFICES ASSUME StoreInv, [StoreNext]_storeVars PROVE StoreInv'
    OBVIOUS
  <1>1. ASSUME NEW n \in Name, NEW f \in Fp, NEW p \in Fp,
               UpsertSnapshot(n, f, p)
        PROVE  StoreInv'
    BY <1>1, UpsertKeeps
  <1>2. ASSUME NEW e \in Env, NEW entries \in [Name -> Fp \cup {None}],
               Promote(e, entries)
        PROVE  StoreInv'
    BY <1>2, PromoteKeeps
  <1>3. ASSUME NEW n \in Name, NEW f \in Fp, DeleteSnapshotIfDoomed(n, f)
        PROVE  StoreInv'
    BY <1>3, DeleteKeeps
  <1>4. ASSUME NEW f \in Fp, NEW intervals \in SUBSET Interval,
               MarkDone(f, intervals) \/ MarkNotDone(f, intervals)
        PROVE  StoreInv'
    BY <1>4, MarkingKeeps
  <1>5. CASE TtlPasses
    BY <1>5, TtlKeeps
  <1>6. CASE UNCHANGED storeVars
    BY <1>6 DEF storeVars, StoreInv, StoreTypeOK, RowsAlive, Alive,
                MarksClear, RecentSpared, Spared, OrphanMark, Referenced
  <1> QED
    BY <1>1, <1>2, <1>3, <1>4, <1>5, <1>6 DEF StoreNext

\* StoreInv holds of every client's use of the store.
THEOREM StoreInvariant == StoreSpec => []StoreInv
  BY StoreInvInit, StoreStep, PTL DEF StoreSpec

\* Types: the tables of the store hold what their columns say.
THEOREM StoreTypeCorrect == StoreSpec => []StoreTypeOK
  <1>1. StoreInv => StoreTypeOK
    BY DEF StoreInv
  <1> QED
    BY StoreInvariant, <1>1, PTL

\* promote's liveness check and the janitor's claim exclude each other: an
\* environment never points to a version whose record is gone.
THEOREM RowsStayAlive == StoreSpec => []RowsAlive
  <1>1. StoreInv => RowsAlive
    BY DEF StoreInv
  <1> QED
    BY StoreInvariant, <1>1, PTL

\* No sequence of promotions, repeated upserts and claims takes away a version
\* that was served within the last ttl.
THEOREM RollbackStaysPossible == StoreSpec => []RollbackWindow
  <1>1. StoreInv => RollbackWindow
    BY DEF StoreInv, RecentSpared, RollbackWindow
  <1> QED
    BY StoreInvariant, <1>1, PTL

-----------------------------------------------------------------------------
(* The warehouse                                                           *)

\* The store's transactions exclude each other, or applies and the janitor do.
Fenced == Isolation = "serial" \/ ~Overlap

\* Unless they may overlap, the janitor or the applies are at work.
Apart == Overlap \/ jan.at = "idle" \/ Quiet

\* What promote found alive under READ COMMITTED stays so until it commits.
Checked == \A e \in Env : job[e].at = "checked" => ~Overlap /\ CanPromote(Entries(e))

WarehouseInv == TypeOK /\ StoreInv /\ Apart /\ Checked

JobTypeOK == job \in [Env -> Job]

-----------------------------------------------------------------------------
\* An action of a job under way is an Action.
LEMMA ActTyped ==
    ASSUME JobTypeOK, NEW e \in Env, NEW n \in Name, job[e].acts[n] # None
    PROVE  job[e].acts[n] \in Action
  BY DEF JobTypeOK, Job

\* Moving an action on keeps the jobs typed.
LEMMA MoveTyped ==
    ASSUME JobTypeOK, NEW e \in Env, NEW n \in Name,
           NEW act \in Action, Move(e, n, act)
    PROVE  JobTypeOK'
  <1> DEFINE acts == [job[e].acts EXCEPT ![n] = act]
             j == [job[e] EXCEPT !.acts = acts]
  <1>1. job' = [job EXCEPT ![e] = j]
    BY DEF Move, JobTypeOK, Job
  <1>2. job[e] \in Job
    BY DEF JobTypeOK
  <1>3. acts \in [Name -> Action \cup {None}]
    BY <1>2 DEF Job
  <1>4. j \in Job /\ j.at = job[e].at
    BY <1>2, <1>3 DEF Job
  <1> QED
    BY <1>1, <1>4 DEF JobTypeOK

\* A job that goes to another phase, or ends.
LEMMA JobMoves ==
    ASSUME JobTypeOK, NEW e \in Env, NEW j \in Job, job' = [job EXCEPT ![e] = j]
    PROVE  JobTypeOK'
  BY DEF JobTypeOK

LEMMA NoJobTyped == NoJob \in Job /\ NoJob.at = "idle"
  BY DEF NoJob, Job

\* What a plan says of a model is an Action, when the version it may reuse is
\* in the store.
LEMMA ProjectActionTyped ==
    ASSUME StoreTypeOK, NEW n \in Name, NEW f \in Fp, NEW old \in Fp \cup {None},
           NEW from \in Fp \cup {None}, from # None => Alive(n, from)
    PROVE  ProjectAction(n, f, old, from) \in Action
  <1> DEFINE a == ProjectAction(n, f, old, from)
  <1>1. PhysicsOf(n, f, from) \in Fp
    <2>1. \A g \in Fp : Alive(n, g) => snap[<<n, g>>].pfp \in Fp
      BY DEF StoreTypeOK, Alive, Key, Snapshot
    <2> QED
      BY <2>1 DEF PhysicsOf
  <1>2. /\ a.fp \in Fp /\ a.pfp \in Fp /\ a.from \in Fp \cup {None}
        /\ a.change \in {"unchanged", "changed", "removed"}
        /\ a.stage \in {"inherit", "create", "register", "fill", "built"}
        /\ a.todo \in SUBSET Interval /\ a.loaded \in SUBSET Interval
        /\ a.swapped \in BOOLEAN
    BY <1>1 DEF ProjectAction
  <1>3. a = [fp |-> a.fp, pfp |-> a.pfp, from |-> a.from, change |-> a.change,
             stage |-> a.stage, todo |-> a.todo, loaded |-> a.loaded,
             swapped |-> a.swapped]
    BY DEF ProjectAction
  <1> HIDE DEF a
  <1>4. a \in Action
    BY <1>2, <1>3 DEF Action
  <1> QED
    BY <1>4 DEF a

LEMMA PlanTyped ==
    ASSUME StoreTypeOK, NEW e \in Env, NEW project \in Projects,
           NEW reused \in SUBSET Reuse
    PROVE  PlanOf(e, project, reused) \in [Name -> Action \cup {None}]
  <1> DEFINE act(n) == PlanOf(e, project, reused)[n]
  <1> SUFFICES ASSUME NEW n \in Name PROVE act(n) \in Action \cup {None}
    BY DEF PlanOf
  <1>1. project[n] \in Fp \cup {None} /\ rows[e][n] \in Fp \cup {None}
    BY WarehouseAssumption DEF StoreTypeOK
  <1> DEFINE old == rows[e][n]
             from == IF n \in reused /\ old \notin {None, project[n]}
                             /\ Alive(n, old)
                     THEN old ELSE None
  <1>2. from \in Fp \cup {None} /\ (from # None => Alive(n, from))
    BY <1>1
  <1>3. CASE project[n] # None
    <2>1. act(n) = ProjectAction(n, project[n], old, from)
      BY <1>3 DEF PlanOf
    <2> QED
      BY <2>1, <1>1, <1>2, <1>3, ProjectActionTyped
  <1>4. CASE project[n] = None /\ old # None
    <2>1. act(n) = RemovedAction(old)
      BY <1>4 DEF PlanOf
    <2>2. RemovedAction(old) \in Action
      BY <1>1, <1>4 DEF RemovedAction, Action
    <2> QED
      BY <2>1, <2>2
  <1>5. CASE project[n] = None /\ old = None
    BY <1>5 DEF PlanOf
  <1> QED
    BY <1>3, <1>4, <1>5

-----------------------------------------------------------------------------
(* One lemma per step of an apply: it calls the store as StateStore says,  *)
(* or leaves it alone, and the warehouse stays typed.                      *)

StepOK == [StoreNext]_storeVars /\ TypeOK'

LEMMA InitOK == Init => WarehouseInv
  <1> SUFFICES ASSUME Init PROVE WarehouseInv
    OBVIOUS
  <1>1. StoreInv
    BY StoreInvInit DEF Init
  <1>2. StoreTypeOK
    BY <1>1 DEF StoreInv
  <1>3. job \in [Env -> Job] /\ Apart /\ Checked
    BY NoJobTyped DEF Init, Apart, Checked, Quiet
  <1>4. jan \in Janitor
    BY DEF Init, NoJanitor, Janitor
  <1>5. table \in [Key -> (SUBSET Interval) \cup {None}]
    BY DEF Init
  <1>6. view \in [Env -> [Name -> Fp \cup {None}]]
    BY DEF Init
  <1> QED
    BY <1>1, <1>2, <1>3, <1>4, <1>5, <1>6 DEF WarehouseInv, TypeOK

\* A store call that marks intervals keeps the store's types.
LEMMA MarkTyped ==
    ASSUME StoreTypeOK, NEW f \in Fp, NEW intervals \in SUBSET Interval,
           MarkDone(f, intervals) \/ MarkNotDone(f, intervals)
    PROVE  StoreNext /\ StoreTypeOK'
  BY DEF MarkDone, MarkNotDone, StoreNext, StoreTypeOK

LEMMA PlanOK ==
    ASSUME WarehouseInv, NEW e \in Env, Plan(e)
    PROVE  StepOK
  <1>1. PICK project \in Projects, reused \in SUBSET Reuse :
          job' = [job EXCEPT ![e] = [at   |-> "build",
                                     acts |-> PlanOf(e, project, reused)]]
    BY DEF Plan
  <1> DEFINE j == [at |-> "build", acts |-> PlanOf(e, project, reused)]
  <1>2. PlanOf(e, project, reused) \in [Name -> Action \cup {None}]
    BY PlanTyped DEF WarehouseInv, StoreInv
  <1>3. j \in Job
    BY <1>2 DEF Job
  <1>4. JobTypeOK'
    BY <1>1, <1>3, JobMoves DEF WarehouseInv, TypeOK, JobTypeOK
  <1> QED
    BY <1>4 DEF StepOK, Plan, WarehouseInv, TypeOK, StoreTypeOK, JobTypeOK, storeVars

LEMMA InheritOK ==
    ASSUME WarehouseInv, NEW e \in Env, NEW n \in Name, Inherit(e, n)
    PROVE  StepOK
  <1> DEFINE a == job[e].acts[n]
             inherited == IF a.from = None THEN {} ELSE done[a.from]
             b == [a EXCEPT !.stage = "create"]
  <1>1. JobTypeOK /\ StoreTypeOK /\ a # None
    BY DEF WarehouseInv, TypeOK, JobTypeOK, Inherit, At
  <1>2. a \in Action
    BY <1>1, ActTyped
  <1>3. a.fp \in Fp /\ inherited \in SUBSET Interval /\ b \in Action
    BY <1>1, <1>2 DEF Action, StoreTypeOK
  <1>4. MarkDone(a.fp, inherited) /\ Move(e, n, b)
    BY DEF Inherit
  <1>5. StoreNext /\ StoreTypeOK'
    BY <1>1, <1>3, <1>4, MarkTyped
  <1>6. JobTypeOK'
    BY <1>1, <1>3, <1>4, MoveTyped DEF WarehouseInv
  <1> QED
    BY <1>5, <1>6 DEF StepOK, Inherit, WarehouseInv, TypeOK, JobTypeOK

LEMMA CreateOK ==
    ASSUME WarehouseInv, NEW e \in Env, NEW n \in Name,
           CreateEmpty(e, n) \/ CreateFull(e, n)
    PROVE  StepOK
  <1> DEFINE a == job[e].acts[n]
             b == [a EXCEPT !.stage = "register"]
  <1>1. JobTypeOK /\ a # None
    BY DEF WarehouseInv, TypeOK, JobTypeOK, CreateEmpty, CreateFull, At
  <1>2. a \in Action
    BY <1>1, ActTyped
  <1>3. a.pfp \in Fp /\ b \in Action
    BY <1>2 DEF Action
  <1>4. Move(e, n, b) /\ UNCHANGED <<storeVars, view, jan>>
    BY DEF CreateEmpty, CreateFull
  <1>5. table' \in [Key -> (SUBSET Interval) \cup {None}]
    <2>1. table \in [Key -> (SUBSET Interval) \cup {None}]
      BY DEF WarehouseInv, TypeOK
    <2>2. CASE CreateEmpty(e, n)
      BY <2>1, <2>2 DEF CreateEmpty, Key
    <2>3. CASE CreateFull(e, n)
      BY <2>1, <2>3 DEF CreateFull, Key
    <2> QED
      BY <2>2, <2>3
  <1>6. JobTypeOK'
    BY <1>1, <1>3, <1>4, MoveTyped DEF WarehouseInv
  <1> QED
    BY <1>4, <1>5, <1>6
    DEF StepOK, WarehouseInv, TypeOK, StoreTypeOK, JobTypeOK, storeVars

LEMMA RegisterOK ==
    ASSUME WarehouseInv, NEW e \in Env, NEW n \in Name, Register(e, n)
    PROVE  StepOK
  <1> DEFINE a == job[e].acts[n]
             b == [a EXCEPT !.stage = IF Settled(a) THEN "built" ELSE "fill"]
  <1>1. JobTypeOK /\ a # None
    BY DEF WarehouseInv, TypeOK, JobTypeOK, Register, At
  <1>2. a \in Action
    BY <1>1, ActTyped
  <1>3. a.fp \in Fp /\ a.pfp \in Fp /\ b \in Action
    BY <1>2 DEF Action
  <1>4. UpsertSnapshot(n, a.fp, a.pfp) /\ Move(e, n, b)
    BY DEF Register
  <1>5. StoreNext
    BY <1>3, <1>4 DEF StoreNext
  <1>6. StoreTypeOK'
    BY <1>5, StoreStep DEF WarehouseInv, StoreInv
  <1>7. JobTypeOK'
    BY <1>1, <1>3, <1>4, MoveTyped DEF WarehouseInv
  <1> QED
    BY <1>5, <1>6, <1>7 DEF StepOK, Register, WarehouseInv, TypeOK, JobTypeOK

LEMMA LoadOK ==
    ASSUME WarehouseInv, NEW e \in Env, NEW n \in Name, NEW i \in Interval,
           Load(e, n, i)
    PROVE  StepOK
  <1> DEFINE a == job[e].acts[n]
             b == [a EXCEPT !.todo = @ \ {i}, !.loaded = @ \cup {i}]
  <1>1. JobTypeOK /\ a # None
    BY DEF WarehouseInv, TypeOK, JobTypeOK, Load, At
  <1>2. a \in Action
    BY <1>1, ActTyped
  <1>3. a.pfp \in Fp /\ b \in Action
    BY <1>2 DEF Action
  <1>4. Move(e, n, b) /\ UNCHANGED <<storeVars, view, jan>>
    BY DEF Load
  <1>5. table' \in [Key -> (SUBSET Interval) \cup {None}]
    <2> DEFINE k == <<n, a.pfp>>
    <2>1. table \in [Key -> (SUBSET Interval) \cup {None}] /\ k \in Key
      BY <1>3 DEF WarehouseInv, TypeOK, Key
    <2>2. table[k] # None /\ table' = [table EXCEPT ![k] = @ \cup {i}]
      BY DEF Load, Exists
    <2> HIDE DEF k
    <2>3. table[k] \cup {i} \in SUBSET Interval
      BY <2>1, <2>2
    <2> QED
      BY <2>1, <2>2, <2>3
  <1>6. JobTypeOK'
    BY <1>1, <1>3, <1>4, MoveTyped DEF WarehouseInv
  <1> QED
    BY <1>4, <1>5, <1>6
    DEF StepOK, WarehouseInv, TypeOK, StoreTypeOK, JobTypeOK, storeVars

LEMMA SettleOK ==
    ASSUME WarehouseInv, NEW e \in Env, NEW n \in Name, NEW i \in Interval,
           Settle(e, n, i)
    PROVE  StepOK
  <1> DEFINE a == job[e].acts[n]
             b == [a EXCEPT !.loaded = @ \ {i}]
             c == [b EXCEPT !.stage = IF Settled(b) THEN "built" ELSE @]
  <1>1. JobTypeOK /\ StoreTypeOK /\ a # None
    BY DEF WarehouseInv, TypeOK, JobTypeOK, Settle, At
  <1>2. a \in Action
    BY <1>1, ActTyped
  <1>3. a.fp \in Fp /\ b \in Action
    BY <1>2 DEF Action
  <1>4. MarkDone(a.fp, {i}) /\ Move(e, n, c)
    BY DEF Settle
  <1> HIDE DEF b
  <1>5. c \in Action
    BY <1>3 DEF Action
  <1> HIDE DEF c
  <1>6. StoreNext /\ StoreTypeOK'
    BY <1>1, <1>3, <1>4, MarkTyped
  <1>7. JobTypeOK'
    BY <1>1, <1>4, <1>5, MoveTyped DEF WarehouseInv
  <1> QED
    BY <1>6, <1>7 DEF StepOK, Settle, WarehouseInv, TypeOK, JobTypeOK

LEMMA BatchFailsOK ==
    ASSUME WarehouseInv, NEW e \in Env, NEW n \in Name, NEW i \in Interval,
           BatchFails(e, n, i)
    PROVE  StepOK
  <1> DEFINE a == job[e].acts[n]
  <1>1. JobTypeOK /\ StoreTypeOK /\ a # None
    BY DEF WarehouseInv, TypeOK, JobTypeOK, BatchFails, At
  <1>2. a \in Action
    BY <1>1, ActTyped
  <1>3. a.fp \in Fp /\ MarkNotDone(a.fp, {i})
    BY <1>2 DEF Action, BatchFails
  <1>4. StoreNext /\ StoreTypeOK'
    BY <1>1, <1>3, MarkTyped
  <1>5. JobTypeOK'
    BY <1>1, NoJobTyped, JobMoves DEF BatchFails, WarehouseInv
  <1> QED
    BY <1>4, <1>5 DEF StepOK, BatchFails, WarehouseInv, TypeOK, JobTypeOK

LEMMA BuildDoneOK ==
    ASSUME WarehouseInv, NEW e \in Env, BuildDone(e)
    PROVE  StepOK
  <1> DEFINE j == [job[e] EXCEPT !.at = "views"]
  <1>1. JobTypeOK /\ job[e] \in Job
    BY DEF WarehouseInv, TypeOK, JobTypeOK
  <1>2. j \in Job
    BY <1>1 DEF Job
  <1>3. job' = [job EXCEPT ![e] = j] /\ UNCHANGED <<storeVars, table, view, jan>>
    BY DEF BuildDone
  <1>4. JobTypeOK'
    BY <1>1, <1>2, <1>3, JobMoves DEF WarehouseInv
  <1> QED
    BY <1>3, <1>4 DEF StepOK, WarehouseInv, TypeOK, StoreTypeOK, JobTypeOK, storeVars

LEMMA SwapViewOK ==
    ASSUME WarehouseInv, NEW e \in Env, NEW n \in Name, SwapView(e, n)
    PROVE  StepOK
  <1> DEFINE a == job[e].acts[n]
             b == [a EXCEPT !.swapped = TRUE]
  <1>1. JobTypeOK /\ a # None
    BY DEF WarehouseInv, TypeOK, JobTypeOK, SwapView, Acts
  <1>2. a \in Action
    BY <1>1, ActTyped
  <1>3. a.pfp \in Fp /\ b \in Action
    BY <1>2 DEF Action
  <1>4. Move(e, n, b) /\ UNCHANGED <<storeVars, table, jan>>
    BY DEF SwapView
  <1>5. view' \in [Env -> [Name -> Fp \cup {None}]]
    BY <1>3 DEF SwapView, WarehouseInv, TypeOK
  <1>6. JobTypeOK'
    BY <1>1, <1>3, <1>4, MoveTyped DEF WarehouseInv
  <1> QED
    BY <1>4, <1>5, <1>6
    DEF StepOK, WarehouseInv, TypeOK, StoreTypeOK, JobTypeOK, storeVars

LEMMA EntriesTyped ==
    ASSUME JobTypeOK, NEW e \in Env
    PROVE  Entries(e) \in [Name -> Fp \cup {None}]
  <1> SUFFICES ASSUME NEW n \in Name, job[e].acts[n] # None
               PROVE  job[e].acts[n].fp \in Fp
    BY DEF Entries, Acts
  <1> QED
    BY ActTyped DEF Action

\* promote, in one transaction or in two halves: what was found alive still is.
LEMMA PromoteOK ==
    ASSUME WarehouseInv, NEW e \in Env, PromoteEnv(e) \/ CommitPromote(e)
    PROVE  StepOK
  <1>1. JobTypeOK
    BY DEF WarehouseInv, TypeOK, JobTypeOK
  <1>2. Promote(e, Entries(e)) /\ job' = [job EXCEPT ![e] = NoJob]
        /\ UNCHANGED <<table, view, jan>>
    BY DEF PromoteEnv, CommitPromote, Promote, WarehouseInv, Checked
  <1>3. StoreNext
    BY <1>1, <1>2, EntriesTyped DEF StoreNext
  <1>4. StoreTypeOK'
    BY <1>3, StoreStep DEF WarehouseInv, StoreInv
  <1>5. JobTypeOK'
    BY <1>1, <1>2, NoJobTyped, JobMoves
  <1> QED
    BY <1>2, <1>3, <1>4, <1>5 DEF StepOK, WarehouseInv, TypeOK, JobTypeOK

LEMMA CheckAliveOK ==
    ASSUME WarehouseInv, NEW e \in Env, CheckAlive(e)
    PROVE  StepOK
  <1> DEFINE j == [job[e] EXCEPT !.at = "checked"]
  <1>1. JobTypeOK /\ job[e] \in Job
    BY DEF WarehouseInv, TypeOK, JobTypeOK
  <1>2. j \in Job
    BY <1>1 DEF Job
  <1>3. job' = [job EXCEPT ![e] = j] /\ UNCHANGED <<storeVars, table, view, jan>>
    BY DEF CheckAlive
  <1>4. JobTypeOK'
    BY <1>1, <1>2, <1>3, JobMoves
  <1> QED
    BY <1>3, <1>4 DEF StepOK, WarehouseInv, TypeOK, StoreTypeOK, JobTypeOK, storeVars

LEMMA ApplyEndsOK ==
    ASSUME WarehouseInv, NEW e \in Env, ApplyEnds(e)
    PROVE  StepOK
  <1>1. JobTypeOK'
    BY NoJobTyped, JobMoves DEF ApplyEnds, WarehouseInv, TypeOK, JobTypeOK
  <1> QED
    BY <1>1
    DEF StepOK, ApplyEnds, WarehouseInv, TypeOK, StoreTypeOK, JobTypeOK, storeVars

-----------------------------------------------------------------------------
(* And one per step of the janitor.                                        *)

LEMMA JanitorClaimsOK ==
    ASSUME WarehouseInv, NEW k \in Key, JanitorClaims(k)
    PROVE  StepOK
  <1>1. k[1] \in Name /\ k[2] \in Fp /\ k = <<k[1], k[2]>>
    BY DEF Key
  <1>2. StoreNext
    BY <1>1 DEF JanitorClaims, StoreNext
  <1>3. StoreTypeOK'
    BY <1>2, StoreStep DEF WarehouseInv, StoreInv
  <1>4. snap[k].pfp \in Fp
    BY <1>1 DEF JanitorClaims, DeleteSnapshotIfDoomed, Claimable, Alive,
                WarehouseInv, TypeOK, StoreTypeOK, Snapshot
  <1>5. jan' \in Janitor
    BY <1>1, <1>4 DEF JanitorClaims, WarehouseInv, TypeOK, Janitor, Key
  <1> QED
    BY <1>2, <1>3, <1>5
    DEF StepOK, JanitorClaims, WarehouseInv, TypeOK

\* The steps of the janitor that do not touch the store.
LEMMA JanitorOK ==
    ASSUME WarehouseInv,
           \/ JanitorLists \/ JanitorSurveys \/ JanitorEnds
           \/ \E k \in Key : JanitorLosesClaim(k) \/ JanitorDrops(k)
    PROVE  StepOK
  <1>1. jan \in Janitor /\ table \in [Key -> (SUBSET Interval) \cup {None}]
    BY DEF WarehouseInv, TypeOK
  <1>2. UNCHANGED <<storeVars, view, job>>
    BY DEF JanitorLists, JanitorSurveys, JanitorEnds, JanitorLosesClaim, JanitorDrops
  <1>3. jan' \in Janitor
    <2>1. CASE JanitorLists
      BY <2>1 DEF JanitorLists, NoJanitor, Janitor
    <2>2. CASE JanitorSurveys
      BY <2>2, <1>1 DEF JanitorSurveys, Janitor
    <2>3. CASE JanitorEnds
      BY <2>3 DEF JanitorEnds, NoJanitor, Janitor
    <2>4. ASSUME NEW k \in Key, JanitorLosesClaim(k) PROVE jan' \in Janitor
      BY <2>4, <1>1 DEF JanitorLosesClaim, Janitor
    <2>5. ASSUME NEW k \in Key, JanitorDrops(k) PROVE jan' \in Janitor
      BY <2>5, <1>1 DEF JanitorDrops, Janitor
    <2> QED
      BY <2>1, <2>2, <2>3, <2>4, <2>5
  <1>4. table' \in [Key -> (SUBSET Interval) \cup {None}]
    <2>1. ASSUME NEW k \in Key, JanitorDrops(k)
          PROVE  table' \in [Key -> (SUBSET Interval) \cup {None}]
      BY <2>1, <1>1 DEF JanitorDrops
    <2>2. CASE UNCHANGED table
      BY <2>2, <1>1
    <2> QED
      BY <2>1, <2>2
      DEF JanitorLists, JanitorSurveys, JanitorEnds, JanitorLosesClaim
  <1> QED
    BY <1>2, <1>3, <1>4
    DEF StepOK, WarehouseInv, TypeOK, StoreTypeOK, storeVars

LEMMA TimePassesOK ==
    ASSUME WarehouseInv, TimePasses
    PROVE  StepOK
  <1>1. StoreNext
    BY DEF TimePasses, StoreNext
  <1>2. StoreTypeOK'
    BY <1>1, StoreStep DEF WarehouseInv, StoreInv
  <1> QED
    BY <1>1, <1>2 DEF StepOK, TimePasses, WarehouseInv, TypeOK

-----------------------------------------------------------------------------
\* Every step of the warehouse is a step of the store.
LEMMA WarehouseStep ==
    ASSUME WarehouseInv, [Next]_vars
    PROVE  StepOK
  <1>1. ASSUME NEW e \in Env,
               \/ Plan(e) \/ BuildDone(e) \/ PromoteEnv(e) \/ CheckAlive(e)
               \/ CommitPromote(e) \/ ApplyEnds(e)
        PROVE  StepOK
    BY <1>1, PlanOK, BuildDoneOK, PromoteOK, CheckAliveOK, ApplyEndsOK
  <1>3. ASSUME NEW e \in Env, NEW n \in Name,
               \/ Inherit(e, n) \/ CreateEmpty(e, n) \/ CreateFull(e, n)
               \/ Register(e, n) \/ SwapView(e, n)
        PROVE  StepOK
    BY <1>3, InheritOK, CreateOK, RegisterOK, SwapViewOK
  <1>4. ASSUME NEW e \in Env, NEW n \in Name, NEW i \in Interval,
               Load(e, n, i) \/ Settle(e, n, i) \/ BatchFails(e, n, i)
        PROVE  StepOK
    BY <1>4, LoadOK, SettleOK, BatchFailsOK
  <1>5. ASSUME NEW k \in Key,
               JanitorClaims(k) \/ JanitorLosesClaim(k) \/ JanitorDrops(k)
        PROVE  StepOK
    BY <1>5, JanitorClaimsOK, JanitorOK
  <1>6. CASE JanitorLists \/ JanitorSurveys \/ JanitorEnds
    BY <1>6, JanitorOK
  <1>7. CASE TimePasses
    BY <1>7, TimePassesOK
  <1>8. CASE UNCHANGED vars
    BY <1>8 DEF vars, storeVars, StepOK, WarehouseInv, TypeOK, StoreTypeOK
  <1> QED
    BY <1>1, <1>3, <1>4, <1>5, <1>6, <1>7, <1>8 DEF Next

\* The steps of an apply, and those of the janitor and of time.
ApplySteps(e) ==
    \/ Plan(e) \/ BuildDone(e) \/ PromoteEnv(e) \/ CheckAlive(e)
    \/ CommitPromote(e) \/ ApplyEnds(e)
    \/ \E n \in Name :
        \/ Inherit(e, n) \/ CreateEmpty(e, n) \/ CreateFull(e, n)
        \/ Register(e, n) \/ SwapView(e, n)
        \/ \E i \in Interval : Load(e, n, i) \/ Settle(e, n, i) \/ BatchFails(e, n, i)
JanitorSteps ==
    \/ JanitorLists \/ JanitorSurveys \/ JanitorEnds
    \/ \E k \in Key : JanitorClaims(k) \/ JanitorLosesClaim(k) \/ JanitorDrops(k)

LEMMA NextSteps ==
    Next <=> (\E e \in Env : ApplySteps(e)) \/ JanitorSteps \/ TimePasses
  BY DEF Next, ApplySteps, JanitorSteps

\* An apply leaves the janitor and the other jobs alone, the janitor all jobs.
LEMMA ApplyStays ==
    ASSUME JobTypeOK, NEW e \in Env, ApplySteps(e)
    PROVE  /\ jan' = jan
           /\ Plan(e) \/ job[e].at # "idle"
           /\ \A d \in Env : d # e => job'[d] = job[d]
           /\ job'[e].at = "checked" => CheckAlive(e)
  <1>1. ASSUME NEW n \in Name, NEW act, Move(e, n, act), job[e].at # "checked"
        PROVE  /\ \A d \in Env : d # e => job'[d] = job[d]
               /\ job'[e].at # "checked"
    BY <1>1 DEF Move, JobTypeOK, Job
  <1>2. ASSUME NEW j, job' = [job EXCEPT ![e] = j]
        PROVE  /\ \A d \in Env : d # e => job'[d] = job[d]
               /\ job'[e] = j
    BY <1>2 DEF JobTypeOK
  <1>3. CASE Plan(e)
    <2>1. PICK acts : job' = [job EXCEPT ![e] = [at |-> "build", acts |-> acts]]
      BY <1>3 DEF Plan
    <2>2. job'[e].at = "build" /\ \A d \in Env : d # e => job'[d] = job[d]
      BY <1>2, <2>1
    <2> QED
      BY <1>3, <2>2 DEF Plan
  <1>4. CASE BuildDone(e) \/ CheckAlive(e)
    BY <1>4 DEF BuildDone, CheckAlive, Swapped, JobTypeOK, Job
  <1>5. CASE PromoteEnv(e) \/ CommitPromote(e) \/ ApplyEnds(e)
    BY <1>5, <1>2, NoJobTyped DEF PromoteEnv, CommitPromote, ApplyEnds, Swapped
  <1>6. ASSUME NEW n \in Name, \/ Inherit(e, n) \/ CreateEmpty(e, n) \/ CreateFull(e, n)
                               \/ Register(e, n) \/ SwapView(e, n)
        PROVE  /\ jan' = jan /\ job[e].at # "idle"
               /\ \A d \in Env : d # e => job'[d] = job[d]
               /\ job'[e].at # "checked"
    BY <1>1, <1>6 DEF Inherit, CreateEmpty, CreateFull, Register, SwapView, At
  <1>7. ASSUME NEW n \in Name, NEW i \in Interval, Load(e, n, i) \/ Settle(e, n, i)
        PROVE  /\ jan' = jan /\ job[e].at # "idle"
               /\ \A d \in Env : d # e => job'[d] = job[d]
               /\ job'[e].at # "checked"
    BY <1>1, <1>7 DEF Load, Settle, At
  <1>8. ASSUME NEW n \in Name, NEW i \in Interval, BatchFails(e, n, i)
        PROVE  /\ jan' = jan /\ job[e].at # "idle"
               /\ \A d \in Env : d # e => job'[d] = job[d]
               /\ job'[e].at # "checked"
    BY <1>2, <1>8, NoJobTyped DEF BatchFails, At
  <1> QED
    BY <1>3, <1>4, <1>5, <1>6, <1>7, <1>8 DEF ApplySteps

LEMMA JanitorStays ==
    ASSUME JanitorSteps
    PROVE  job' = job /\ (Overlap \/ jan.at # "idle" \/ Quiet)
  BY DEF JanitorSteps, JanitorLists, JanitorSurveys, JanitorEnds, JanitorClaims,
         JanitorLosesClaim, JanitorDrops

LEMMA ApartStep ==
    ASSUME WarehouseInv, [Next]_vars
    PROVE  Apart'
  <1>1. JobTypeOK
    BY DEF WarehouseInv, TypeOK, JobTypeOK
  <1>2. ASSUME NEW e \in Env, ApplySteps(e)
        PROVE  Apart'
    BY <1>1, <1>2, ApplyStays DEF Plan, WarehouseInv, Apart, Quiet
  <1>3. CASE JanitorSteps
    BY <1>3, JanitorStays DEF WarehouseInv, Apart, Quiet
  <1>4. CASE TimePasses \/ UNCHANGED vars
    BY <1>4 DEF TimePasses, vars, WarehouseInv, Apart, Quiet
  <1> QED
    BY <1>2, <1>3, <1>4, NextSteps

\* While an apply is under way, and the janitor is not, no version goes.
LEMMA AliveStays ==
    ASSUME WarehouseInv, NEW e \in Env, ApplySteps(e), NEW n \in Name, NEW f \in Fp, Alive(n, f)
    PROVE  Alive(n, f)'
  <1>1. snap \in [Key -> Snapshot \cup {None}] /\ <<n, f>> \in Key
    BY DEF WarehouseInv, TypeOK, StoreTypeOK, Key
  <1>2. CASE UNCHANGED snap
    BY <1>2 DEF Alive
  <1>3. ASSUME NEW m \in Name, Register(e, m)
        PROVE  Alive(n, f)'
    BY <1>1, <1>3, StoreAssumption DEF Register, UpsertSnapshot, Alive, Snapshot
  <1>4. CASE PromoteEnv(e) \/ CommitPromote(e)
    BY <1>1, <1>4, StoreAssumption
    DEF PromoteEnv, CommitPromote, Promote, ReplaceEnv, Remarked, Alive, Snapshot
  <1> QED
    BY <1>2, <1>3, <1>4
    DEF ApplySteps, Plan, BuildDone, CheckAlive, ApplyEnds, Inherit, CreateEmpty, CreateFull,
        SwapView, Load, Settle, BatchFails, MarkDone, MarkNotDone, storeVars

LEMMA CheckedStep ==
    ASSUME Fenced, WarehouseInv, [Next]_vars
    PROVE  Checked'
  <1>1. JobTypeOK
    BY DEF WarehouseInv, TypeOK, JobTypeOK
  <1>2. ASSUME NEW e \in Env, ApplySteps(e), NEW d \in Env, job'[d].at = "checked"
        PROVE  ~Overlap /\ CanPromote(Entries(d))'
    <2>1. CASE d # e
      <3>1. job'[d] = job[d]
        BY <1>1, <1>2, <2>1, ApplyStays
      <3>2. ~Overlap /\ CanPromote(Entries(d))
        BY <1>2, <3>1 DEF WarehouseInv, Checked
      <3>3. Entries(d)' = Entries(d)
        BY <3>1 DEF Entries, Acts
      <3>4. Entries(d) \in [Name -> Fp \cup {None}]
        BY <1>1, EntriesTyped
      <3> QED
        BY <1>2, <3>2, <3>3, <3>4, AliveStays DEF CanPromote
    <2>2. CASE d = e
      <3>1. CheckAlive(e)
        BY <1>1, <1>2, <2>2, ApplyStays
      <3>2. job'[e].acts = job[e].acts
        BY <1>1, <3>1 DEF CheckAlive, JobTypeOK, Job
      <3>3. Entries(e)' = Entries(e)
        BY <3>2 DEF Entries, Acts
      <3> QED
        BY <2>2, <3>1, <3>3 DEF CheckAlive, CanPromote, Alive, storeVars, Fenced
    <2> QED
      BY <2>1, <2>2
  <1>3. CASE JanitorSteps
    <2> SUFFICES ASSUME NEW e \in Env, job'[e].at = "checked"
                 PROVE  FALSE
      BY DEF Checked
    <2>1. job[e].at = "checked"
      BY <1>3, JanitorStays
    <2>2. ~Overlap /\ ~Quiet
      BY <2>1 DEF WarehouseInv, Checked, Quiet
    <2> QED
      BY <1>3, <2>2, JanitorStays DEF WarehouseInv, Apart
  <1>4. CASE TimePasses
    BY <1>4 DEF TimePasses, Quiet, Checked
  <1>5. CASE UNCHANGED vars
    BY <1>5 DEF vars, storeVars, WarehouseInv, Checked, CanPromote, Entries, Acts, Alive
  <1> QED
    BY <1>2, <1>3, <1>4, <1>5, NextSteps DEF Checked

\* StoreInv and the types hold of the warehouse.
THEOREM WarehouseInvariant ==
    ASSUME Fenced
    PROVE  Spec => []WarehouseInv
  <1>1. WarehouseInv /\ [Next]_vars => WarehouseInv'
    BY WarehouseStep, StoreStep, ApartStep, CheckedStep DEF StepOK, WarehouseInv
  <1> QED
    BY InitOK, <1>1, PTL DEF Spec

\* The tables, the views, the plans and what the janitor remembers keep their
\* types, whatever a plan has read before the janitor went on.
THEOREM WarehouseTypeCorrect ==
    ASSUME Fenced
    PROVE  Spec => []TypeOK
  <1>1. WarehouseInv => TypeOK
    BY DEF WarehouseInv
  <1> QED
    BY WarehouseInvariant, <1>1, PTL

\* Apply and the janitor, interleaved in any way and stopped at any point, are
\* clients of the store and nothing else: what it guarantees they can rely on.
LEMMA UsesStore ==
    ASSUME Fenced
    PROVE  Spec => StoreSpec
  <1>1. Init => StoreInit
    BY DEF Init
  <1>2. WarehouseInv /\ [Next]_vars => [StoreNext]_storeVars
    BY WarehouseStep DEF StepOK
  <1> QED
    BY WarehouseInvariant, <1>1, <1>2, PTL DEF Spec, StoreSpec

\* An apply that revives a version and a janitor that is about to remove it
\* never leave an environment pointing to a version that is gone.
THEOREM WarehouseRowsAlive ==
    ASSUME Fenced
    PROVE  Spec => []RowsAlive
  BY UsesStore, RowsStayAlive, PTL

\* Whatever was served within the last ttl can still be rolled back to.
THEOREM WarehouseRollback ==
    ASSUME Isolation = "serial"
    PROVE  Spec => []RollbackWindow
  <1>1. Fenced
    BY DEF Fenced
  <1> QED
    BY <1>1, UsesStore, RollbackStaysPossible, PTL

-----------------------------------------------------------------------------
(* The data: what the tables hold of what the store says.                  *)

\* A fingerprint is of one model: no project gives it to another.
OneName == \A p, q \in Projects : \A x, y \in Name : p[x] = q[y] /\ p[x] # None => x = y

\* One environment, whose builds do not fail: what is inherited is registered.
Solo == /\ \A d, e \in Env : d = e
        /\ Dialect = "duckdb"
        /\ FailAt \cap {"inherit", "create", "register", "fill", "built"} = {}

\* What this and the rest takes: the janitor and the applies at work in turn.
Undisturbed == ~Overlap /\ OneName /\ (Reuse = {} \/ Solo)

\* x has version f in some project; what e's apply does about x; where the rows
\* of a version are, and whether they are there.
Of(x, f) == \E p \in Projects : p[x] = f
Act(e, x) == job[e].acts[x]
Active(e, x) == job[e].at # "idle" /\ Act(e, x) # None
Physics(x, f) == snap[<<x, f>>].pfp
Holds(x, p, i) == Exists(x, p) /\ i \in table[<<x, p>>]

\* A version in the store has its physics, with all the ledger says.
VersionOK(x, f) == Alive(x, f) =>
    /\ Of(x, f)
    /\ Exists(x, Physics(x, f))
    /\ Reuse = {} => Physics(x, f) = f
    /\ Kind[x] = "full" => \A i \in Interval : Holds(x, Physics(x, f), i)
    /\ Kind[x] = "incremental" => \A i \in done[f] : Holds(x, Physics(x, f), i)

\* A version whose marks were inherited and that is not registered yet.
Inheriting(e, x, f) ==
    /\ Active(e, x) /\ Act(e, x).change # "removed" /\ Act(e, x).fp = f
    /\ Act(e, x).from # None /\ Act(e, x).stage \in {"create", "register"}
Unborn(x, f) == Kind[x] = "incremental" /\ Of(x, f) /\ ~Alive(x, f) =>
    done[f] = {} \/ \E e \in Env : Inheriting(e, x, f)

\* Where physics is reused, a version's ledger is full when its backfill ends.
Filling(e, x, f) ==
    /\ Active(e, x) /\ Act(e, x).change # "removed" /\ Act(e, x).fp = f
    /\ Act(e, x).stage = "fill"
Finished(x, f) == Reuse # {} /\ Kind[x] = "incremental" /\ Alive(x, f) =>
    Interval \subseteq done[f] \/ \E e \in Env : Filling(e, x, f)

\* What a plan relies on, and what the stages passed have done.
Staged(x, a) ==
    /\ Reuse = {} => a.from = None /\ a.pfp = a.fp
    /\ a.stage \in {"register", "fill"} => Exists(x, a.pfp)
    /\ a.stage \in {"fill", "built"} => Alive(x, a.fp)
    /\ a.stage = "built" => a.todo = {}
    /\ a.stage # "fill" => a.loaded = {}
    /\ Kind[x] = "full" => a.todo = {} /\ a.stage # "inherit"
    /\ a.stage = "register" /\ Kind[x] = "full" => \A i \in Interval : Holds(x, a.pfp, i)
    /\ Kind[x] = "incremental" =>
        /\ \A i \in Interval : i \in a.todo \/ Holds(x, a.pfp, i)
        /\ \A i \in a.loaded : Holds(x, a.pfp, i)

\* It is the physics of the version, or of the one it is to take it from.
Sourced(x, a) ==
    /\ Alive(x, a.fp) => a.pfp = Physics(x, a.fp)
    /\ a.from # None =>
        /\ a.from # a.fp
        /\ a.stage \in {"inherit", "create", "register"} =>
            ~Alive(x, a.fp) /\ Alive(x, a.from) /\ a.pfp = Physics(x, a.from)
        /\ a.stage \in {"create", "register"} /\ Kind[x] = "incremental" =>
            \A i \in done[a.fp] : Holds(x, a.pfp, i)

\* Where physics is reused, what is not to be loaded is or will be marked.
Marked(x, a) == Reuse # {} /\ Kind[x] = "incremental" =>
    /\ a.stage = "inherit" => \A i \in Interval : \/ i \in a.todo \cup done[a.fp]
                                                  \/ a.from # None /\ i \in done[a.from]
    /\ a.stage \in {"create", "register", "fill"} =>
          \A i \in Interval : i \in a.todo \cup a.loaded \cup done[a.fp]

Promised(x, a) == Staged(x, a) /\ Sourced(x, a) /\ Marked(x, a)

ActOK(e, x) == Active(e, x) =>
    /\ Of(x, Act(e, x).fp)
    /\ Act(e, x).change = "removed" => Act(e, x).stage = "built"
    /\ job[e].at \in {"views", "checked"} => Act(e, x).stage = "built"
    /\ Act(e, x).change # "removed" => Promised(x, Act(e, x))

\* What an environment serves is there, whole.
RowOK(e, x) == rows[e][x] # None =>
    /\ Of(x, rows[e][x])
    /\ \A i \in Interval : Holds(x, Physics(x, rows[e][x]), i)

\* Nothing that is to be dropped is the physics of a version.
Dropping == jan.at = "drop" =>
    \A c \in jan.claimed : \A f \in Fp : Alive(c[1], f) => Physics(c[1], f) # c[2]

DataOK ==
    /\ \A x \in Name, f \in Fp : VersionOK(x, f) /\ Unborn(x, f) /\ Finished(x, f)
    /\ \A e \in Env, x \in Name : ActOK(e, x) /\ RowOK(e, x)
    /\ Dropping
DataInv == WarehouseInv /\ DataOK

-----------------------------------------------------------------------------
LEMMA Moved ==
    ASSUME JobTypeOK, NEW e \in Env, NEW n \in Name, NEW act, Move(e, n, act)
    PROVE  /\ Act(e, n)' = act
           /\ \A x \in Name : x # n => Act(e, x)' = Act(e, x)
           /\ \A d \in Env : d # e => job'[d] = job[d]
           /\ \A d \in Env : job'[d].at = job[d].at
  BY DEF JobTypeOK, Job, Move, Act

LEMMA OneNameOf ==
    ASSUME OneName, NEW x \in Name, NEW y \in Name, NEW f \in Fp, Of(x, f), Of(y, f)
    PROVE  x = y
  <1>1. f # None
    BY StoreAssumption
  <1> QED
    BY <1>1 DEF OneName, Of

\* Tables grow.
Grows == \A x \in Name, p \in Fp : /\ Exists(x, p) => Exists(x, p)'
                                   /\ \A i \in Interval : Holds(x, p, i) => Holds(x, p, i)'
\* The versions of a model stay what they are.
Same(x) == \A f \in Fp : /\ Alive(x, f)' <=> Alive(x, f)
                         /\ Alive(x, f) => Physics(x, f)' = Physics(x, f)

LEMMA TypesOf ==
    ASSUME WarehouseInv
    PROVE  /\ JobTypeOK
           /\ \A x \in Name, f \in Fp : Alive(x, f) => Physics(x, f) \in Fp
           /\ \A f \in Fp : done[f] \in SUBSET Interval
           /\ \A e \in Env, x \in Name : rows[e][x] \in Fp \cup {None}
           /\ \A e \in Env, x \in Name : Active(e, x) => Act(e, x) \in Action
           /\ \A e \in Env, x \in Name : rows[e][x] # None => Alive(x, rows[e][x])
  <1>1. TypeOK /\ StoreTypeOK /\ RowsAlive
    BY DEF WarehouseInv, StoreInv
  <1>2. JobTypeOK
    BY <1>1 DEF TypeOK, JobTypeOK
  <1>3. \A x \in Name, f \in Fp : Alive(x, f) => Physics(x, f) \in Fp
    BY <1>1 DEF StoreTypeOK, Alive, Physics, Key, Snapshot
  <1>4. /\ \A f \in Fp : done[f] \in SUBSET Interval
        /\ \A e \in Env, x \in Name : rows[e][x] \in Fp \cup {None}
    BY <1>1 DEF StoreTypeOK
  <1>5. \A e \in Env, x \in Name : Active(e, x) => Act(e, x) \in Action
    BY <1>2, ActTyped DEF Active, Act
  <1> QED
    BY <1>1, <1>2, <1>3, <1>4, <1>5 DEF RowsAlive

\* A promise that no step touches stays one.
LEMMA PromisedStays ==
    ASSUME NEW x \in Name, NEW a \in Action, Promised(x, a), Grows, Same(x),
           Alive(x, a.fp) => Physics(x, a.fp) \in Fp,
           a.from # None /\ Kind[x] = "incremental" => done'[a.fp] \subseteq done[a.fp],
           done[a.fp] \subseteq Interval,
           Reuse # {} => \A f \in Fp : done[f] \subseteq done'[f]
    PROVE  Promised(x, a)'
  <1>1. a.fp \in Fp /\ a.pfp \in Fp /\ a.from \in Fp \cup {None}
        /\ a.todo \subseteq Interval /\ a.loaded \subseteq Interval
    BY DEF Action
  <1> QED
    BY <1>1 DEF Promised, Staged, Sourced, Marked, Grows, Same

\* Reuse is asked for with one environment only.
LEMMA Reused ==
    ASSUME Undisturbed, DataInv, NEW e \in Env, NEW x \in Name, Active(e, x),
           Act(e, x).change # "removed", Act(e, x).from # None
    PROVE  Solo
  BY DEF Undisturbed, DataInv, DataOK, ActOK, Promised, Staged

\* When nothing is under way a version that is not in the store has no marks,
LEMMA DeadNotDone ==
    ASSUME Undisturbed, DataInv, NEW e \in Env, job[e].at = "idle",
           NEW x \in Name, NEW f \in Fp, Kind[x] = "incremental", Of(x, f), ~Alive(x, f)
    PROVE  done[f] = {}
  <1> SUFFICES ASSUME NEW d \in Env, Inheriting(d, x, f)
               PROVE  FALSE
    BY DEF DataInv, DataOK, Unborn
  <1>1. Solo
    BY Reused DEF Inheriting
  <1> QED
    BY <1>1 DEF Solo, Inheriting, Active

\* and where physics is reused one that is in the store has all of them.
LEMMA AliveDone ==
    ASSUME Undisturbed, DataInv, NEW e \in Env, job[e].at = "idle", Reuse # {},
           NEW x \in Name, NEW f \in Fp, Kind[x] = "incremental", Alive(x, f)
    PROVE  Interval \subseteq done[f]
  BY DEF DataInv, DataOK, Finished, Filling, Active, Undisturbed, Solo

LEMMA PlanPromised ==
    ASSUME Undisturbed, DataInv, NEW e \in Env, job[e].at = "idle", NEW x \in Name,
           NEW f \in Fp, Of(x, f), NEW from \in Fp \cup {None},
           from # None => Reuse # {} /\ from # f /\ Alive(x, from),
           rows[e][x] = f => Alive(x, f)
    PROVE  Promised(x, ProjectAction(x, f, rows[e][x], from))
  <1> DEFINE a == ProjectAction(x, f, rows[e][x], from)
  <1>1. /\ a.fp = f /\ a.from = from /\ a.loaded = {}
        /\ a.pfp = PhysicsOf(x, f, from)
        /\ a.todo = IF Kind[x] = "full" THEN {}
                    ELSE Interval \ (done[f] \cup IF from = None THEN {} ELSE done[from])
        /\ a.stage = IF (rows[e][x] = f \/ Alive(x, f)) /\ a.todo = {} THEN "built"
                     ELSE IF Kind[x] = "incremental" THEN "inherit" ELSE "create"
    BY DEF ProjectAction
  <1> HIDE DEF a
  <1> SUFFICES Promised(x, a)
    BY DEF a
  <1>2. Kind[x] \in {"full", "incremental"}
    BY WarehouseAssumption
  <1>3. /\ \A g \in Fp : Alive(x, g) => VersionOK(x, g)
        /\ done[f] \in SUBSET Interval /\ \A g \in Fp : done[g] \in SUBSET Interval
    BY TypesOf DEF DataInv, DataOK
  <1>4. CASE Alive(x, f)
    <2>1. a.pfp = Physics(x, f)
      BY <1>1, <1>4 DEF PhysicsOf, Physics
    <2>2. Kind[x] = "incremental" /\ Reuse # {} => Interval \subseteq done[f]
      BY <1>4, AliveDone
    <2>3. Kind[x] = "incremental" => \A i \in Interval : i \in a.todo \/ i \in done[f]
      BY <1>1, <2>2
    <2>4. from # None => a.stage = "built"
      BY <1>1, <1>2, <1>4, <2>2
    <2>5. a.stage \in {"built", "inherit", "create"} /\ (a.stage = "built" => a.todo = {})
          /\ (Kind[x] = "full" => a.todo = {} /\ a.stage # "inherit")
          /\ (Kind[x] = "incremental" => a.stage # "create")
      BY <1>1, <1>2
    <2>6. VersionOK(x, f)
      BY <1>3, <1>4
    <2>7. /\ Reuse = {} => a.from = None /\ a.pfp = a.fp
          /\ Kind[x] = "incremental" => \A i \in done[f] : Holds(x, a.pfp, i)
      BY <1>1, <1>4, <2>1, <2>6 DEF VersionOK
    <2>8. Kind[x] = "incremental" => \A i \in Interval : i \in a.todo \/ Holds(x, a.pfp, i)
      BY <2>3, <2>7
    <2> QED
      <3>1. Staged(x, a)
        BY <1>1, <1>4, <2>1, <2>3, <2>4, <2>5, <2>7, <2>8 DEF Staged
      <3>2. Sourced(x, a)
        BY <1>1, <1>4, <2>1, <2>3, <2>4, <2>5, <2>7, <2>8 DEF Sourced
      <3>3. Marked(x, a)
        BY <1>1, <1>4, <2>1, <2>3, <2>4, <2>5, <2>7, <2>8 DEF Marked
      <3> QED
        BY <3>1, <3>2, <3>3 DEF Promised
  <1>5. CASE ~Alive(x, f)
    <2>1. a.stage \in {"inherit", "create"} /\ (Kind[x] = "incremental" => a.stage = "inherit")
          /\ (Kind[x] = "full" => a.todo = {} /\ a.stage = "create")
      BY <1>1, <1>5, <1>2
    <2>2. Kind[x] = "incremental" => done[f] = {}
      BY <1>5, DeadNotDone
    <2>3. CASE from = None
      <3>1. Kind[x] = "incremental" => \A i \in Interval : i \in a.todo
        BY <1>1, <2>2, <2>3
      <3>2. a.pfp = f
        BY <1>1, <1>5, <2>3 DEF PhysicsOf
      <3> QED
        <4>1. Staged(x, a)
          BY <1>1, <1>2, <1>5, <2>1, <2>3, <3>1, <3>2 DEF Staged
        <4>2. Sourced(x, a)
          BY <1>1, <1>2, <1>5, <2>1, <2>3, <3>1, <3>2 DEF Sourced
        <4>3. Marked(x, a)
          BY <1>1, <1>2, <1>5, <2>1, <2>3, <3>1, <3>2 DEF Marked
        <4> QED
          BY <4>1, <4>2, <4>3 DEF Promised
    <2>4. CASE from # None
      <3>1. a.pfp = Physics(x, from) /\ VersionOK(x, from) /\ Alive(x, from)
        BY <1>1, <1>3, <1>5, <2>4 DEF PhysicsOf, Physics
      <3>2. Kind[x] = "incremental" => \A i \in Interval : i \in a.todo \/ i \in done[from]
        BY <1>1, <2>2, <2>4
      <3>3. Kind[x] = "incremental" => \A i \in Interval : i \in a.todo \/ Holds(x, a.pfp, i)
        BY <3>1, <3>2 DEF VersionOK
      <3> QED
        <4>1. Staged(x, a)
          BY <1>1, <1>2, <1>5, <2>1, <2>4, <3>1, <3>2, <3>3 DEF Staged
        <4>2. Sourced(x, a)
          BY <1>1, <1>2, <1>5, <2>1, <2>4, <3>1, <3>2, <3>3 DEF Sourced
        <4>3. Marked(x, a)
          BY <1>1, <1>2, <1>5, <2>1, <2>4, <3>1, <3>2, <3>3 DEF Marked
        <4> QED
          BY <4>1, <4>2, <4>3 DEF Promised
    <2> QED
      BY <2>3, <2>4
  <1> QED
    BY <1>4, <1>5

\* What no step of another apply touches stays.
Untouched == UNCHANGED <<snap, done, table>>

LEMMA UntouchedStays ==
    ASSUME Untouched
    PROVE  /\ \A x, f : Alive(x, f)' = Alive(x, f) /\ Physics(x, f)' = Physics(x, f)
           /\ \A x, p : Exists(x, p)' = Exists(x, p)
           /\ \A x, p, i : Holds(x, p, i)' = Holds(x, p, i)
           /\ \A x, a : Promised(x, a)' = Promised(x, a)
           /\ \A x, f : VersionOK(x, f)' = VersionOK(x, f)
  BY DEF Untouched, Alive, Physics, Exists, Holds, Promised, Staged, Sourced, Marked, VersionOK

\* The janitor is idle while an apply is at work.
LEMMA JanitorIdle ==
    ASSUME Undisturbed, WarehouseInv, NEW e \in Env, ApplySteps(e)
    PROVE  jan'.at = "idle"
  <1>1. JobTypeOK
    BY TypesOf
  <1>2. jan' = jan /\ (Plan(e) \/ ~Quiet)
    BY <1>1, ApplyStays DEF Quiet
  <1> QED
    BY <1>2 DEF Undisturbed, WarehouseInv, Apart, Plan

\* A version in the store keeps its physics while an apply is at work.
LEMMA PhysicsStays ==
    ASSUME WarehouseInv, NEW e \in Env, ApplySteps(e), NEW x \in Name, NEW f \in Fp, Alive(x, f)
    PROVE  Alive(x, f)' /\ Physics(x, f)' = Physics(x, f)
  <1> SUFFICES Physics(x, f)' = Physics(x, f)
    BY AliveStays
  <1>1. snap \in [Key -> Snapshot \cup {None}] /\ <<x, f>> \in Key
    BY DEF WarehouseInv, TypeOK, StoreTypeOK, Key
  <1>2. CASE UNCHANGED snap
    BY <1>2 DEF Physics
  <1>3. ASSUME NEW m \in Name, Register(e, m)
        PROVE  Physics(x, f)' = Physics(x, f)
    BY <1>1, <1>3 DEF Register, UpsertSnapshot, Alive, Physics
  <1>4. CASE PromoteEnv(e) \/ CommitPromote(e)
    <2>1. snap'[<<x, f>>] = Remarked(snap[<<x, f>>], f \in Referenced(rows'))
      BY <1>1, <1>4 DEF PromoteEnv, CommitPromote, Promote, ReplaceEnv, Alive
    <2>2. snap[<<x, f>>] \in Snapshot
      BY <1>1 DEF Alive
    <2> QED
      BY <2>1, <2>2 DEF Physics, Remarked, Snapshot
  <1> QED
    BY <1>2, <1>3, <1>4
    DEF ApplySteps, Plan, BuildDone, CheckAlive, ApplyEnds, Inherit, CreateEmpty, CreateFull,
        SwapView, Load, Settle, BatchFails, MarkDone, MarkNotDone, storeVars

\* What other applies rely on stays: there are others only where nothing is reused.
LEMMA OthersStay ==
    ASSUME Undisturbed, DataInv, NEW e \in Env, ApplySteps(e), Grows,
           NEW d \in Env, d # e, NEW x \in Name, Active(d, x),
           Promised(x, Act(d, x)), VersionOK(x, Act(d, x).fp)'
    PROVE  Promised(x, Act(d, x))'
  <1>1. Reuse = {} /\ Act(d, x) \in Action /\ JobTypeOK
    BY TypesOf DEF Undisturbed, Solo, DataInv
  <1>2. PICK a \in Action : a = Act(d, x)
    BY <1>1
  <1>3. Act(d, x)' = a
    BY <1>1, <1>2, ApplyStays DEF Act
  <1>4. Promised(x, a) /\ VersionOK(x, a.fp)'
    BY <1>2, <1>3
  <1>5. a.fp \in Fp /\ a.pfp \in Fp
    BY DEF Action
  <1>6. Alive(x, a.fp) => Alive(x, a.fp)'
    BY <1>5, PhysicsStays DEF DataInv
  <1>7. a.from = None /\ a.pfp = a.fp
    BY <1>1, <1>4 DEF Promised, Staged
  <1>8. Staged(x, a)'
    BY <1>1, <1>4, <1>5, <1>6, <1>7 DEF Promised, Staged, Grows, Action
  <1>9. Sourced(x, a)' /\ Marked(x, a)'
    BY <1>1, <1>4, <1>7 DEF Sourced, Marked, VersionOK
  <1> QED
    BY <1>3, <1>8, <1>9 DEF Promised

\* What a step of the apply to e has to keep.
LEMMA ApplyKeeps ==
    ASSUME Undisturbed, DataInv, NEW e \in Env, ApplySteps(e), Grows,
           \A x \in Name, f \in Fp : Alive(x, f)' => Alive(x, f) \/ VersionOK(x, f)',
           \A x \in Name, f \in Fp : Kind[x] = "incremental" /\ Alive(x, f) =>
               \A i \in done'[f] : i \in done[f] \/ Holds(x, Physics(x, f), i)',
           \A x \in Name, f \in Fp :
               /\ Kind[x] = "incremental" /\ Of(x, f) /\ ~Alive(x, f)'
               /\ done[f] = {} \/ Inheriting(e, x, f)
               => done'[f] = {} \/ Inheriting(e, x, f)',
           \A x \in Name, f \in Fp :
               /\ Reuse # {} /\ Kind[x] = "incremental" /\ Alive(x, f)'
               /\ Alive(x, f) => Interval \subseteq done[f] \/ Filling(e, x, f)
               => Interval \subseteq done'[f] \/ Filling(e, x, f)',
           \A x \in Name : ActOK(e, x)',
           \A d \in Env, x \in Name : rows'[d][x] = rows[d][x] \/ RowOK(d, x)'
    PROVE  DataOK'
  <1>1. jan'.at = "idle"
    BY JanitorIdle DEF DataInv
  <1>2. \A d \in Env : d # e => job'[d] = job[d]
    BY TypesOf, ApplyStays DEF DataInv
  <1>3. \A x \in Name, f \in Fp : Alive(x, f) => Alive(x, f)' /\ Physics(x, f)' = Physics(x, f)
    BY PhysicsStays DEF DataInv
  <1>4. ASSUME NEW x \in Name, NEW f \in Fp
        PROVE  VersionOK(x, f)'
    <2>1. CASE Alive(x, f)
      <3>1. VersionOK(x, f) /\ Physics(x, f)' = Physics(x, f) /\ Physics(x, f) \in Fp
        BY <1>3, <2>1, TypesOf DEF DataInv, DataOK
      <3>2. Kind[x] = "incremental" => \A i \in done'[f] : Holds(x, Physics(x, f), i)'
        <4> SUFFICES ASSUME Kind[x] = "incremental", NEW i \in done'[f], ~Holds(x, Physics(x, f), i)'
                     PROVE  FALSE
          OBVIOUS
        <4>1. i \in done[f] /\ i \in Interval
          BY <2>1, TypesOf DEF DataInv
        <4>2. PICK p \in Fp : p = Physics(x, f)
          BY <3>1
        <4>3. Holds(x, p, i)'
          BY <2>1, <3>1, <4>1, <4>2 DEF VersionOK, Grows
        <4> QED
          BY <3>1, <4>2, <4>3
      <3>3. PICK p \in Fp : p = Physics(x, f)
        BY <3>1
      <3>4. Exists(x, p)' /\ (Kind[x] = "full" => \A i \in Interval : Holds(x, p, i)')
        BY <2>1, <3>1, <3>3 DEF VersionOK, Grows
      <3> QED
        BY <2>1, <3>1, <3>2, <3>3, <3>4 DEF VersionOK, Of
    <2>2. CASE ~Alive(x, f)
      BY <2>2 DEF VersionOK
    <2> QED
      BY <2>1, <2>2
  <1>5. ASSUME NEW x \in Name, NEW f \in Fp
        PROVE  Unborn(x, f)' /\ Finished(x, f)'
    <2>1. ASSUME NEW d \in Env, Inheriting(d, x, f) \/ Reuse # {}
          PROVE  d = e
      BY <2>1, Reused DEF Inheriting, Undisturbed, Solo
    <2>2. Kind[x] = "incremental" /\ Of(x, f) /\ ~Alive(x, f) => done[f] = {} \/ Inheriting(e, x, f)
      BY <2>1 DEF DataInv, DataOK, Unborn
    <2>3. Reuse # {} /\ Kind[x] = "incremental" /\ Alive(x, f) =>
              Interval \subseteq done[f] \/ Filling(e, x, f)
      BY <2>1 DEF DataInv, DataOK, Finished
    <2>4. Unborn(x, f)'
      BY <1>3, <2>2 DEF Unborn, Of
    <2>5. Finished(x, f)'
      BY <2>3 DEF Finished
    <2> QED
      BY <2>4, <2>5
  <1>6. ASSUME NEW d \in Env, NEW x \in Name, d # e
        PROVE  ActOK(d, x)'
    <2>1. ActOK(d, x)
      BY DEF DataInv, DataOK
    <2>2. Act(d, x)' = Act(d, x) /\ job'[d] = job[d]
      BY <1>2, <1>6 DEF Act
    <2>3. Active(d, x) /\ Act(d, x).change # "removed" => Promised(x, Act(d, x))'
      <3> SUFFICES ASSUME Active(d, x), Act(d, x).change # "removed"
                   PROVE  Promised(x, Act(d, x))'
        OBVIOUS
      <3>1. PICK f \in Fp : f = Act(d, x).fp
        BY TypesOf DEF DataInv, Action
      <3>2. VersionOK(x, Act(d, x).fp)'
        BY <1>4, <2>2, <3>1
      <3> QED
        BY <1>6, <2>1, <3>2, OthersStay DEF ActOK
    <2> QED
      BY <2>1, <2>2, <2>3 DEF ActOK, Active, Of
  <1>7. ASSUME NEW d \in Env, NEW x \in Name
        PROVE  RowOK(d, x)'
    <2> SUFFICES ASSUME rows'[d][x] = rows[d][x], rows[d][x] # None
                 PROVE  RowOK(d, x)'
      BY DEF RowOK
    <2>1. RowOK(d, x)
      BY DEF DataInv, DataOK
    <2>2. PICK f \in Fp : f = rows[d][x] /\ Alive(x, f)
      BY TypesOf DEF DataInv
    <2>3. PICK p \in Fp : p = Physics(x, f)
      BY <2>2, TypesOf DEF DataInv
    <2>4. Physics(x, f)' = p
      BY <1>3, <2>2, <2>3
    <2>5. \A i \in Interval : Holds(x, p, i)'
      BY <2>1, <2>2, <2>3 DEF RowOK, Grows
    <2>6. rows'[d][x] = f /\ Of(x, f)
      BY <2>1, <2>2 DEF RowOK
    <2> QED
      BY <2>4, <2>5, <2>6 DEF RowOK, Of
  <1> QED
    BY <1>1, <1>4, <1>5, <1>6, <1>7 DEF DataOK, Dropping

\* A step that changes no version, no mark and no table.
LEMMA UntouchedKeeps ==
    ASSUME Undisturbed, DataInv, NEW e \in Env, ApplySteps(e), Untouched, rows' = rows,
           \A x \in Name : ActOK(e, x)',
           Reuse # {} => \A x \in Name, f \in Fp :
               /\ Inheriting(e, x, f) => Inheriting(e, x, f)'
               /\ Filling(e, x, f) => Filling(e, x, f)'
    PROVE  DataOK'
  <1>1. Grows
    BY UntouchedStays DEF Grows
  <1>2. \A x \in Name, f \in Fp : Alive(x, f)' = Alive(x, f) /\ done' = done
    BY UntouchedStays DEF Untouched
  <1>3. \A x \in Name, f \in Fp : Inheriting(e, x, f) => Reuse # {}
    BY DEF DataInv, DataOK, ActOK, Promised, Staged, Inheriting
  <1> QED
    BY <1>1, <1>2, <1>3, ApplyKeeps

LEMMA PlanData ==
    ASSUME Undisturbed, DataInv, NEW e \in Env, Plan(e)
    PROVE  DataOK'
  <1>1. PICK project \in Projects, reused \in SUBSET Reuse :
          job' = [job EXCEPT ![e] = [at |-> "build", acts |-> PlanOf(e, project, reused)]]
    BY DEF Plan
  <1>2. job[e].at = "idle" /\ UNCHANGED <<rows, jan>> /\ Untouched
    BY DEF Plan, storeVars, Untouched
  <1>3. JobTypeOK /\ job'[e].at = "build"
        /\ (\A x \in Name : Act(e, x)' = PlanOf(e, project, reused)[x])
        /\ \A d \in Env : d # e => job'[d] = job[d]
    BY <1>1, TypesOf DEF JobTypeOK, DataInv, Act
  <1>4. ASSUME NEW x \in Name
        PROVE  ActOK(e, x)'
    <2> DEFINE old == rows[e][x]
               from == IF x \in reused /\ old \notin {None, project[x]} /\ Alive(x, old)
                       THEN old ELSE None
    <2>1. /\ project[x] \in Fp \cup {None} /\ old \in Fp \cup {None}
          /\ old # None => Alive(x, old) /\ Of(x, old)
      BY WarehouseAssumption, TypesOf DEF DataInv, DataOK, RowOK
    <2>2. CASE project[x] # None
      <3>1. Act(e, x)' = ProjectAction(x, project[x], old, from)
        BY <1>3, <2>2 DEF PlanOf
      <3>2. Of(x, project[x])
        BY DEF Of
      <3>3. from \in Fp \cup {None} /\ (from # None => Reuse # {} /\ from # project[x] /\ Alive(x, from))
        BY <2>1
      <3>4. Promised(x, ProjectAction(x, project[x], old, from))
        BY <1>2, <2>1, <2>2, <3>2, <3>3, StoreAssumption, PlanPromised
      <3>5. Promised(x, Act(e, x))'
        <4> DEFINE act == ProjectAction(x, project[x], old, from)
        <4>1. Promised(x, act) /\ Act(e, x)' = act
          BY <3>1, <3>4
        <4> HIDE DEF act
        <4> QED
          BY <4>1, <1>2 DEF Untouched, Promised, Staged, Sourced, Marked, Alive, Physics, Exists, Holds
      <3>6. Act(e, x)'.fp = project[x] /\ job'[e].at = "build" /\ Act(e, x)'.change # "removed"
        BY <1>3, <3>1 DEF ProjectAction
      <3> QED
        BY <3>1, <3>2, <3>5, <3>6 DEF ActOK, Of
    <2>3. CASE project[x] = None /\ old # None
      <3>1. Act(e, x)' = RemovedAction(old)
        BY <1>3, <2>3 DEF PlanOf
      <3> QED
        BY <3>1, <2>1, <2>3 DEF ActOK, RemovedAction, Of
    <2>4. CASE project[x] = None /\ old = None
      BY <1>3, <2>4 DEF PlanOf, ActOK, Active
    <2> QED
      BY <2>1, <2>2, <2>3, <2>4
  <1>5. \A x \in Name, f \in Fp : ~Inheriting(e, x, f) /\ ~Filling(e, x, f)
    BY <1>2 DEF Inheriting, Filling, Active
  <1>6. ApplySteps(e)
    BY DEF ApplySteps
  <1> QED
    BY <1>2, <1>4, <1>5, <1>6, UntouchedKeeps

\* What holds of an action of an apply under way.
LEMMA ActiveOK ==
    ASSUME DataInv, NEW e \in Env, NEW x \in Name, Active(e, x)
    PROVE  /\ Act(e, x) \in Action /\ Of(x, Act(e, x).fp)
           /\ Act(e, x).change = "removed" => Act(e, x).stage = "built"
           /\ job[e].at \in {"views", "checked"} => Act(e, x).stage = "built"
           /\ Act(e, x).change # "removed" => Promised(x, Act(e, x))
  BY TypesOf DEF DataInv, DataOK, ActOK

\* The apply goes on to the view layer, or to the writes of promote.
LEMMA PhaseData ==
    ASSUME Undisturbed, DataInv, NEW e \in Env, BuildDone(e) \/ CheckAlive(e)
    PROVE  DataOK'
  <1>1. ApplySteps(e) /\ Untouched /\ rows' = rows
    BY DEF ApplySteps, BuildDone, CheckAlive, storeVars, Untouched
  <1>2. job[e].at # "idle" /\ \A x \in Name : Act(e, x)' = Act(e, x)
    BY TypesOf DEF DataInv, BuildDone, CheckAlive, Swapped, Act, JobTypeOK, Job
  <1>3. \A x \in Name : Active(e, x) => Act(e, x).stage = "built"
    BY ActiveOK DEF BuildDone, CheckAlive, Swapped, Act, Active, Acts
  <1>4. ASSUME NEW x \in Name
        PROVE  ActOK(e, x)'
    <2>1. Act(e, x) # None /\ Act(e, x).change # "removed" => Promised(x, Act(e, x))'
      <3>1. Promised(x, Act(e, x)) => Promised(x, Act(e, x))'
        BY <1>1, <1>2 DEF Untouched, Promised, Staged, Sourced, Marked, Alive, Physics, Exists, Holds
      <3> QED
        BY <1>2, <3>1, ActiveOK DEF Active
    <2> QED
      BY <1>2, <1>3, <2>1, ActiveOK DEF ActOK, Active, Of
  <1>5. \A x \in Name, f \in Fp : ~Inheriting(e, x, f) /\ ~Filling(e, x, f)
    BY <1>3 DEF Inheriting, Filling
  <1> QED
    BY <1>1, <1>4, <1>5, UntouchedKeeps

LEMMA SwapData ==
    ASSUME Undisturbed, DataInv, NEW e \in Env, NEW n \in Name, SwapView(e, n)
    PROVE  DataOK'
  <1> DEFINE b == [Act(e, n) EXCEPT !.swapped = TRUE]
  <1>1. ApplySteps(e) /\ Untouched /\ rows' = rows
    BY DEF ApplySteps, SwapView, storeVars, Untouched
  <1>2. job[e].at = "views" /\ Act(e, n) # None /\ Move(e, n, b)
    BY DEF SwapView, Acts, Act
  <1>3. /\ Act(e, n)' = b /\ job'[e].at = job[e].at
        /\ \A x \in Name : x # n => Act(e, x)' = Act(e, x)
    BY <1>2, Moved, TypesOf DEF DataInv
  <1>4. \A x \in Name : Active(e, x) => Act(e, x).stage = "built"
    BY <1>2, ActiveOK
  <1>5. /\ Act(e, n) \in Action /\ b.fp = Act(e, n).fp /\ b.pfp = Act(e, n).pfp
        /\ b.from = Act(e, n).from /\ b.change = Act(e, n).change /\ b.stage = Act(e, n).stage
        /\ b.todo = Act(e, n).todo /\ b.loaded = Act(e, n).loaded
    BY <1>2, ActiveOK DEF Active, Action
  <1> HIDE DEF b
  <1>6. ASSUME NEW x \in Name, Active(e, x)
        PROVE  ActOK(e, x)'
    <2>1. /\ Act(e, x)'.fp = Act(e, x).fp /\ Act(e, x)'.change = Act(e, x).change
          /\ Act(e, x)'.stage = Act(e, x).stage
      BY <1>3, <1>5
    <2>2. Act(e, x).change # "removed" => Promised(x, Act(e, x))'
      <3>1. Promised(x, Act(e, x)) => Promised(x, Act(e, x))'
        <4>1. CASE x = n
          BY <1>1, <1>3, <1>5, <4>1
          DEF Untouched, Promised, Staged, Sourced, Marked, Alive, Physics, Exists, Holds
        <4>2. CASE x # n
          BY <1>1, <1>3, <4>2
          DEF Untouched, Promised, Staged, Sourced, Marked, Alive, Physics, Exists, Holds
        <4> QED
          BY <4>1, <4>2
      <3> QED
        BY <1>6, <3>1, ActiveOK
    <2> QED
      BY <1>2, <1>4, <1>6, <2>1, <2>2, ActiveOK DEF ActOK, Of
  <1>7. \A x \in Name : ActOK(e, x)'
    <2> SUFFICES ASSUME NEW x \in Name, ~Active(e, x)
                 PROVE  ActOK(e, x)'
      BY <1>6
    <2> QED
      BY <1>2, <1>3 DEF ActOK, Active
  <1>8. \A x \in Name, f \in Fp : ~Inheriting(e, x, f) /\ ~Filling(e, x, f)
    BY <1>4 DEF Inheriting, Filling
  <1> QED
    BY <1>1, <1>7, <1>8, UntouchedKeeps

\* An apply that ends leaves nothing half inherited: the inherited marks of a
\* version that is not registered wait for no failure.
LEMMA EndsData ==
    ASSUME Undisturbed, DataInv, NEW e \in Env, ApplyEnds(e)
    PROVE  DataOK'
  <1>1. ApplySteps(e) /\ Untouched /\ rows' = rows /\ job' = [job EXCEPT ![e] = NoJob]
    BY DEF ApplySteps, ApplyEnds, storeVars, Untouched
  <1>2. \A x \in Name : ActOK(e, x)'
    BY <1>1, NoJobTyped, TypesOf DEF DataInv, JobTypeOK, ActOK, Active
  <1>3. ASSUME Solo, job[e].at = "build"
        PROVE  FALSE
    <2>1. Stages(e) \cap FailAt = {}
      <3>1. \A n \in Acts(e) : job[e].acts[n].stage \in {"inherit", "create", "register", "fill", "built"}
        BY TypesOf, ActTyped DEF DataInv, Acts, Action
      <3> QED
        BY <1>3, <3>1 DEF Stages, Solo
    <2>2. PICK x \in Acts(e) :
             /\ At(e, x, "create") /\ Kind[x] = "full"
             /\ IF Act(e, x).from = None THEN Pinned(x, Act(e, x).pfp)
                ELSE ~Exists(x, Act(e, x).pfp)
      BY <1>3, <2>1 DEF ApplyEnds, Refused, Swapped, Act
    <2>3. x \in Name /\ Active(e, x) /\ Act(e, x).stage = "create"
      BY <1>3, <2>2 DEF At, Acts, Act, Active
    <2>4. Act(e, x).from # None /\ ~Exists(x, Act(e, x).pfp)
      BY <1>3, <2>2 DEF Pinned, Solo
    <2>5. Sourced(x, Act(e, x)) /\ Act(e, x).from \in Fp
      BY <2>3, <2>4, ActiveOK DEF Promised, Action
    <2>6. Alive(x, Act(e, x).from) /\ Act(e, x).pfp = Physics(x, Act(e, x).from)
      BY <2>3, <2>4, <2>5 DEF Sourced
    <2>7. VersionOK(x, Act(e, x).from)
      BY <2>3, <2>5 DEF DataInv, DataOK
    <2> QED
      BY <2>4, <2>6, <2>7 DEF VersionOK
  <1>4. Reuse # {} => \A x \in Name, f \in Fp : ~Inheriting(e, x, f) /\ ~Filling(e, x, f)
    <2> SUFFICES ASSUME Reuse # {}, NEW x \in Name, NEW f \in Fp, Inheriting(e, x, f) \/ Filling(e, x, f)
                 PROVE  FALSE
      OBVIOUS
    <2>1. Active(e, x) /\ Act(e, x).stage \in {"create", "register", "fill"}
      BY DEF Inheriting, Filling
    <2>2. job[e].at = "build"
      BY <2>1, ActiveOK, TypesOf DEF DataInv, JobTypeOK, Job, Active
    <2> QED
      BY <1>3, <2>2 DEF Undisturbed
  <1> QED
    BY <1>1, <1>2, <1>4, UntouchedKeeps

\* What the other models of the same apply rely on stays.
LEMMA SiblingStays ==
    ASSUME Undisturbed, DataInv, NEW e \in Env, ApplySteps(e), Grows,
           NEW x \in Name, Active(e, x), Promised(x, Act(e, x)), Act(e, x)' = Act(e, x),
           \A f \in Fp : Alive(x, f)' => Alive(x, f),
           done'[Act(e, x).fp] = done[Act(e, x).fp],
           Reuse # {} => \A f \in Fp : done[f] \subseteq done'[f]
    PROVE  Promised(x, Act(e, x))'
  <1>1. PICK a \in Action : a = Act(e, x)
    BY ActiveOK
  <1>2. a.fp \in Fp
    BY DEF Action
  <1>3. Same(x)
    BY PhysicsStays DEF DataInv, Same
  <1>4. Promised(x, a) /\ done'[a.fp] = done[a.fp] /\ done[a.fp] \subseteq Interval
        /\ (Alive(x, a.fp) => Physics(x, a.fp) \in Fp)
    BY <1>1, <1>2, TypesOf DEF DataInv
  <1>5. Promised(x, a)'
    BY <1>3, <1>4, PromisedStays
  <1>6. Act(e, x)' = a
    BY <1>1
  <1> QED
    BY <1>5, <1>6 DEF Promised

\* A step of model n of the apply to e, with the version a.fp.
LEMMA StageKeeps ==
    ASSUME Undisturbed, DataInv, NEW e \in Env, ApplySteps(e), NEW n \in Name,
           NEW a \in Action, NEW b \in Action, job[e].at = "build", Act(e, n) = a, a # None,
           a.change # "removed", b.fp = a.fp, b.change = a.change,
           Move(e, n, b), Promised(n, b)',
           rows' = rows, Grows,
           \A x \in Name, f \in Fp : Alive(x, f)' =>
               Alive(x, f) \/ (x = n /\ f = a.fp /\ VersionOK(n, f)'),
           \A f \in Fp : f # a.fp => done'[f] = done[f],
           Reuse # {} => done[a.fp] \subseteq done'[a.fp],
           Kind[n] = "incremental" /\ Alive(n, a.fp) =>
               \A i \in done'[a.fp] : i \in done[a.fp] \/ Holds(n, Physics(n, a.fp), i)',
           Kind[n] = "incremental" /\ ~Alive(n, a.fp)' /\ (done[a.fp] = {} \/ Inheriting(e, n, a.fp))
               => done'[a.fp] = {} \/ Inheriting(e, n, a.fp)',
           /\ Reuse # {} /\ Kind[n] = "incremental" /\ Alive(n, a.fp)'
           /\ Alive(n, a.fp) => Interval \subseteq done[a.fp] \/ Filling(e, n, a.fp)
           => Interval \subseteq done'[a.fp] \/ Filling(e, n, a.fp)'
    PROVE  DataOK'
  <1>1. /\ Act(e, n)' = b /\ job'[e].at = "build"
        /\ \A x \in Name : x # n => Act(e, x)' = Act(e, x)
    BY Moved, TypesOf DEF DataInv
  <1>2. a.fp \in Fp /\ Of(n, a.fp) /\ Active(e, n)
    BY ActiveOK DEF Active, Action
  <1>3. ASSUME NEW x \in Name, x # n, Of(x, a.fp)
        PROVE  FALSE
    BY <1>2, <1>3, OneNameOf DEF Undisturbed
  <1>4. \A x \in Name, f \in Fp : Alive(x, f) => Of(x, f)
    BY DEF DataInv, DataOK, VersionOK
  <1>5. ASSUME NEW x \in Name, NEW f \in Fp, x # n \/ f # a.fp
        PROVE  /\ Inheriting(e, x, f) => Inheriting(e, x, f)'
               /\ Filling(e, x, f) => Filling(e, x, f)'
    BY <1>1, <1>5 DEF Inheriting, Filling, Active
  <1>6. ASSUME NEW x \in Name, NEW f \in Fp
        PROVE  /\ Kind[x] = "incremental" /\ Alive(x, f) =>
                      \A i \in done'[f] : i \in done[f] \/ Holds(x, Physics(x, f), i)'
               /\ /\ Kind[x] = "incremental" /\ Of(x, f) /\ ~Alive(x, f)'
                  /\ done[f] = {} \/ Inheriting(e, x, f)
                  => done'[f] = {} \/ Inheriting(e, x, f)'
               /\ /\ Reuse # {} /\ Kind[x] = "incremental" /\ Alive(x, f)'
                  /\ Alive(x, f) => Interval \subseteq done[f] \/ Filling(e, x, f)
                  => Interval \subseteq done'[f] \/ Filling(e, x, f)'
    <2>1. CASE f # a.fp
      BY <1>5, <2>1
    <2>2. CASE x = n /\ f = a.fp
      <3>1. Kind[x] = "incremental" /\ Alive(x, f) =>
                \A i \in done'[f] : i \in done[f] \/ Holds(x, Physics(x, f), i)'
        BY <2>2 DEF Holds, Exists, Alive, Physics
      <3>2. /\ Kind[x] = "incremental" /\ Of(x, f) /\ ~Alive(x, f)'
            /\ done[f] = {} \/ Inheriting(e, x, f)
            => done'[f] = {} \/ Inheriting(e, x, f)'
        BY <2>2 DEF Inheriting, Alive, Active, Act
      <3>3. /\ Reuse # {} /\ Kind[x] = "incremental" /\ Alive(x, f)'
            /\ Alive(x, f) => Interval \subseteq done[f] \/ Filling(e, x, f)
            => Interval \subseteq done'[f] \/ Filling(e, x, f)'
        <4>1. /\ Filling(e, x, f) <=> Filling(e, n, a.fp)
              /\ Filling(e, x, f)' <=> Filling(e, n, a.fp)'
              /\ Alive(x, f) <=> Alive(n, a.fp)
              /\ Alive(x, f)' <=> Alive(n, a.fp)'
          BY <2>2 DEF Filling, Alive, Active, Act
        <4> QED
          BY <2>2, <4>1
      <3> QED
        BY <3>1, <3>2, <3>3
    <2>3. CASE x # n /\ f = a.fp
      <3>1. ~Of(x, f)
        BY <1>3, <2>3
      <3>2. ~Alive(x, f)
        BY <1>4, <3>1
      <3>3. ~Alive(x, f)'
        BY <2>3, <3>2
      <3> QED
        BY <3>1, <3>2, <3>3
    <2> QED
      BY <2>1, <2>2, <2>3
  <1>7. ASSUME NEW x \in Name
        PROVE  ActOK(e, x)'
    <2>1. CASE x = n
      BY <1>1, <1>2, <2>1 DEF ActOK, Of, Promised
    <2>2. CASE x # n /\ ~Active(e, x)
      BY <1>1, <2>2 DEF ActOK, Active
    <2>3. CASE x # n /\ Active(e, x)
      <3>1. PICK f \in Fp : f = Act(e, x).fp
        BY <2>3, ActiveOK DEF Action
      <3>2. f # a.fp /\ done'[f] = done[f]
        BY <1>3, <2>3, <3>1, ActiveOK
      <3>3. \A g \in Fp : Alive(x, g)' => Alive(x, g)
        BY <2>3
      <3>4. Reuse # {} => \A g \in Fp : done[g] \subseteq done'[g]
        OBVIOUS
      <3>5. Act(e, x)' = Act(e, x) /\ job'[e].at = "build"
        BY <1>1, <2>3
      <3>6. Act(e, x).change # "removed" => Promised(x, Act(e, x))'
        BY <2>3, <3>1, <3>2, <3>3, <3>4, <3>5, ActiveOK, SiblingStays
      <3> QED
        BY <2>3, <3>5, <3>6, ActiveOK DEF ActOK, Of
    <2> QED
      BY <2>1, <2>2, <2>3
  <1>8. \A x \in Name, f \in Fp : Alive(x, f)' => Alive(x, f) \/ VersionOK(x, f)'
    OBVIOUS
  <1> QED
    BY <1>6, <1>7, <1>8, ApplyKeeps

LEMMA StageOf ==
    ASSUME DataInv, NEW e \in Env, NEW n \in Name, NEW stage, stage # "built", At(e, n, stage)
    PROVE  /\ job[e].at = "build" /\ Active(e, n) /\ Act(e, n) \in Action
           /\ Act(e, n).stage = stage /\ Act(e, n).change # "removed"
           /\ Promised(n, Act(e, n))
  BY ActiveOK DEF At, Act, Active

LEMMA InheritData ==
    ASSUME Undisturbed, DataInv, NEW e \in Env, NEW n \in Name, Inherit(e, n)
    PROVE  DataOK'
  <1>1. ApplySteps(e) /\ At(e, n, "inherit") /\ UNCHANGED <<rows, snap, table>>
    BY DEF ApplySteps, Inherit, MarkDone
  <1>2. PICK a \in Action : a = Act(e, n) /\ a # None
    BY <1>1, StageOf DEF Active
  <1>3. /\ job[e].at = "build" /\ Active(e, n) /\ a.stage = "inherit"
        /\ a.change # "removed" /\ Promised(n, a)
    BY <1>1, <1>2, StageOf
  <1>4. PICK b \in Action : b = [a EXCEPT !.stage = "create"]
    BY DEF Action
  <1>5. /\ b.fp = a.fp /\ b.pfp = a.pfp /\ b.from = a.from /\ b.change = a.change
        /\ b.stage = "create" /\ b.todo = a.todo /\ b.loaded = a.loaded
        /\ a.fp \in Fp /\ a.from \in Fp \cup {None} /\ b # None
    BY <1>4, NoneAssumption DEF Action
  <1>6. Move(e, n, b) /\ MarkDone(a.fp, IF a.from = None THEN {} ELSE done[a.from])
    BY <1>2, <1>4 DEF Inherit, Act
  <1>7. /\ \A f \in Fp : f # a.fp => done'[f] = done[f]
        /\ done'[a.fp] = done[a.fp] \cup IF a.from = None THEN {} ELSE done[a.from]
    BY <1>5, <1>6 DEF MarkDone, DataInv, WarehouseInv, TypeOK, StoreTypeOK
  <1>8. /\ Act(e, n)' = b /\ job'[e].at = "build"
    BY <1>3, <1>6, Moved, TypesOf DEF DataInv
  <1>9. /\ \A x \in Name, f \in Fp : Alive(x, f)' = Alive(x, f) /\ Physics(x, f)' = Physics(x, f)
        /\ \A x, p : Exists(x, p)' = Exists(x, p)
        /\ \A x, p, i : Holds(x, p, i)' = Holds(x, p, i)
        /\ Grows
    BY <1>1 DEF Alive, Physics, Exists, Holds, Grows
  <1>10. Kind[n] = "incremental" /\ ~Alive(n, a.fp) => done[a.fp] = {}
    <2> SUFFICES ASSUME NEW d \in Env, Inheriting(d, n, a.fp)
                 PROVE  FALSE
      BY <1>3, <1>5, <1>2, ActiveOK DEF DataInv, DataOK, Unborn
    <2>1. d = e
      BY Reused DEF Inheriting, Solo
    <2> QED
      BY <1>2, <1>3, <2>1 DEF Inheriting
  <1>11. Staged(n, a) /\ Sourced(n, a) /\ Marked(n, a)
    BY <1>3 DEF Promised
  <1>12. Promised(n, b)'
    <2>1. Staged(n, b)'
      BY <1>3, <1>5, <1>9, <1>11 DEF Staged
    <2>2. Sourced(n, b)'
      <3>1. CASE a.from = None
        BY <1>5, <1>9, <1>11, <3>1 DEF Sourced
      <3>2. CASE a.from # None
        <4>1. a.from # a.fp /\ ~Alive(n, a.fp) /\ Alive(n, a.from) /\ a.pfp = Physics(n, a.from)
          BY <1>3, <1>11, <3>2 DEF Sourced
        <4>2. VersionOK(n, a.from)
          BY <1>5, <3>2 DEF DataInv, DataOK
        <4>3. Kind[n] = "incremental" => \A i \in done'[a.fp] : Holds(n, a.pfp, i)
          BY <1>7, <1>10, <3>2, <4>1, <4>2 DEF VersionOK
        <4> QED
          BY <1>5, <1>9, <3>2, <4>1, <4>3 DEF Sourced
      <3> QED
        BY <3>1, <3>2
    <2>3. Marked(n, b)'
      BY <1>3, <1>5, <1>7, <1>11 DEF Marked
    <2> QED
      BY <2>1, <2>2, <2>3 DEF Promised
  <1>13. Kind[n] = "incremental" /\ Alive(n, a.fp) =>
             \A i \in done'[a.fp] : i \in done[a.fp] \/ Holds(n, Physics(n, a.fp), i)'
    BY <1>3, <1>7, <1>11 DEF Sourced
  <1>14. Kind[n] = "incremental" /\ ~Alive(n, a.fp)' /\ (done[a.fp] = {} \/ Inheriting(e, n, a.fp))
             => done'[a.fp] = {} \/ Inheriting(e, n, a.fp)'
    <2>1. a.from # None => Inheriting(e, n, a.fp)'
      BY <1>3, <1>5, <1>8 DEF Inheriting, Active
    <2> QED
      BY <1>5, <1>7, <1>9, <1>10, <2>1
  <1>15. ~Filling(e, n, a.fp)
    BY <1>2, <1>3 DEF Filling
  <1>16. /\ Reuse # {} /\ Kind[n] = "incremental" /\ Alive(n, a.fp)'
         /\ Alive(n, a.fp) => Interval \subseteq done[a.fp] \/ Filling(e, n, a.fp)
         => Interval \subseteq done'[a.fp] \/ Filling(e, n, a.fp)'
    BY <1>5, <1>7, <1>9, <1>15
  <1>17. \A x \in Name, f \in Fp : Alive(x, f)' =>
             Alive(x, f) \/ (x = n /\ f = a.fp /\ VersionOK(n, f)')
    BY <1>9
  <1>18. Act(e, n) = a /\ b.fp = a.fp /\ b.change = a.change
         /\ (\A f \in Fp : f # a.fp => done'[f] = done[f])
         /\ (Reuse # {} => done[a.fp] \subseteq done'[a.fp]) /\ rows' = rows /\ Grows
    BY <1>1, <1>2, <1>5, <1>7, <1>9
  <1> QED
    BY <1>1, <1>2, <1>3, <1>6, <1>12, <1>13, <1>14, <1>16, <1>17, <1>18, StageKeeps

\* A step of model n that changes a table and no more.
LEMMA TableKeeps ==
    ASSUME Undisturbed, DataInv, NEW e \in Env, ApplySteps(e), NEW n \in Name,
           NEW a \in Action, NEW b \in Action, job[e].at = "build", Act(e, n) = a, a # None,
           a.change # "removed", b.fp = a.fp, b.change = a.change, b.from = a.from,
           Move(e, n, b), Promised(n, b)', UNCHANGED storeVars, Grows,
           a.stage = "create" => b.stage = "register",
           a.stage = "fill" => b.stage = "fill", a.stage # "register"
    PROVE  DataOK'
  <1>1. UNCHANGED <<snap, rows, done>>
    BY DEF storeVars
  <1>2. \A x \in Name, f \in Fp : Alive(x, f)' = Alive(x, f)
    BY <1>1 DEF Alive
  <1>3. b # None /\ Act(e, n)' = b /\ job'[e].at = "build"
    BY Moved, TypesOf, NoneAssumption DEF DataInv
  <1>4. /\ Inheriting(e, n, a.fp) => Inheriting(e, n, a.fp)'
        /\ Filling(e, n, a.fp) => Filling(e, n, a.fp)'
    BY <1>3 DEF Inheriting, Filling, Active
  <1>5. \A x \in Name, f \in Fp : Alive(x, f)' =>
             Alive(x, f) \/ (x = n /\ f = a.fp /\ VersionOK(n, f)')
    BY <1>2
  <1>6. /\ (\A f \in Fp : f # a.fp => done'[f] = done[f])
        /\ (Reuse # {} => done[a.fp] \subseteq done'[a.fp]) /\ rows' = rows
    BY <1>1
  <1>7. a.fp \in Fp
    BY DEF Action
  <1>8. Kind[n] = "incremental" /\ Alive(n, a.fp) =>
             \A i \in done'[a.fp] : i \in done[a.fp] \/ Holds(n, Physics(n, a.fp), i)'
    BY <1>1
  <1>9. Kind[n] = "incremental" /\ ~Alive(n, a.fp)' /\ (done[a.fp] = {} \/ Inheriting(e, n, a.fp))
             => done'[a.fp] = {} \/ Inheriting(e, n, a.fp)'
    BY <1>1, <1>4
  <1>10. /\ Reuse # {} /\ Kind[n] = "incremental" /\ Alive(n, a.fp)'
         /\ Alive(n, a.fp) => Interval \subseteq done[a.fp] \/ Filling(e, n, a.fp)
         => Interval \subseteq done'[a.fp] \/ Filling(e, n, a.fp)'
    BY <1>1, <1>2, <1>4, <1>7
  <1> QED
    BY <1>5, <1>6, <1>8, <1>9, <1>10, StageKeeps

LEMMA CreateEmptyData ==
    ASSUME Undisturbed, DataInv, NEW e \in Env, NEW n \in Name, CreateEmpty(e, n)
    PROVE  DataOK'
  <1>1. ApplySteps(e) /\ At(e, n, "create") /\ Kind[n] = "incremental" /\ UNCHANGED storeVars
    BY DEF ApplySteps, CreateEmpty
  <1>2. PICK a \in Action : a = Act(e, n) /\ a # None
    BY <1>1, StageOf DEF Active
  <1>3. job[e].at = "build" /\ a.stage = "create" /\ a.change # "removed" /\ Promised(n, a)
    BY <1>1, <1>2, StageOf
  <1>4. PICK b \in Action : b = [a EXCEPT !.stage = "register"]
    BY DEF Action
  <1>5. /\ b.fp = a.fp /\ b.pfp = a.pfp /\ b.from = a.from /\ b.change = a.change
        /\ b.stage = "register" /\ b.todo = a.todo /\ b.loaded = a.loaded
        /\ a.fp \in Fp /\ a.pfp \in Fp
        /\ a.todo \subseteq Interval /\ a.loaded \subseteq Interval
    BY <1>4 DEF Action
  <1>6. Move(e, n, b)
        /\ table' = [table EXCEPT ![<<n, a.pfp>>] = IF @ = None THEN {} ELSE @]
    BY <1>2, <1>4 DEF CreateEmpty, Act
  <1>7. table \in [Key -> (SUBSET Interval) \cup {None}] /\ <<n, a.pfp>> \in Key
    BY <1>5 DEF DataInv, WarehouseInv, TypeOK, Key
  <1>8. Grows /\ Exists(n, a.pfp)'
    BY <1>6, <1>7, NoneAssumption DEF Grows, Exists, Holds, Key
  <1>9. \A f \in Fp : Alive(n, f)' = Alive(n, f) /\ Physics(n, f)' = Physics(n, f) /\ done' = done
    BY <1>1 DEF storeVars, Alive, Physics
  <1>10. Staged(n, b)'
    BY <1>1, <1>3, <1>5, <1>8, <1>9 DEF Promised, Staged, Grows
  <1>11. Sourced(n, b)'
    <2>1. a.from # None => a.from \in Fp
      BY DEF Action
    <2>2. done[a.fp] \subseteq Interval
      BY <1>5, TypesOf DEF DataInv
    <2> QED
      BY <1>3, <1>5, <1>8, <1>9, <2>1, <2>2 DEF Promised, Sourced, Grows
  <1>12. Marked(n, b)'
    BY <1>3, <1>5, <1>9 DEF Promised, Marked
  <1>13. Promised(n, b)'
    BY <1>10, <1>11, <1>12 DEF Promised
  <1> QED
    BY <1>1, <1>2, <1>3, <1>5, <1>6, <1>8, <1>13, TableKeeps

LEMMA CreateFullData ==
    ASSUME Undisturbed, DataInv, NEW e \in Env, NEW n \in Name, CreateFull(e, n)
    PROVE  DataOK'
  <1>1. ApplySteps(e) /\ At(e, n, "create") /\ Kind[n] = "full" /\ UNCHANGED storeVars
    BY DEF ApplySteps, CreateFull
  <1>2. PICK a \in Action : a = Act(e, n) /\ a # None
    BY <1>1, StageOf DEF Active
  <1>3. job[e].at = "build" /\ a.stage = "create" /\ a.change # "removed" /\ Promised(n, a)
    BY <1>1, <1>2, StageOf
  <1>4. PICK b \in Action : b = [a EXCEPT !.stage = "register"]
    BY DEF Action
  <1>5. /\ b.fp = a.fp /\ b.pfp = a.pfp /\ b.from = a.from /\ b.change = a.change
        /\ b.stage = "register" /\ b.todo = a.todo /\ b.loaded = a.loaded
        /\ a.fp \in Fp /\ a.pfp \in Fp /\ a.from \in Fp \cup {None}
    BY <1>4 DEF Action
  <1>6. Move(e, n, b)
        /\ IF a.from = None THEN table' = [table EXCEPT ![<<n, a.pfp>>] = Interval]
                            ELSE Exists(n, a.pfp) /\ UNCHANGED table
    BY <1>2, <1>4 DEF CreateFull, Act
  <1>7. table \in [Key -> (SUBSET Interval) \cup {None}] /\ <<n, a.pfp>> \in Key
    BY <1>5 DEF DataInv, WarehouseInv, TypeOK, Key
  <1>8. Grows
    BY <1>6, <1>7, NoneAssumption DEF Grows, Exists, Holds, Key
  <1>9. \A i \in Interval : Exists(n, a.pfp)' /\ Holds(n, a.pfp, i)'
    <2>1. CASE a.from = None
      BY <1>6, <1>7, <2>1, NoneAssumption DEF Exists, Holds
    <2>2. CASE a.from # None
      <3>1. Alive(n, a.from) /\ a.pfp = Physics(n, a.from)
        BY <1>3, <2>2 DEF Promised, Sourced
      <3>2. VersionOK(n, a.from)
        BY <1>5, <2>2 DEF DataInv, DataOK
      <3>3. \A i \in Interval : Exists(n, a.pfp) /\ Holds(n, a.pfp, i)
        BY <1>1, <3>1, <3>2 DEF VersionOK
      <3> QED
        BY <1>5, <1>8, <3>3 DEF Grows
    <2> QED
      BY <2>1, <2>2
  <1>10. Exists(n, a.pfp)'
    <2>1. CASE a.from = None
      BY <1>6, <1>7, <2>1, NoneAssumption DEF Exists
    <2>2. CASE a.from # None
      BY <1>6, <2>2 DEF Exists
    <2> QED
      BY <2>1, <2>2
  <1>11. \A f \in Fp : Alive(n, f)' = Alive(n, f) /\ Physics(n, f)' = Physics(n, f)
    BY <1>1 DEF storeVars, Alive, Physics
  <1>12. Staged(n, b)'
    BY <1>1, <1>3, <1>5, <1>9, <1>10 DEF Promised, Staged
  <1>13. Sourced(n, b)' /\ Marked(n, b)'
    BY <1>1, <1>3, <1>5, <1>11 DEF Promised, Sourced, Marked
  <1>14. Promised(n, b)'
    BY <1>12, <1>13 DEF Promised
  <1> QED
    BY <1>1, <1>2, <1>3, <1>5, <1>6, <1>8, <1>14, TableKeeps

LEMMA LoadData ==
    ASSUME Undisturbed, DataInv, NEW e \in Env, NEW n \in Name, NEW i \in Interval, Load(e, n, i)
    PROVE  DataOK'
  <1>1. ApplySteps(e) /\ At(e, n, "fill") /\ UNCHANGED storeVars
    BY DEF ApplySteps, Load
  <1>2. PICK a \in Action : a = Act(e, n) /\ a # None
    BY <1>1, StageOf DEF Active
  <1>3. job[e].at = "build" /\ a.stage = "fill" /\ a.change # "removed" /\ Promised(n, a)
    BY <1>1, <1>2, StageOf
  <1>4. PICK b \in Action : b = [a EXCEPT !.todo = @ \ {i}, !.loaded = @ \cup {i}]
    BY DEF Action
  <1>5. /\ b.fp = a.fp /\ b.pfp = a.pfp /\ b.from = a.from /\ b.change = a.change
        /\ b.stage = "fill" /\ b.todo = a.todo \ {i} /\ b.loaded = a.loaded \cup {i}
        /\ a.fp \in Fp /\ a.pfp \in Fp
        /\ a.todo \subseteq Interval /\ a.loaded \subseteq Interval
    BY <1>3, <1>4 DEF Action
  <1>6. Move(e, n, b) /\ i \in a.todo /\ Exists(n, a.pfp)
        /\ table' = [table EXCEPT ![<<n, a.pfp>>] = @ \cup {i}]
    BY <1>2, <1>4 DEF Load, Act
  <1>7. table \in [Key -> (SUBSET Interval) \cup {None}] /\ <<n, a.pfp>> \in Key
    BY <1>5 DEF DataInv, WarehouseInv, TypeOK, Key
  <1>8. table[<<n, a.pfp>>] \in SUBSET Interval
        /\ table[<<n, a.pfp>>] \cup {i} # None /\ table'[<<n, a.pfp>>] = table[<<n, a.pfp>>] \cup {i}
    <2>1. table[<<n, a.pfp>>] \in SUBSET Interval
      BY <1>6, <1>7 DEF Exists
    <2>2. table[<<n, a.pfp>>] \cup {i} \in SUBSET Interval
      BY <2>1
    <2> QED
      BY <1>6, <1>7, <2>1, <2>2, NoneAssumption
  <1>9. Grows /\ Holds(n, a.pfp, i)'
    BY <1>6, <1>7, <1>8 DEF Grows, Exists, Holds, Key
  <1>10. \A f \in Fp : Alive(n, f)' = Alive(n, f) /\ Physics(n, f)' = Physics(n, f) /\ done' = done
    BY <1>1 DEF storeVars, Alive, Physics
  <1>11. Kind[n] # "full" /\ Exists(n, a.pfp)'
    BY <1>3, <1>5, <1>6, <1>9 DEF Promised, Staged, Grows
  <1>12. Staged(n, b)'
    <2>1. Staged(n, a)
      BY <1>3 DEF Promised
    <2>2. Kind[n] = "incremental" =>
            /\ \A j \in Interval : j \in b.todo \/ Holds(n, a.pfp, j)'
            /\ \A j \in b.loaded : Holds(n, a.pfp, j)'
      BY <1>5, <1>9, <2>1 DEF Staged, Grows
    <2> QED
      BY <1>3, <1>5, <1>10, <1>11, <2>1, <2>2 DEF Staged
  <1>13. Sourced(n, b)' /\ Marked(n, b)'
    BY <1>3, <1>5, <1>10 DEF Promised, Sourced, Marked
  <1>14. Promised(n, b)'
    BY <1>12, <1>13 DEF Promised
  <1> QED
    BY <1>1, <1>2, <1>3, <1>5, <1>6, <1>9, <1>14, TableKeeps

LEMMA RegisterData ==
    ASSUME Undisturbed, DataInv, NEW e \in Env, NEW n \in Name, Register(e, n)
    PROVE  DataOK'
  <1>1. ApplySteps(e) /\ At(e, n, "register") /\ UNCHANGED <<rows, done, table>>
    BY DEF ApplySteps, Register, UpsertSnapshot
  <1>2. PICK a \in Action : a = Act(e, n) /\ a # None
    BY <1>1, StageOf DEF Active
  <1>3. /\ job[e].at = "build" /\ a.stage = "register" /\ a.change # "removed"
        /\ Staged(n, a) /\ Sourced(n, a) /\ Marked(n, a) /\ Of(n, a.fp)
    BY <1>1, <1>2, StageOf, ActiveOK DEF Promised
  <1>4. PICK b \in Action : b = [a EXCEPT !.stage = IF Settled(a) THEN "built" ELSE "fill"]
    BY DEF Action
  <1>5. /\ b.fp = a.fp /\ b.pfp = a.pfp /\ b.from = a.from /\ b.change = a.change
        /\ b.stage = IF a.todo = {} THEN "built" ELSE "fill"
        /\ b.todo = a.todo /\ b.loaded = a.loaded /\ a.loaded = {} /\ b # None
        /\ a.fp \in Fp /\ a.pfp \in Fp
    BY <1>3, <1>4, NoneAssumption DEF Action, Settled, Staged
  <1>6. Move(e, n, b) /\ UpsertSnapshot(n, a.fp, a.pfp)
    BY <1>2, <1>4 DEF Register, Act
  <1>7. snap \in [Key -> Snapshot \cup {None}] /\ <<n, a.fp>> \in Key
    BY <1>5 DEF DataInv, WarehouseInv, TypeOK, StoreTypeOK, Key
  <1>8. /\ \A x \in Name, f \in Fp : Alive(x, f)' => Alive(x, f) \/ (x = n /\ f = a.fp)
        /\ Alive(n, a.fp)' /\ Physics(n, a.fp)' = a.pfp
    <2> DEFINE s == [pfp |-> IF snap[<<n, a.fp>>] = None THEN a.pfp ELSE snap[<<n, a.fp>>].pfp,
                     created |-> "young", orphaned |-> "no"]
    <2>1. snap' = [snap EXCEPT ![<<n, a.fp>>] = s]
      BY <1>6 DEF UpsertSnapshot
    <2>2. s.pfp = a.pfp /\ s \in Snapshot
      BY <1>3, <1>5 DEF Sourced, Alive, Physics, Snapshot
    <2> HIDE DEF s
    <2> QED
      BY <1>7, <2>1, <2>2, StoreAssumption DEF Alive, Physics, Key
  <1>9. /\ Act(e, n)' = b /\ job'[e].at = "build"
    BY <1>3, <1>6, Moved, TypesOf DEF DataInv
  <1>10. /\ \A x, p : Exists(x, p)' = Exists(x, p)
         /\ \A x, p, i : Holds(x, p, i)' = Holds(x, p, i)
         /\ Grows
    BY <1>1 DEF Exists, Holds, Grows
  <1>11. ~Alive(n, a.fp) => VersionOK(n, a.fp)'
    <2>1. ~Alive(n, a.fp) /\ Kind[n] = "incremental" => \A i \in done[a.fp] : Holds(n, a.pfp, i)
      <3> SUFFICES ASSUME Kind[n] = "incremental", ~Alive(n, a.fp), done[a.fp] # {}
                   PROVE  \A i \in done[a.fp] : Holds(n, a.pfp, i)
        OBVIOUS
      <3>1. PICK d \in Env : Inheriting(d, n, a.fp)
        BY <1>3, <1>5 DEF DataInv, DataOK, Unborn
      <3>2. d = e
        BY <3>1, Reused DEF Inheriting, Solo
      <3>3. a.from # None
        BY <1>2, <3>1, <3>2 DEF Inheriting
      <3> QED
        BY <1>3, <3>3 DEF Sourced
    <2>2. PICK p \in Fp : p = a.pfp
      BY <1>5
    <2>3. /\ Exists(n, p) /\ (Reuse = {} => p = a.fp)
          /\ Kind[n] = "full" => \A i \in Interval : Holds(n, p, i)
      BY <1>3, <2>2 DEF Staged
    <2> QED
      BY <1>1, <1>3, <1>8, <1>10, <2>1, <2>2, <2>3 DEF VersionOK, Of
  <1>12. Promised(n, b)'
    <2>1. Staged(n, b)'
      BY <1>3, <1>5, <1>8, <1>10 DEF Staged
    <2>2. Sourced(n, b)'
      BY <1>3, <1>5, <1>8 DEF Sourced
    <2>3. Marked(n, b)'
      BY <1>1, <1>3, <1>5 DEF Marked
    <2> QED
      BY <2>1, <2>2, <2>3 DEF Promised
  <1>13. \A x \in Name, f \in Fp : Alive(x, f)' =>
             Alive(x, f) \/ (x = n /\ f = a.fp /\ VersionOK(n, f)')
    <2> SUFFICES ASSUME NEW x \in Name, NEW f \in Fp, Alive(x, f)', ~Alive(x, f)
                 PROVE  x = n /\ f = a.fp /\ VersionOK(n, f)'
      OBVIOUS
    <2>1. x = n /\ f = a.fp
      BY <1>8
    <2> QED
      BY <1>11, <2>1
  <1>14. Kind[n] = "incremental" /\ Alive(n, a.fp) =>
             \A i \in done'[a.fp] : i \in done[a.fp] \/ Holds(n, Physics(n, a.fp), i)'
    BY <1>1
  <1>15. Kind[n] = "incremental" /\ ~Alive(n, a.fp)' /\ (done[a.fp] = {} \/ Inheriting(e, n, a.fp))
             => done'[a.fp] = {} \/ Inheriting(e, n, a.fp)'
    BY <1>8
  <1>16. Reuse # {} /\ Kind[n] = "incremental" => Interval \subseteq done'[a.fp] \/ Filling(e, n, a.fp)'
    <2>1. CASE a.todo = {}
      BY <1>1, <1>3, <1>5, <2>1 DEF Marked
    <2>2. CASE a.todo # {}
      BY <1>3, <1>5, <1>9, <2>2 DEF Filling, Active
    <2> QED
      BY <2>1, <2>2
  <1>17. /\ Reuse # {} /\ Kind[n] = "incremental" /\ Alive(n, a.fp)'
         /\ Alive(n, a.fp) => Interval \subseteq done[a.fp] \/ Filling(e, n, a.fp)
         => Interval \subseteq done'[a.fp] \/ Filling(e, n, a.fp)'
    BY <1>16
  <1>18. Act(e, n) = a /\ b.fp = a.fp /\ b.change = a.change
         /\ (\A f \in Fp : f # a.fp => done'[f] = done[f])
         /\ (Reuse # {} => done[a.fp] \subseteq done'[a.fp]) /\ rows' = rows /\ Grows
    BY <1>1, <1>2, <1>5, <1>10
  <1> QED
    BY <1>1, <1>2, <1>3, <1>6, <1>12, <1>13, <1>14, <1>15, <1>17, <1>18, StageKeeps

LEMMA SettleData ==
    ASSUME Undisturbed, DataInv, NEW e \in Env, NEW n \in Name, NEW i \in Interval, Settle(e, n, i)
    PROVE  DataOK'
  <1>1. ApplySteps(e) /\ At(e, n, "fill") /\ UNCHANGED <<rows, snap, table>>
    BY DEF ApplySteps, Settle, MarkDone
  <1>2. PICK a \in Action : a = Act(e, n) /\ a # None
    BY <1>1, StageOf DEF Active
  <1>3. /\ job[e].at = "build" /\ Active(e, n) /\ a.stage = "fill" /\ a.change # "removed"
        /\ Staged(n, a) /\ Sourced(n, a) /\ Marked(n, a)
    BY <1>1, <1>2, StageOf DEF Promised
  <1>4. PICK c \in Action : c = [a EXCEPT !.loaded = @ \ {i}]
    BY DEF Action
  <1>5. PICK b \in Action : b = [c EXCEPT !.stage = IF Settled(c) THEN "built" ELSE @]
    BY DEF Action
  <1>6. /\ b.fp = a.fp /\ b.pfp = a.pfp /\ b.from = a.from /\ b.change = a.change
        /\ b.todo = a.todo /\ b.loaded = a.loaded \ {i} /\ b # None
        /\ b.stage = IF a.todo = {} /\ b.loaded = {} THEN "built" ELSE "fill"
        /\ a.fp \in Fp /\ a.pfp \in Fp
    <2>1. /\ c.fp = a.fp /\ c.pfp = a.pfp /\ c.from = a.from /\ c.change = a.change
          /\ c.todo = a.todo /\ c.loaded = a.loaded \ {i} /\ c.stage = "fill"
      BY <1>3, <1>4 DEF Action
    <2>2. /\ b.fp = c.fp /\ b.pfp = c.pfp /\ b.from = c.from /\ b.change = c.change
          /\ b.todo = c.todo /\ b.loaded = c.loaded /\ b.stage = IF Settled(c) THEN "built" ELSE c.stage
      BY <1>5 DEF Action
    <2> QED
      BY <2>1, <2>2, NoneAssumption DEF Settled, Action
  <1>7. Move(e, n, b) /\ MarkDone(a.fp, {i}) /\ i \in a.loaded
    BY <1>2, <1>4, <1>5 DEF Settle, Act
  <1>8. /\ \A f \in Fp : f # a.fp => done'[f] = done[f]
        /\ done'[a.fp] = done[a.fp] \cup {i}
    BY <1>6, <1>7 DEF MarkDone, DataInv, WarehouseInv, TypeOK, StoreTypeOK
  <1>9. /\ Act(e, n)' = b /\ job'[e].at = "build"
    BY <1>3, <1>7, Moved, TypesOf DEF DataInv
  <1>10. /\ \A x \in Name, f \in Fp : Alive(x, f)' = Alive(x, f) /\ Physics(x, f)' = Physics(x, f)
         /\ \A x, p : Exists(x, p)' = Exists(x, p)
         /\ \A x, p, j : Holds(x, p, j)' = Holds(x, p, j)
         /\ Grows
    BY <1>1 DEF Alive, Physics, Exists, Holds, Grows
  <1>11. Alive(n, a.fp) /\ a.pfp = Physics(n, a.fp)
    BY <1>3 DEF Staged, Sourced
  <1>12. Promised(n, b)'
    <2>1. Staged(n, b)'
      BY <1>3, <1>6, <1>10, <1>11 DEF Staged
    <2>2. Sourced(n, b)'
      BY <1>3, <1>6, <1>10, <1>11 DEF Sourced
    <2>3. Marked(n, b)'
      BY <1>3, <1>6, <1>8 DEF Marked
    <2> QED
      BY <2>1, <2>2, <2>3 DEF Promised
  <1>13. \A x \in Name, f \in Fp : Alive(x, f)' =>
             Alive(x, f) \/ (x = n /\ f = a.fp /\ VersionOK(n, f)')
    BY <1>10
  <1>14. Kind[n] = "incremental" /\ Alive(n, a.fp) =>
             \A j \in done'[a.fp] : j \in done[a.fp] \/ Holds(n, Physics(n, a.fp), j)'
    <2> SUFFICES ASSUME Kind[n] = "incremental"
                 PROVE  Holds(n, Physics(n, a.fp), i)'
      BY <1>8
    <2>1. Holds(n, a.pfp, i)
      BY <1>3, <1>7 DEF Staged
    <2> QED
      BY <1>1, <1>11, <2>1 DEF Holds, Exists, Physics
  <1>15. Kind[n] = "incremental" /\ ~Alive(n, a.fp)' /\ (done[a.fp] = {} \/ Inheriting(e, n, a.fp))
             => done'[a.fp] = {} \/ Inheriting(e, n, a.fp)'
    BY <1>6, <1>10, <1>11
  <1>16. Reuse # {} /\ Kind[n] = "incremental" => Interval \subseteq done'[a.fp] \/ Filling(e, n, a.fp)'
    <2>1. CASE a.todo = {} /\ b.loaded = {}
      BY <1>3, <1>6, <1>8, <2>1 DEF Marked
    <2>2. CASE ~(a.todo = {} /\ b.loaded = {})
      BY <1>3, <1>6, <1>9, <2>2 DEF Filling, Active
    <2> QED
      BY <2>1, <2>2
  <1>17. /\ Reuse # {} /\ Kind[n] = "incremental" /\ Alive(n, a.fp)'
         /\ Alive(n, a.fp) => Interval \subseteq done[a.fp] \/ Filling(e, n, a.fp)
         => Interval \subseteq done'[a.fp] \/ Filling(e, n, a.fp)'
    BY <1>16
  <1>18. Act(e, n) = a /\ b.fp = a.fp /\ b.change = a.change
         /\ (\A f \in Fp : f # a.fp => done'[f] = done[f])
         /\ (Reuse # {} => done[a.fp] \subseteq done'[a.fp]) /\ rows' = rows /\ Grows
    BY <1>1, <1>2, <1>6, <1>8, <1>10
  <1> QED
    BY <1>1, <1>2, <1>3, <1>7, <1>12, <1>13, <1>14, <1>15, <1>17, <1>18, StageKeeps

\* A batch that fails: only where nothing is reused.
LEMMA FailsData ==
    ASSUME Undisturbed, DataInv, NEW e \in Env, NEW n \in Name, NEW i \in Interval, BatchFails(e, n, i)
    PROVE  DataOK'
  <1>1. ApplySteps(e) /\ At(e, n, "fill") /\ UNCHANGED <<rows, snap, table>> /\ job' = [job EXCEPT ![e] = NoJob]
    BY DEF ApplySteps, BatchFails, MarkNotDone
  <1>2. Exists(n, Act(e, n).pfp) /\ Act(e, n).fp \in Fp
    BY <1>1, StageOf DEF Promised, Staged, Action
  <1>3. Reuse = {}
    BY <1>2 DEF BatchFails, Undisturbed, Solo, Act
  <1>4. \A f \in Fp : done'[f] \subseteq done[f]
    BY <1>2 DEF BatchFails, MarkNotDone, Act, DataInv, WarehouseInv, TypeOK, StoreTypeOK
  <1>5. /\ \A x \in Name, f \in Fp : Alive(x, f)' = Alive(x, f)
        /\ Grows
    BY <1>1 DEF Alive, Exists, Holds, Grows
  <1>6. \A x \in Name : ActOK(e, x)'
    BY <1>1, NoJobTyped, TypesOf DEF DataInv, JobTypeOK, ActOK, Active
  <1>7. \A x \in Name, f \in Fp : ~Inheriting(e, x, f)
    BY <1>3 DEF DataInv, DataOK, ActOK, Promised, Staged, Inheriting
  <1>8. \A x \in Name, f \in Fp : Kind[x] = "incremental" /\ Alive(x, f) =>
            \A j \in done'[f] : j \in done[f] \/ Holds(x, Physics(x, f), j)'
    BY <1>4
  <1>9. \A x \in Name, f \in Fp :
            /\ Kind[x] = "incremental" /\ Of(x, f) /\ ~Alive(x, f)'
            /\ done[f] = {} \/ Inheriting(e, x, f)
            => done'[f] = {} \/ Inheriting(e, x, f)'
    BY <1>4, <1>7
  <1> QED
    BY <1>1, <1>3, <1>5, <1>6, <1>8, <1>9, ApplyKeeps

\* promote: what the environment serves from now on was built.
LEMMA PromoteData ==
    ASSUME Undisturbed, DataInv, NEW e \in Env, PromoteEnv(e) \/ CommitPromote(e)
    PROVE  DataOK'
  <1>1. /\ ApplySteps(e) /\ UNCHANGED <<done, table>> /\ job' = [job EXCEPT ![e] = NoJob]
        /\ rows' = [rows EXCEPT ![e] = Entries(e)]
        /\ job[e].at \in {"views", "checked"}
        /\ snap' = [k \in Key |-> IF snap[k] = None THEN None
                                 ELSE Remarked(snap[k], k[2] \in Referenced(rows'))]
    BY DEF ApplySteps, PromoteEnv, CommitPromote, Promote, ReplaceEnv, Swapped
  <1>2. /\ \A x \in Name, f \in Fp : Alive(x, f)' => Alive(x, f)
        /\ Grows
    BY <1>1 DEF Alive, Exists, Holds, Grows, Key
  <1>3. \A x \in Name : ActOK(e, x)'
    BY <1>1, NoJobTyped, TypesOf DEF DataInv, JobTypeOK, ActOK, Active
  <1>4. \A x \in Name, f \in Fp : ~Inheriting(e, x, f) /\ ~Filling(e, x, f)
    BY <1>1, ActiveOK DEF Inheriting, Filling
  <1>5. ASSUME NEW x \in Name
        PROVE  rows'[e][x] = None \/ RowOK(e, x)'
    <2>1. rows'[e] = Entries(e)
      BY <1>1 DEF DataInv, WarehouseInv, TypeOK, StoreTypeOK
    <2> SUFFICES ASSUME Entries(e)[x] # None
                 PROVE  RowOK(e, x)'
      BY <2>1
    <2>2. Active(e, x) /\ Act(e, x).change # "removed" /\ Entries(e)[x] = Act(e, x).fp
      BY <1>1 DEF Entries, Acts, Active, Act
    <2>3. PICK a \in Action : a = Act(e, x) /\ a.stage = "built" /\ Promised(x, a) /\ Of(x, a.fp)
      BY <1>1, <2>2, ActiveOK
    <2>4. a.fp \in Fp /\ a.pfp \in Fp
      BY DEF Action
    <2>5. Alive(x, a.fp) /\ a.pfp = Physics(x, a.fp)
      BY <2>3 DEF Promised, Staged, Sourced
    <2>6. \A i \in Interval : Holds(x, a.pfp, i)
      <3>1. CASE Kind[x] = "full"
        BY <2>4, <2>5, <3>1 DEF DataInv, DataOK, VersionOK
      <3>2. CASE Kind[x] = "incremental"
        BY <2>3, <3>2 DEF Promised, Staged
      <3> QED
        BY <3>1, <3>2, WarehouseAssumption
    <2>7. Physics(x, a.fp)' = a.pfp
      BY <1>1, <2>4, <2>5, PhysicsStays DEF DataInv
    <2>8. rows'[e][x] = a.fp
      BY <2>1, <2>2, <2>3
    <2> QED
      BY <1>1, <2>3, <2>6, <2>7, <2>8 DEF RowOK, Of, Holds, Exists
  <1>6. ASSUME NEW d \in Env, NEW x \in Name
        PROVE  rows'[d][x] = rows[d][x] \/ RowOK(d, x)'
    <2>1. CASE d = e
      BY <1>5, <2>1 DEF RowOK
    <2>2. CASE d # e
      BY <1>1, <2>2 DEF DataInv, WarehouseInv, TypeOK, StoreTypeOK
    <2> QED
      BY <2>1, <2>2
  <1>7. \A x \in Name, f \in Fp : Kind[x] = "incremental" /\ Alive(x, f) =>
            \A i \in done'[f] : i \in done[f] \/ Holds(x, Physics(x, f), i)'
    BY <1>1
  <1>8. \A x \in Name, f \in Fp :
            /\ Reuse # {} /\ Kind[x] = "incremental" /\ Alive(x, f)'
            /\ Alive(x, f) => Interval \subseteq done[f] \/ Filling(e, x, f)
            => Interval \subseteq done'[f] \/ Filling(e, x, f)'
    BY <1>1, <1>2, <1>4
  <1>9. \A x \in Name, f \in Fp :
            /\ Kind[x] = "incremental" /\ Of(x, f) /\ ~Alive(x, f)'
            /\ done[f] = {} \/ Inheriting(e, x, f)
            => done'[f] = {} \/ Inheriting(e, x, f)'
    BY <1>1, <1>4
  <1> QED
    BY <1>1, <1>2, <1>3, <1>6, <1>7, <1>8, <1>9, ApplyKeeps

-----------------------------------------------------------------------------
\* What a step has to keep while no apply is at work.
LEMMA IdleKeeps ==
    ASSUME Undisturbed, DataInv, Quiet, job' = job, rows' = rows,
           \A x \in Name, f \in Fp : Alive(x, f)' =>
               /\ Alive(x, f) /\ Physics(x, f)' = Physics(x, f) /\ done'[f] = done[f]
               /\ Exists(x, Physics(x, f)) => Exists(x, Physics(x, f))'
               /\ \A i \in Interval : Holds(x, Physics(x, f), i) => Holds(x, Physics(x, f), i)',
           \A x \in Name, f \in Fp : ~Alive(x, f)' => ~Alive(x, f) \/ done'[f] = {},
           \A f \in Fp : done'[f] \subseteq done[f],
           \A d \in Env, x \in Name : rows[d][x] # None => Alive(x, rows[d][x])',
           Dropping'
    PROVE  DataOK'
  <1>1. \A d \in Env, x \in Name : ~Active(d, x) /\ ~Active(d, x)'
    BY DEF Quiet, Active
  <1>2. \A d \in Env, x \in Name, f \in Fp : ~Inheriting(d, x, f) /\ ~Filling(d, x, f)
    BY <1>1 DEF Inheriting, Filling
  <1>3. ASSUME NEW x \in Name, NEW f \in Fp
        PROVE  VersionOK(x, f)' /\ Unborn(x, f)' /\ Finished(x, f)'
    <2>1. /\ VersionOK(x, f)
          /\ Kind[x] = "incremental" /\ Of(x, f) /\ ~Alive(x, f) => done[f] = {}
          /\ Reuse # {} /\ Kind[x] = "incremental" /\ Alive(x, f) => Interval \subseteq done[f]
          /\ done[f] \subseteq Interval
      BY <1>2, TypesOf DEF DataInv, DataOK, Unborn, Finished
    <2>2. VersionOK(x, f)'
      <3> SUFFICES ASSUME Alive(x, f)'
                   PROVE  VersionOK(x, f)'
        BY DEF VersionOK
      <3>1. /\ Physics(x, f)' = Physics(x, f) /\ done'[f] = done[f] /\ Exists(x, Physics(x, f))'
            /\ Of(x, f) /\ (Reuse = {} => Physics(x, f) = f)
            /\ Kind[x] = "full" => \A i \in Interval : Holds(x, Physics(x, f), i)'
            /\ Kind[x] = "incremental" => \A i \in done[f] : Holds(x, Physics(x, f), i)'
        BY <2>1 DEF VersionOK
      <3> QED
        BY <3>1 DEF VersionOK, Of
    <2>3. Unborn(x, f)'
      BY <2>1 DEF Unborn, Of
    <2>4. Finished(x, f)'
      BY <2>1 DEF Finished
    <2> QED
      BY <2>2, <2>3, <2>4
  <1>4. ASSUME NEW d \in Env, NEW x \in Name
        PROVE  ActOK(d, x)' /\ RowOK(d, x)'
    <2>1. ActOK(d, x)'
      BY <1>1 DEF ActOK
    <2>2. RowOK(d, x)'
      <3> SUFFICES ASSUME rows[d][x] # None
                   PROVE  RowOK(d, x)'
        BY DEF RowOK
      <3>1. PICK f \in Fp : f = rows[d][x] /\ Alive(x, f)'
        BY TypesOf DEF DataInv
      <3>2. RowOK(d, x)
        BY DEF DataInv, DataOK
      <3>3. Of(x, f) /\ \A i \in Interval : Holds(x, Physics(x, f), i)'
        BY <3>1, <3>2 DEF RowOK
      <3>4. rows'[d][x] = f
        BY <3>1
      <3> QED
        BY <3>3, <3>4 DEF RowOK, Of
    <2> QED
      BY <2>1, <2>2
  <1> QED
    BY <1>3, <1>4 DEF DataOK

LEMMA IdleSame ==
    ASSUME Undisturbed, DataInv, Quiet, job' = job, rows' = rows, done' = done,
           \A x \in Name, f \in Fp : (Alive(x, f)' <=> Alive(x, f))
               /\ (Alive(x, f) => Physics(x, f)' = Physics(x, f)),
           table' = table, Dropping'
    PROVE  DataOK'
  <1>1. ASSUME NEW x \in Name, NEW f \in Fp, Alive(x, f)'
        PROVE  /\ Alive(x, f) /\ Physics(x, f)' = Physics(x, f) /\ done'[f] = done[f]
               /\ Exists(x, Physics(x, f)) => Exists(x, Physics(x, f))'
               /\ \A i \in Interval : Holds(x, Physics(x, f), i) => Holds(x, Physics(x, f), i)'
    <2>1. Alive(x, f) /\ Physics(x, f)' = Physics(x, f)
      BY <1>1
    <2> QED
      BY <2>1 DEF Exists, Holds
  <1>2. \A d \in Env, x \in Name : rows[d][x] # None => Alive(x, rows[d][x])'
    <2> SUFFICES ASSUME NEW d \in Env, NEW x \in Name, rows[d][x] # None
                 PROVE  Alive(x, rows[d][x])'
      OBVIOUS
    <2>1. PICK f \in Fp : f = rows[d][x] /\ Alive(x, f)
      BY TypesOf DEF DataInv
    <2>2. Alive(x, f)'
      BY <2>1
    <2>3. rows'[d][x] = f
      BY <2>1
    <2> QED
      BY <2>2, <2>3 DEF Alive
  <1> QED
    BY <1>1, <1>2, IdleKeeps

LEMMA ClaimData ==
    ASSUME Undisturbed, DataInv, Quiet, NEW k \in Key, JanitorClaims(k)
    PROVE  DataOK'
  <1>1. PICK n \in Name, g \in Fp : k = <<n, g>>
    BY DEF Key
  <1>2. /\ Alive(n, g) /\ g \notin Referenced(rows) /\ snap' = [snap EXCEPT ![<<n, g>>] = None]
        /\ done' = [done EXCEPT ![g] = {}] /\ rows' = rows /\ job' = job /\ table' = table
        /\ jan'.at # "drop"
    BY <1>1 DEF JanitorClaims, DeleteSnapshotIfDoomed, Claimable, DataInv, WarehouseInv, TypeOK, Janitor
  <1>3. snap \in [Key -> Snapshot \cup {None}] /\ done \in [Fp -> SUBSET Interval] /\ StoreTypeOK
    BY DEF DataInv, WarehouseInv, TypeOK, StoreTypeOK
  <1>4. ASSUME NEW x \in Name, NEW f \in Fp, Alive(x, f)'
        PROVE  /\ Alive(x, f) /\ Physics(x, f)' = Physics(x, f) /\ done'[f] = done[f]
               /\ Exists(x, Physics(x, f)) => Exists(x, Physics(x, f))'
               /\ \A i \in Interval : Holds(x, Physics(x, f), i) => Holds(x, Physics(x, f), i)'
    <2>1. <<x, f>> # <<n, g>> /\ snap'[<<x, f>>] = snap[<<x, f>>]
      BY <1>2, <1>3, <1>4 DEF Alive, Key
    <2>2. Alive(x, f) /\ Physics(x, f)' = Physics(x, f)
      BY <1>4, <2>1 DEF Alive, Physics
    <2>3. f # g
      BY <1>2, <2>1, <2>2, OneNameOf DEF Undisturbed, DataInv, DataOK, VersionOK
    <2> QED
      BY <1>2, <1>3, <2>2, <2>3 DEF Exists, Holds
  <1>5. \A x \in Name, f \in Fp : ~Alive(x, f)' => ~Alive(x, f) \/ done'[f] = {}
    BY <1>2, <1>3 DEF Alive, Key
  <1>6. \A f \in Fp : done'[f] \subseteq done[f]
    BY <1>2, <1>3
  <1>7. \A d \in Env, x \in Name : rows[d][x] # None => Alive(x, rows[d][x])'
    <2> SUFFICES ASSUME NEW d \in Env, NEW x \in Name, rows[d][x] # None
                 PROVE  Alive(x, rows[d][x])'
      OBVIOUS
    <2>1. PICK f \in Fp : f = rows[d][x] /\ Alive(x, f)
      BY TypesOf DEF DataInv
    <2>2. f # g
      BY <1>2, <1>3, <2>1, RowReferenced
    <2>3. Alive(x, f)' /\ rows'[d][x] = f
      BY <1>2, <1>3, <2>1, <2>2 DEF Alive, Key
    <2> QED
      BY <2>3 DEF Alive
  <1> QED
    BY <1>2, <1>4, <1>5, <1>6, <1>7, IdleKeeps DEF Dropping

LEMMA DropData ==
    ASSUME Undisturbed, DataInv, Quiet, NEW c \in Key, JanitorDrops(c)
    PROVE  DataOK'
  <1>1. PICK n \in Name, q \in Fp : c = <<n, q>>
    BY DEF Key
  <1>2. /\ jan.at = "drop" /\ c \in jan.claimed /\ table' = [table EXCEPT ![<<n, q>>] = None]
        /\ UNCHANGED <<snap, done, rows, job>>
        /\ jan' = [jan EXCEPT !.claimed = {d \in @ : d[2] # c[2]}]
    BY <1>1 DEF JanitorDrops, storeVars
  <1>3. table \in [Key -> (SUBSET Interval) \cup {None}] /\ jan \in Janitor
    BY DEF DataInv, WarehouseInv, TypeOK
  <1>4. \A f \in Fp : Alive(n, f) => Physics(n, f) # q
    BY <1>1, <1>2 DEF DataInv, DataOK, Dropping
  <1>5. ASSUME NEW x \in Name, NEW f \in Fp, Alive(x, f)'
        PROVE  /\ Alive(x, f) /\ Physics(x, f)' = Physics(x, f) /\ done'[f] = done[f]
               /\ Exists(x, Physics(x, f)) => Exists(x, Physics(x, f))'
               /\ \A i \in Interval : Holds(x, Physics(x, f), i) => Holds(x, Physics(x, f), i)'
    <2>1. Alive(x, f) /\ Physics(x, f)' = Physics(x, f)
      BY <1>2, <1>5 DEF Alive, Physics
    <2>2. PICK p \in Fp : p = Physics(x, f)
      BY <2>1, TypesOf DEF DataInv
    <2>3. <<x, p>> # <<n, q>> /\ <<x, p>> \in Key
      BY <1>4, <2>1, <2>2 DEF Key
    <2>4. table'[<<x, p>>] = table[<<x, p>>]
      BY <1>2, <1>3, <2>3
    <2> QED
      BY <1>2, <2>1, <2>2, <2>4 DEF Exists, Holds
  <1>6. \A x \in Name, f \in Fp : Alive(x, f)' <=> Alive(x, f)
    BY <1>2 DEF Alive
  <1>7. \A d \in Env, x \in Name : rows[d][x] # None => Alive(x, rows[d][x])'
    BY <1>2, TypesOf DEF Alive, DataInv
  <1>8. Dropping'
    <2>1. jan'.claimed \subseteq jan.claimed /\ jan.claimed \subseteq Key
      BY <1>2, <1>3 DEF Janitor
    <2>2. \A d \in jan.claimed : \A f \in Fp : Alive(d[1], f) => Physics(d[1], f) # d[2]
      BY <1>2 DEF DataInv, DataOK, Dropping
    <2> QED
      BY <1>2, <2>1, <2>2 DEF Dropping, Alive, Physics
  <1> QED
    BY <1>2, <1>5, <1>6, <1>7, <1>8, IdleKeeps

LEMMA JanitorData ==
    ASSUME Undisturbed, DataInv, JanitorSteps
    PROVE  DataOK'
  <1>1. Quiet /\ job' = job
    BY JanitorStays DEF Undisturbed, DataInv, WarehouseInv, Apart
  <1>2. ASSUME NEW k \in Key, JanitorClaims(k)
        PROVE  DataOK'
    BY <1>1, <1>2, ClaimData
  <1>3. ASSUME NEW k \in Key, JanitorDrops(k)
        PROVE  DataOK'
    BY <1>1, <1>3, DropData
  <1>4. ASSUME UNCHANGED <<storeVars, table>>, Dropping'
        PROVE  DataOK'
    <2>1. /\ rows' = rows /\ done' = done /\ table' = table
          /\ \A x \in Name, f \in Fp : (Alive(x, f)' <=> Alive(x, f))
               /\ (Alive(x, f) => Physics(x, f)' = Physics(x, f))
      BY <1>4 DEF storeVars, Alive, Physics
    <2> QED
      BY <1>1, <1>4, <2>1, IdleSame
  <1>5. jan \in Janitor
    BY DEF DataInv, WarehouseInv, TypeOK
  <1>6. ASSUME JanitorLists \/ JanitorEnds \/ \E k \in Key : JanitorLosesClaim(k)
        PROVE  UNCHANGED <<storeVars, table>> /\ jan'.at # "drop"
    <2>1. CASE JanitorLists
      BY <2>1 DEF JanitorLists, NoJanitor
    <2>2. CASE JanitorEnds
      BY <2>2 DEF JanitorEnds, NoJanitor
    <2>3. CASE \E k \in Key : JanitorLosesClaim(k)
      BY <1>5, <2>3 DEF JanitorLosesClaim, Janitor
    <2> QED
      BY <1>6, <2>1, <2>2, <2>3
  <1>7. ASSUME JanitorSurveys
        PROVE  UNCHANGED <<storeVars, table>> /\ Dropping'
    <2>1. /\ UNCHANGED <<storeVars, table>> /\ UNCHANGED snap
          /\ jan'.claimed = {c \in jan.claimed : c[2] \notin PhysicalInUse}
          /\ jan.claimed \subseteq Key
      BY <1>5, <1>7 DEF JanitorSurveys, storeVars, Janitor
    <2>2. ASSUME NEW c \in jan'.claimed, NEW f \in Fp, Alive(c[1], f)
          PROVE  Physics(c[1], f) # c[2]
      <3>1. c[1] \in Name /\ c[2] \notin PhysicalInUse
        BY <2>1, <2>2 DEF Key
      <3>2. <<c[1], f>> \in Key /\ snap[<<c[1], f>>] # None
        BY <2>2, <3>1 DEF Key, Alive
      <3> QED
        BY <3>1, <3>2 DEF PhysicalInUse, Physics
    <2> QED
      BY <2>1, <2>2 DEF Dropping, Alive, Physics
  <1> QED
    BY <1>2, <1>3, <1>4, <1>6, <1>7 DEF JanitorSteps, Dropping

LEMMA TimeData ==
    ASSUME Undisturbed, DataInv, TimePasses
    PROVE  DataOK'
  <1>1. /\ Quiet /\ jan.at = "idle" /\ UNCHANGED <<rows, done, table, job, jan>>
        /\ snap' = [k \in Key |-> IF snap[k] = None THEN None ELSE Older(snap[k])]
    BY DEF TimePasses, TtlPasses
  <1>2. snap \in [Key -> Snapshot \cup {None}] /\ snap' \in [Key -> Snapshot \cup {None}]
    BY TimePassesOK DEF DataInv, WarehouseInv, StepOK, TypeOK, StoreTypeOK
  <1>3. ASSUME NEW x \in Name, NEW f \in Fp
        PROVE  /\ Alive(x, f)' <=> Alive(x, f)
               /\ Alive(x, f) => Physics(x, f)' = Physics(x, f)
    <2>1. snap'[<<x, f>>] = IF Alive(x, f) THEN Older(snap[<<x, f>>]) ELSE None
      BY <1>1 DEF Alive, Key
    <2>2. Alive(x, f) => Older(snap[<<x, f>>]) \in Snapshot
      BY <1>2 DEF Alive, Older, Aged, Snapshot, Key
    <2> QED
      BY <2>1, <2>2, StoreAssumption DEF Alive, Physics, Older
  <1> QED
    BY <1>1, <1>3, IdleSame DEF Dropping

LEMMA StutterData ==
    ASSUME DataInv, UNCHANGED vars
    PROVE  DataOK'
  <1>1. UNCHANGED <<snap, rows, done, table, job, jan>>
    BY DEF vars, storeVars
  <1>2. ASSUME NEW x \in Name, NEW f \in Fp
        PROVE  VersionOK(x, f)' /\ Unborn(x, f)' /\ Finished(x, f)'
    <2>1. VersionOK(x, f) /\ Unborn(x, f) /\ Finished(x, f)
      BY DEF DataInv, DataOK
    <2>2. VersionOK(x, f)'
      BY <1>1, <2>1 DEF VersionOK, Of, Physics, Holds, Exists, Alive
    <2>3. Unborn(x, f)' /\ Finished(x, f)'
      BY <1>1, <2>1 DEF Unborn, Finished, Inheriting, Filling, Of, Act, Active, Alive
    <2> QED
      BY <2>2, <2>3
  <1>3. ASSUME NEW e \in Env, NEW x \in Name
        PROVE  ActOK(e, x)' /\ RowOK(e, x)'
    <2>1. ActOK(e, x) /\ RowOK(e, x)
      BY DEF DataInv, DataOK
    <2>2. RowOK(e, x)'
      BY <1>1, <2>1 DEF RowOK, Of, Physics, Holds, Exists
    <2>3. Promised(x, Act(e, x)) => Promised(x, Act(e, x))'
      BY <1>1 DEF Promised, Staged, Sourced, Marked, Act, Alive, Physics, Exists, Holds
    <2>4. ActOK(e, x)'
      BY <1>1, <2>1, <2>3 DEF ActOK, Active, Act, Of
    <2> QED
      BY <2>2, <2>4
  <1>4. Dropping'
    BY <1>1 DEF DataInv, DataOK, Dropping, Alive, Physics
  <1> QED
    BY <1>2, <1>3, <1>4 DEF DataOK

LEMMA ApplyData ==
    ASSUME Undisturbed, DataInv, NEW e \in Env, ApplySteps(e)
    PROVE  DataOK'
  <1>1. ASSUME NEW n \in Name, \/ Inherit(e, n) \/ CreateEmpty(e, n) \/ CreateFull(e, n)
                               \/ Register(e, n) \/ SwapView(e, n)
        PROVE  DataOK'
    BY <1>1, InheritData, CreateEmptyData, CreateFullData, RegisterData, SwapData
  <1>2. ASSUME NEW n \in Name, NEW i \in Interval, Load(e, n, i) \/ Settle(e, n, i) \/ BatchFails(e, n, i)
        PROVE  DataOK'
    BY <1>2, LoadData, SettleData, FailsData
  <1>3. CASE \/ Plan(e) \/ BuildDone(e) \/ PromoteEnv(e) \/ CheckAlive(e)
             \/ CommitPromote(e) \/ ApplyEnds(e)
    BY <1>3, PlanData, PhaseData, PromoteData, EndsData
  <1> QED
    BY <1>1, <1>2, <1>3 DEF ApplySteps

LEMMA DataInit ==
    ASSUME Init
    PROVE  DataInv
  <1>1. /\ \A x \in Name, f \in Fp : ~Alive(x, f) /\ done[f] = {}
        /\ \A e \in Env, x \in Name : rows[e][x] = None /\ ~Active(e, x)
        /\ jan.at # "drop"
    BY NoJobTyped DEF Init, StoreInit, Alive, Active, NoJanitor, Key
  <1> QED
    BY <1>1, InitOK DEF DataInv, DataOK, VersionOK, Unborn, Finished, ActOK, RowOK, Dropping

\* Every version registered has its physics with all that the ledger says of it,
\* every plan under way can rely on what it read, every row on what was built.
THEOREM DataInvariant ==
    ASSUME Undisturbed
    PROVE  Spec => []DataInv
  <1>1. Fenced
    BY DEF Undisturbed, Fenced
  <1>2. DataInv /\ [Next]_vars => WarehouseInv'
    BY <1>1, WarehouseStep, StoreStep, ApartStep, CheckedStep DEF StepOK, WarehouseInv, DataInv
  <1>3. DataInv /\ [Next]_vars => DataOK'
    BY ApplyData, JanitorData, TimeData, StutterData, NextSteps
  <1>4. DataInv /\ [Next]_vars => DataInv'
    BY <1>2, <1>3 DEF DataInv
  <1> QED
    BY DataInit, <1>4, PTL DEF Spec

\* The ledger is the truth: what is marked done for a version is in its physics,
\* however builds fail and are resumed, and whoever else builds the version.
THEOREM WarehouseLedgerBacked ==
    ASSUME Undisturbed
    PROVE  Spec => []LedgerBacked
  <1>1. DataInv => LedgerBacked
    BY TypesOf DEF DataInv, DataOK, VersionOK, LedgerBacked, Holds, Physics
  <1> QED
    BY DataInvariant, <1>1, PTL

\* The janitor never drops the physics of a version that is in the store, shared
\* with claimed ones or not.
THEOREM WarehousePhysicsKept ==
    ASSUME Undisturbed
    PROVE  Spec => []PhysicsKept
  <1>1. DataInv => PhysicsKept
    BY DEF DataInv, DataOK, VersionOK, PhysicsKept, Physics, Alive, Key
  <1> QED
    BY DataInvariant, <1>1, PTL

\* What an environment is promoted to holds every interval, and goes on to.
THEOREM WarehouseServedComplete ==
    ASSUME Undisturbed
    PROVE  Spec => []ServedComplete
  <1>1. DataInv => ServedComplete
    <2> SUFFICES ASSUME DataInv, NEW e \in Env, NEW x \in Name, rows[e][x] # None, Alive(x, rows[e][x])
                 PROVE  table[<<x, Physics(x, rows[e][x])>>] = Interval
      BY DEF ServedComplete, Physics
    <2>1. PICK f \in Fp : f = rows[e][x] /\ Alive(x, f)
      BY TypesOf DEF DataInv
    <2>2. PICK p \in Fp : p = Physics(x, f)
      BY <2>1, TypesOf DEF DataInv
    <2>3. Exists(x, p) /\ \A i \in Interval : Holds(x, p, i)
      BY <2>1, <2>2 DEF DataInv, DataOK, RowOK, VersionOK
    <2>4. table[<<x, p>>] \in SUBSET Interval
      BY <2>3 DEF DataInv, WarehouseInv, TypeOK, Key, Exists
    <2> QED
      BY <2>1, <2>2, <2>3, <2>4 DEF Holds
  <1> QED
    BY DataInvariant, <1>1, PTL

-----------------------------------------------------------------------------
(* The promise to readers and to those who roll back.                      *)

Complete(x, p) == Exists(x, p) /\ \A i \in Interval : Holds(x, p, i)

\* A version is whole when it is in the store and its physics is complete.
LEMMA WholeIs ==
    ASSUME TypeOK, TypeOK', NEW x \in Name, NEW f \in Fp
    PROVE  /\ <<x, f>> \in Whole <=> Alive(x, f) /\ Complete(x, Physics(x, f))
           /\ <<x, f>> \in Whole' <=> Alive(x, f)' /\ Complete(x, Physics(x, f))'
  <1>1. <<x, f>> \in Key
    BY DEF Key
  <1>2. ASSUME Alive(x, f)
        PROVE  table[<<x, Physics(x, f)>>] = Interval <=> Complete(x, Physics(x, f))
    <2>1. PICK p \in Fp : p = Physics(x, f)
      BY <1>1, <1>2 DEF TypeOK, StoreTypeOK, Alive, Physics, Snapshot
    <2>2. table[<<x, p>>] \in (SUBSET Interval) \cup {None} /\ Interval # None
      BY NoneAssumption DEF TypeOK, Key
    <2> QED
      BY <2>1, <2>2 DEF Complete, Exists, Holds
  <1>3. ASSUME Alive(x, f)'
        PROVE  table'[<<x, Physics(x, f)'>>] = Interval <=> Complete(x, Physics(x, f))'
    <2>1. PICK p \in Fp : p = Physics(x, f)'
      BY <1>1, <1>3 DEF TypeOK, StoreTypeOK, Alive, Physics, Snapshot
    <2>2. table'[<<x, p>>] \in (SUBSET Interval) \cup {None} /\ Interval # None
      BY NoneAssumption DEF TypeOK, Key
    <2> QED
      BY <2>1, <2>2 DEF Complete, Exists, Holds
  <1> QED
    BY <1>1, <1>2, <1>3 DEF Whole, Alive, Physics

LEMMA WholeStays ==
    ASSUME TypeOK, TypeOK', Grows,
           \A x \in Name, f \in Fp : Alive(x, f) => Alive(x, f)' /\ Physics(x, f)' = Physics(x, f)
    PROVE  Whole \subseteq Whole'
  <1> SUFFICES ASSUME NEW x \in Name, NEW f \in Fp, <<x, f>> \in Whole
               PROVE  <<x, f>> \in Whole'
    BY DEF Whole, Key
  <1>1. Alive(x, f) /\ Complete(x, Physics(x, f))
    BY WholeIs
  <1>2. PICK p \in Fp : p = Physics(x, f)
    BY <1>1 DEF TypeOK, StoreTypeOK, Alive, Physics, Snapshot, Key
  <1>3. Physics(x, f)' = p /\ Alive(x, f)'
    BY <1>1, <1>2
  <1>4. Complete(x, p)'
    BY <1>1, <1>2 DEF Complete, Grows
  <1>5. Complete(x, Physics(x, f))'
    BY <1>3, <1>4 DEF Complete, Exists, Holds
  <1> QED
    BY <1>3, <1>5, WholeIs

\* Whatever an apply does to tables adds rows.
LEMMA ApplyGrows ==
    ASSUME WarehouseInv, NEW e \in Env, ApplySteps(e)
    PROVE  Grows
  <1>1. table \in [Key -> (SUBSET Interval) \cup {None}] /\ JobTypeOK
    BY TypesOf DEF WarehouseInv, TypeOK
  <1>2. ASSUME NEW n \in Name, CreateEmpty(e, n)
        PROVE  Grows
    <2>1. PICK p : table' = [table EXCEPT ![<<n, p>>] = IF @ = None THEN {} ELSE @]
      BY <1>2 DEF CreateEmpty
    <2> QED
      BY <1>1, <2>1, NoneAssumption DEF Grows, Exists, Holds, Key
  <1>3. ASSUME NEW n \in Name, CreateFull(e, n)
        PROVE  Grows
    <2>1. PICK p : UNCHANGED table \/ table' = [table EXCEPT ![<<n, p>>] = Interval]
      BY <1>3 DEF CreateFull
    <2> QED
      BY <1>1, <2>1, NoneAssumption DEF Grows, Exists, Holds, Key
  <1>4. ASSUME NEW n \in Name, NEW i \in Interval, Load(e, n, i)
        PROVE  Grows
    <2>1. PICK p : Exists(n, p) /\ table' = [table EXCEPT ![<<n, p>>] = @ \cup {i}]
      BY <1>4 DEF Load
    <2>2. <<n, p>> \in Key => table[<<n, p>>] \cup {i} \in SUBSET Interval
      BY <1>1, <2>1 DEF Exists
    <2>3. <<n, p>> \in Key => table[<<n, p>>] \cup {i} # None
      BY <2>2, NoneAssumption
    <2> QED
      BY <1>1, <2>1, <2>3 DEF Grows, Exists, Holds, Key
  <1>5. CASE UNCHANGED table
    BY <1>5 DEF Grows, Exists, Holds
  <1> QED
    BY <1>2, <1>3, <1>4, <1>5
    DEF ApplySteps, Plan, BuildDone, PromoteEnv, CheckAlive, CommitPromote, ApplyEnds, Inherit,
        Register, SwapView, Settle, BatchFails

\* The versions in use are those the rows point to.
LEMMA InUseIs ==
    ASSUME StoreTypeOK, StoreTypeOK'
    PROVE  Promise!InUse = Served(rows) /\ Promise!InUse' = Served(rows')
  BY DEF Promise!InUse, ServedFrom, Served

LEMMA ServedWhole ==
    ASSUME DataInv, DataInv', NEW e \in Env
    PROVE  ServedFrom'[e] \subseteq Whole'
  <1> SUFFICES ASSUME NEW x \in Name, NEW f \in Fp, rows'[e][x] = f
               PROVE  <<x, f>> \in Whole'
    BY DEF ServedFrom, Key
  <1>1. RowOK(e, x)' /\ VersionOK(x, f)' /\ rows'[e][x] # None
    BY StoreAssumption DEF DataInv, DataOK
  <1>2. Alive(x, f)'
    BY <1>1 DEF DataInv, WarehouseInv, StoreInv, RowsAlive, Alive
  <1>3. Exists(x, Physics(x, f))' /\ \A i \in Interval : Holds(x, Physics(x, f), i)'
    BY <1>1, <1>2 DEF RowOK, VersionOK, Physics, Holds, Exists
  <1> QED
    BY <1>2, <1>3, WholeIs DEF Complete, DataInv, WarehouseInv

\* The promotion of an environment is a publication, and every other step of an
\* apply some work on tables.
LEMMA ApplyPromise ==
    ASSUME DataInv, DataInv', NEW e \in Env, ApplySteps(e)
    PROVE  Promise!Next
  <1>1. TypeOK /\ TypeOK' /\ StoreTypeOK /\ StoreTypeOK' /\ WarehouseInv
    BY DEF DataInv, WarehouseInv, StoreInv
  <1>2. Whole \subseteq Whole'
    BY <1>1, ApplyGrows, PhysicsStays, WholeStays
  <1>3. CASE PromoteEnv(e) \/ CommitPromote(e)
    <2>1. /\ rows' = [rows EXCEPT ![e] = Entries(e)] /\ table' = table
          /\ recent' = recent \cup Served(rows')
          /\ snap' = [k \in Key |-> IF snap[k] = None THEN None
                                   ELSE Remarked(snap[k], k[2] \in Referenced(rows'))]
      BY <1>3 DEF PromoteEnv, CommitPromote, Promote, ReplaceEnv
    <2>2. Whole' = Whole
      <3> SUFFICES ASSUME NEW x \in Name, NEW f \in Fp, <<x, f>> \in Whole'
                   PROVE  <<x, f>> \in Whole
        BY <1>2 DEF Whole, Key
      <3>1. Alive(x, f)' /\ Complete(x, Physics(x, f))'
        BY <1>1, WholeIs
      <3>2. Alive(x, f)
        BY <2>1, <3>1 DEF Alive, Key
      <3>3. Physics(x, f)' = Physics(x, f)
        BY <1>1, <3>2, PhysicsStays
      <3>4. Complete(x, Physics(x, f))
        BY <2>1, <3>1, <3>3 DEF Complete, Exists, Holds
      <3> QED
        BY <1>1, <3>2, <3>4, WholeIs
    <2>3. ServedFrom' = [ServedFrom EXCEPT ![e] = ServedFrom'[e]]
      BY <1>1, <2>1 DEF ServedFrom, StoreTypeOK
    <2>4. ServedFrom'[e] \subseteq Whole
      BY <2>2, ServedWhole
    <2>5. recent' = recent \cup Promise!InUse'
      BY <1>1, <2>1, InUseIs
    <2>6. Promise!Publish(e, ServedFrom'[e])
      BY <2>2, <2>3, <2>4, <2>5 DEF Promise!Publish
    <2>7. ServedFrom'[e] \in SUBSET Key
      BY DEF ServedFrom
    <2> QED
      BY <2>6, <2>7 DEF Promise!Next
  <1>4. CASE UNCHANGED <<rows, recent>>
    <2>1. ServedFrom' = ServedFrom /\ Whole' = Whole \cup Whole'
      BY <1>2, <1>4 DEF ServedFrom
    <2>2. Promise!Build(Whole')
      BY <1>4, <2>1 DEF Promise!Build
    <2>3. Whole' \in SUBSET Key
      BY DEF Whole
    <2> QED
      BY <2>2, <2>3 DEF Promise!Next
  <1> QED
    BY <1>3, <1>4
    DEF ApplySteps, Plan, BuildDone, CheckAlive, ApplyEnds, Inherit, CreateEmpty, CreateFull,
        Register, SwapView, Load, Settle, BatchFails, UpsertSnapshot, MarkDone, MarkNotDone,
        storeVars

\* A claim that is won is a collection: it spares what was served lately.
LEMMA ClaimPromise ==
    ASSUME DataInv, DataInv', NEW k \in Key, JanitorClaims(k)
    PROVE  Promise!Next
  <1>1. /\ snap \in [Key -> Snapshot \cup {None}] /\ snap' = [snap EXCEPT ![k] = None]
        /\ UNCHANGED <<rows, recent, table>> /\ Claimable(k[1], k[2]) /\ k = <<k[1], k[2]>>
    <2>1. k = <<k[1], k[2]>>
      BY DEF Key
    <2>2. snap \in [Key -> Snapshot \cup {None}]
      BY DEF DataInv, WarehouseInv, TypeOK, StoreTypeOK
    <2> QED
      BY <2>1, <2>2 DEF JanitorClaims, DeleteSnapshotIfDoomed
  <1>2. k \notin recent
    BY <1>1 DEF DataInv, WarehouseInv, StoreInv, RecentSpared, Spared, Claimable
  <1>3. Whole' = Whole \ {k}
    BY <1>1 DEF Whole
  <1>4. ServedFrom' = ServedFrom
    BY <1>1 DEF ServedFrom
  <1>5. Promise!Collect(k)
    BY <1>1, <1>2, <1>3, <1>4 DEF Promise!Collect
  <1> QED
    BY <1>5 DEF Promise!Next

\* The other steps of the janitor are not noticed: what it drops is the physics
\* of no version.
LEMMA JanitorPromise ==
    ASSUME DataInv, JanitorSteps, \A k \in Key : ~JanitorClaims(k)
    PROVE  UNCHANGED <<ServedFrom, Whole, recent>>
  <1>1. UNCHANGED storeVars
    BY DEF JanitorSteps, JanitorLists, JanitorSurveys, JanitorEnds, JanitorLosesClaim, JanitorDrops
  <1>2. ASSUME NEW c \in Key, JanitorDrops(c)
        PROVE  Whole' = Whole
    <2>1. /\ jan.at = "drop" /\ c \in jan.claimed /\ table' = [table EXCEPT ![c] = None]
      BY <1>2 DEF JanitorDrops
    <2>2. table \in [Key -> (SUBSET Interval) \cup {None}]
          /\ snap \in [Key -> Snapshot \cup {None}]
      BY DEF DataInv, WarehouseInv, TypeOK, StoreTypeOK
    <2>3. ASSUME NEW k \in Key, snap[k] # None
          PROVE  table'[<<k[1], snap[k].pfp>>] = table[<<k[1], snap[k].pfp>>]
      <3>1. k[1] \in Name /\ k[2] \in Fp /\ k = <<k[1], k[2]>>
        BY DEF Key
      <3>2. snap[k].pfp \in Fp
        BY <2>2, <2>3 DEF Snapshot
      <3>3. c[1] = k[1] => snap[k].pfp # c[2]
        BY <2>1, <2>3, <3>1 DEF DataInv, DataOK, Dropping, Alive, Physics
      <3>4. <<k[1], snap[k].pfp>> \in Key /\ <<k[1], snap[k].pfp>> # c
        BY <3>1, <3>2, <3>3 DEF Key
      <3> QED
        BY <2>1, <2>2, <3>4
    <2> QED
      BY <1>1, <2>3 DEF Whole, storeVars
  <1>3. ASSUME \A c \in Key : ~JanitorDrops(c)
        PROVE  Whole' = Whole
    <2>1. UNCHANGED table
      BY <1>3 DEF JanitorSteps, JanitorLists, JanitorSurveys, JanitorEnds, JanitorLosesClaim
    <2> QED
      BY <1>1, <2>1 DEF Whole, storeVars
  <1> QED
    BY <1>1, <1>2, <1>3 DEF ServedFrom, storeVars

LEMMA TimePromise ==
    ASSUME DataInv, DataInv', TimePasses
    PROVE  Promise!Next
  <1>1. /\ UNCHANGED <<rows, table>> /\ recent' = Served(rows)
        /\ snap' = [k \in Key |-> IF snap[k] = None THEN None ELSE Older(snap[k])]
    BY DEF TimePasses, TtlPasses
  <1>2. snap \in [Key -> Snapshot \cup {None}] /\ snap' \in [Key -> Snapshot \cup {None}]
        /\ StoreTypeOK /\ StoreTypeOK'
    BY DEF DataInv, WarehouseInv, StoreInv, StoreTypeOK
  <1>3. \A k \in Key : /\ snap'[k] # None <=> snap[k] # None
                       /\ snap[k] # None => snap'[k].pfp = snap[k].pfp
    <2> SUFFICES ASSUME NEW k \in Key, snap[k] # None
                 PROVE  snap'[k] # None /\ snap'[k].pfp = snap[k].pfp
      BY <1>1
    <2>1. snap'[k] = Older(snap[k]) /\ snap[k] \in Snapshot
      BY <1>1, <1>2
    <2>2. Older(snap[k]) \in Snapshot /\ Older(snap[k]).pfp = snap[k].pfp
      BY <2>1 DEF Older, Aged, Snapshot
    <2> QED
      BY <2>1, <2>2, StoreAssumption
  <1>4. Whole' = Whole
    BY <1>1, <1>3 DEF Whole
  <1>5. ServedFrom' = ServedFrom
    BY <1>1 DEF ServedFrom
  <1>6. recent' = Promise!InUse
    BY <1>1, <1>2, InUseIs
  <1> QED
    BY <1>4, <1>5, <1>6 DEF Promise!TtlPasses, Promise!Next

\* Refinement: on a serial store, with the janitor and the applies at work in
\* turn, readers get whole versions and a rollback within the ttl finds every
\* row it needs, for any models and projects and however often builds fail.
THEOREM WarehouseKeepsCatalog ==
    ASSUME Undisturbed, Isolation = "serial"
    PROVE  Spec => KeepsCatalog
  <1>1. Init => Promise!Init
    <2> SUFFICES ASSUME Init
                 PROVE  Promise!Init
      OBVIOUS
    <2>1. ServedFrom = [e \in Env |-> {}]
      BY StoreAssumption DEF Init, StoreInit, ServedFrom, Key
    <2>2. Whole = {} /\ recent = {}
      BY DEF Init, StoreInit, Whole
    <2> QED
      BY <2>1, <2>2 DEF Promise!Init
  <1>2. DataInv /\ DataInv' /\ [Next]_vars => [Promise!Next]_(Promise!vars)
    <2> SUFFICES ASSUME DataInv, DataInv', [Next]_vars
                 PROVE  Promise!Next \/ UNCHANGED <<ServedFrom, Whole, recent>>
      BY DEF Promise!vars
    <2>1. ASSUME NEW e \in Env, ApplySteps(e)
          PROVE  Promise!Next
      BY <2>1, ApplyPromise
    <2>2. CASE JanitorSteps
      BY <2>2, ClaimPromise, JanitorPromise
    <2>3. CASE TimePasses
      BY <2>3, TimePromise
    <2>4. CASE UNCHANGED vars
      BY <2>4 DEF vars, storeVars, ServedFrom, Whole
    <2> QED
      BY <2>1, <2>2, <2>3, <2>4, NextSteps
  <1> QED
    BY <1>1, <1>2, DataInvariant, PTL DEF Spec, KeepsCatalog, Promise!Spec

\* What was served within the last ttl is not only in the store, as
\* RollbackWindow says: all its rows are there.
THEOREM WarehouseAvailable ==
    ASSUME Undisturbed, Isolation = "serial"
    PROVE  Spec => []Promise!Available
  <1>1. Promise!Init => Promise!Available
    BY DEF Promise!Init, Promise!Available, Promise!InUse
  <1>2. Promise!Available /\ [Promise!Next]_(Promise!vars) => Promise!Available'
    <2> SUFFICES ASSUME Promise!Available, [Promise!Next]_(Promise!vars)
                 PROVE  Promise!Available'
      OBVIOUS
    <2>1. ASSUME NEW versions \in SUBSET Key, Promise!Build(versions)
          PROVE  Promise!Available'
      BY <2>1 DEF Promise!Build, Promise!Available, Promise!InUse
    <2>2. ASSUME NEW versions \in SUBSET Key, NEW e \in Env, Promise!Publish(e, versions)
          PROVE  Promise!Available'
      <3>1. /\ versions \subseteq Whole /\ ServedFrom' = [ServedFrom EXCEPT ![e] = versions]
            /\ recent' = recent \cup Promise!InUse' /\ Whole' = Whole
        BY <2>2 DEF Promise!Publish
      <3>2. \A d \in Env : ServedFrom'[d] \subseteq versions \cup ServedFrom[d]
        BY <3>1 DEF ServedFrom
      <3>3. Promise!InUse' \subseteq versions \cup Promise!InUse
        BY <3>2 DEF Promise!InUse
      <3> QED
        BY <3>1, <3>3 DEF Promise!Available
    <2>3. ASSUME NEW v \in Key, Promise!Collect(v)
          PROVE  Promise!Available'
      BY <2>3 DEF Promise!Collect, Promise!Available, Promise!InUse
    <2>4. CASE Promise!TtlPasses
      BY <2>4 DEF Promise!TtlPasses, Promise!Available, Promise!InUse
    <2>5. CASE UNCHANGED Promise!vars
      BY <2>5 DEF Promise!vars, Promise!Available, Promise!InUse
    <2> QED
      BY <2>1, <2>2, <2>3, <2>4, <2>5 DEF Promise!Next
  <1> QED
    BY <1>1, <1>2, WarehouseKeepsCatalog, PTL DEF KeepsCatalog, Promise!Spec

-----------------------------------------------------------------------------
(* The view layer.                                                         *)

\* An apply that has begun to switch views is not stopped before its promote.
Switching == FailAt \cap {"views", "checked"} = {}

\* The view says what the row says.
Follows(e, x) == /\ rows[e][x] = None => view[e][x] = None
                 /\ rows[e][x] # None => view[e][x] = Physics(x, rows[e][x])

\* While an apply is under way: what its plan read, and how far the view is.
Switched(at, x, a, row, v) ==
    /\ a.change \in {"unchanged", "removed"} => row = a.fp
    /\ a.change = "unchanged" => a.swapped
    /\ at = "build" => a.swapped = (a.change = "unchanged")
    /\ at = "checked" => a.swapped
    /\ a.swapped /\ a.change = "removed" => v = None
    /\ a.swapped /\ a.change = "changed" => v = a.pfp

LayerOK(e, x) ==
    /\ ~Active(e, x) \/ ~Act(e, x).swapped \/ Act(e, x).change = "unchanged" => Follows(e, x)
    /\ job[e].at # "idle" /\ ~Active(e, x) => rows[e][x] = None
    /\ Active(e, x) => Switched(job[e].at, x, Act(e, x), rows[e][x], view[e][x])

LayerInv == DataInv /\ \A e \in Env, x \in Name : LayerOK(e, x)

\* The versions that stay keep their physics.
Kept(x) == \A f \in Fp : Alive(x, f) /\ Alive(x, f)' => Physics(x, f)' = Physics(x, f)

LEMMA FollowsStays ==
    ASSUME WarehouseInv, WarehouseInv', NEW d \in Env, NEW x \in Name, Kept(x),
           rows'[d][x] = rows[d][x], view'[d][x] = view[d][x], Follows(d, x)
    PROVE  Follows(d, x)'
  <1>1. CASE rows[d][x] = None
    BY <1>1 DEF Follows
  <1>2. CASE rows[d][x] # None
    <2>1. PICK f \in Fp : f = rows[d][x] /\ Alive(x, f)
      BY <1>2, TypesOf
    <2>2. RowsAlive'
      BY DEF WarehouseInv, StoreInv
    <2>3. Alive(x, f)'
      BY <1>2, <2>1, <2>2 DEF RowsAlive, Alive
    <2>4. Physics(x, f)' = Physics(x, f)
      BY <2>1, <2>3 DEF Kept
    <2>5. view'[d][x] = Physics(x, f)' /\ rows'[d][x] = f
      BY <1>2, <2>1, <2>4 DEF Follows
    <2> QED
      BY <2>1, <2>5, StoreAssumption DEF Follows, Physics
  <1> QED
    BY <1>1, <1>2

\* Nothing the view layer depends on changes for this environment and model.
LEMMA LayerStays ==
    ASSUME LayerInv, WarehouseInv', NEW d \in Env, NEW x \in Name, Kept(x), job'[d] = job[d],
           rows'[d][x] = rows[d][x], view'[d][x] = view[d][x]
    PROVE  LayerOK(d, x)'
  <1>1. Follows(d, x) => Follows(d, x)'
    BY FollowsStays DEF LayerInv, DataInv
  <1>2. (Active(d, x)' <=> Active(d, x)) /\ Act(d, x)' = Act(d, x)
    BY DEF Active, Act
  <1> QED
    BY <1>1, <1>2 DEF LayerInv, LayerOK, Switched

\* The other environments are not touched, nor their views.
LEMMA OthersLayer ==
    ASSUME LayerInv, WarehouseInv', NEW e \in Env, ApplySteps(e), NEW d \in Env, d # e, NEW x \in Name
    PROVE  LayerOK(d, x)'
  <1>1. job'[d] = job[d]
    BY TypesOf, ApplyStays DEF LayerInv, DataInv
  <1>2. Kept(x)
    BY PhysicsStays DEF Kept, LayerInv, DataInv
  <1>3. rows'[d] = rows[d] /\ view'[d] = view[d]
    <2>1. rows \in [Env -> [Name -> Fp \cup {None}]] /\ view \in [Env -> [Name -> Fp \cup {None}]]
      BY DEF LayerInv, DataInv, WarehouseInv, TypeOK, StoreTypeOK
    <2>2. CASE PromoteEnv(e) \/ CommitPromote(e)
      BY <2>1, <2>2 DEF PromoteEnv, CommitPromote, Promote, ReplaceEnv
    <2>3. ASSUME NEW n \in Name, SwapView(e, n)
          PROVE  rows'[d] = rows[d] /\ view'[d] = view[d]
      BY <2>1, <2>3 DEF SwapView, storeVars
    <2>4. CASE UNCHANGED <<rows, view>>
      BY <2>4
    <2> QED
      BY <2>2, <2>3, <2>4
      DEF ApplySteps, Plan, BuildDone, CheckAlive, ApplyEnds, Inherit, CreateEmpty, CreateFull,
          Register, UpsertSnapshot, Load, Settle, BatchFails, MarkDone, MarkNotDone, storeVars
  <1> QED
    BY <1>1, <1>2, <1>3, LayerStays

\* What a plan says of a model, and the view of its environment is as before.
LEMMA PlanLayer ==
    ASSUME LayerInv, WarehouseInv', NEW e \in Env, Plan(e), NEW x \in Name
    PROVE  LayerOK(e, x)'
  <1>1. PICK project \in Projects, reused \in SUBSET Reuse :
          job' = [job EXCEPT ![e] = [at |-> "build", acts |-> PlanOf(e, project, reused)]]
    BY DEF Plan
  <1>2. job[e].at = "idle" /\ UNCHANGED <<rows, snap, view>>
    BY DEF Plan, storeVars
  <1>3. job'[e].at = "build" /\ Act(e, x)' = PlanOf(e, project, reused)[x]
    BY <1>1, TypesOf DEF JobTypeOK, LayerInv, DataInv, Act
  <1>4. Follows(e, x)'
    <2>1. Follows(e, x)
      BY <1>2 DEF LayerInv, LayerOK, Active
    <2> QED
      BY <1>2, <2>1 DEF Follows, Physics
  <1> DEFINE old == rows[e][x]
             from == IF x \in reused /\ old \notin {None, project[x]} /\ Alive(x, old)
                     THEN old ELSE None
  <1>5. CASE project[x] # None
    <2>1. Act(e, x)' = ProjectAction(x, project[x], old, from)
      BY <1>3, <1>5 DEF PlanOf
    <2>2. /\ Act(e, x)'.fp = project[x]
          /\ Act(e, x)'.change = IF old = project[x] THEN "unchanged" ELSE "changed"
          /\ Act(e, x)'.swapped = (Act(e, x)'.change = "unchanged")
      BY <2>1 DEF ProjectAction
    <2>3. Act(e, x)' # None
      <3>1. PlanOf(e, project, reused) \in [Name -> Action \cup {None}]
        BY PlanTyped DEF LayerInv, DataInv, WarehouseInv, StoreInv
      <3>2. ProjectAction(x, project[x], old, from) \in Action
        <4>1. /\ project[x] \in Fp /\ old \in Fp \cup {None} /\ StoreTypeOK
              /\ from \in Fp \cup {None} /\ (from # None => Alive(x, from))
          BY <1>5, WarehouseAssumption, TypesOf DEF LayerInv, DataInv, WarehouseInv, StoreInv
        <4> QED
          BY <4>1, ProjectActionTyped
      <3> QED
        BY <2>1, <3>2, NoneAssumption
    <2> QED
      BY <1>2, <1>3, <1>4, <2>2, <2>3 DEF LayerOK, Switched, Active
  <1>6. CASE project[x] = None /\ old # None
    <2>1. Act(e, x)' = RemovedAction(old) /\ RemovedAction(old) \in Action
      BY <1>3, <1>6, TypesOf DEF PlanOf, RemovedAction, Action, LayerInv, DataInv
    <2>2. /\ Act(e, x)'.fp = old /\ Act(e, x)'.change = "removed"
          /\ Act(e, x)'.swapped = FALSE
      BY <2>1 DEF RemovedAction
    <2>3. Act(e, x)' # None
      BY <2>1, NoneAssumption
    <2> QED
      BY <1>2, <1>3, <1>4, <2>2, <2>3 DEF LayerOK, Switched, Active
  <1>7. CASE project[x] = None /\ old = None
    <2>1. Act(e, x)' = None
      BY <1>3, <1>7 DEF PlanOf
    <2> QED
      BY <1>2, <1>3, <1>4, <1>7, <2>1 DEF LayerOK, Active
  <1> QED
    BY <1>5, <1>6, <1>7

\* A step of the build: what the view layer goes by is not touched.
LEMMA BuildLayer ==
    ASSUME LayerInv, WarehouseInv', NEW e \in Env, ApplySteps(e), UNCHANGED <<rows, view>>,
           NEW x \in Name, Active(e, x) <=> Active(e, x)', job[e].at # "idle",
           Active(e, x) => /\ Act(e, x)'.fp = Act(e, x).fp /\ Act(e, x)'.pfp = Act(e, x).pfp
                           /\ Act(e, x)'.change = Act(e, x).change
                           /\ Act(e, x)'.swapped = Act(e, x).swapped,
           job'[e].at = "build" => job[e].at = "build",
           job'[e].at = "checked" /\ Active(e, x) => Act(e, x).swapped
    PROVE  LayerOK(e, x)'
  <1>1. Kept(x)
    BY PhysicsStays DEF Kept, LayerInv, DataInv
  <1>2. Follows(e, x) => Follows(e, x)'
    BY <1>1, FollowsStays DEF LayerInv, DataInv
  <1>3. LayerOK(e, x)
    BY DEF LayerInv
  <1> QED
    BY <1>2, <1>3 DEF LayerOK, Switched

\* Where the view of an environment follows its rows and the apply ends.
LEMMA EndLayer ==
    ASSUME LayerInv, WarehouseInv', NEW e \in Env, ApplySteps(e), UNCHANGED <<rows, view>>,
           job' = [job EXCEPT ![e] = NoJob], job[e].at = "build", NEW x \in Name
    PROVE  LayerOK(e, x)'
  <1>1. Kept(x)
    BY PhysicsStays DEF Kept, LayerInv, DataInv
  <1>2. Follows(e, x)
    BY DEF LayerInv, LayerOK, Switched
  <1>3. Follows(e, x)'
    BY <1>1, <1>2, FollowsStays DEF LayerInv, DataInv
  <1>4. job'[e].at = "idle"
    BY NoJobTyped, TypesOf DEF LayerInv, DataInv, JobTypeOK
  <1> QED
    BY <1>3, <1>4 DEF LayerOK, Active

LEMMA SwapLayer ==
    ASSUME LayerInv, WarehouseInv', NEW e \in Env, NEW n \in Name, SwapView(e, n), NEW x \in Name
    PROVE  LayerOK(e, x)'
  <1> DEFINE b == [Act(e, n) EXCEPT !.swapped = TRUE]
  <1>1. ApplySteps(e)
    BY DEF ApplySteps
  <1>2. /\ job[e].at = "views" /\ Act(e, n) # None /\ Move(e, n, b) /\ ~Act(e, n).swapped
        /\ view' = [view EXCEPT ![e][n] =
                        IF Act(e, n).change = "removed" THEN None ELSE Act(e, n).pfp]
        /\ rows' = rows
    BY DEF SwapView, Acts, Act, storeVars
  <1>3. /\ Act(e, n)' = b /\ job'[e].at = job[e].at
        /\ \A y \in Name : y # n => Act(e, y)' = Act(e, y)
    BY <1>2, Moved, TypesOf DEF LayerInv, DataInv
  <1>4. /\ Act(e, n) \in Action /\ b.fp = Act(e, n).fp /\ b.pfp = Act(e, n).pfp
        /\ b.change = Act(e, n).change /\ b.swapped = TRUE /\ b \in Action
    BY <1>2, ActiveOK DEF Active, Action, LayerInv
  <1> HIDE DEF b
  <1>5. Kept(x)
    BY <1>1, PhysicsStays DEF Kept, LayerInv, DataInv
  <1>6. view \in [Env -> [Name -> Fp \cup {None}]]
    BY DEF LayerInv, DataInv, WarehouseInv, TypeOK
  <1>7. LayerOK(e, x)
    BY DEF LayerInv
  <1>8. CASE x = n
    <2>1. view'[e][n] = IF Act(e, n).change = "removed" THEN None ELSE Act(e, n).pfp
      BY <1>2, <1>6
    <2>2. Act(e, n).change # "unchanged" /\ b # None
      BY <1>2, <1>4, <1>7, <1>8, NoneAssumption DEF LayerOK, Switched, Active
    <2> QED
      BY <1>2, <1>3, <1>4, <1>7, <1>8, <2>1, <2>2 DEF LayerOK, Switched, Active
  <1>9. CASE x # n
    <2>1. view'[e][x] = view[e][x]
      BY <1>2, <1>6, <1>9
    <2>2. Follows(e, x) => Follows(e, x)'
      BY <1>2, <1>5, <2>1, FollowsStays DEF LayerInv, DataInv
    <2>3. Act(e, x)' = Act(e, x) /\ (Active(e, x)' <=> Active(e, x)) /\ job'[e].at = job[e].at
      BY <1>3, <1>9 DEF Active
    <2> QED
      BY <1>2, <1>7, <2>1, <2>2, <2>3 DEF LayerOK, Switched
  <1> QED
    BY <1>8, <1>9

\* promote: the views are where the new rows say.
LEMMA PromoteLayer ==
    ASSUME LayerInv, WarehouseInv', NEW e \in Env, PromoteEnv(e) \/ CommitPromote(e), NEW x \in Name
    PROVE  LayerOK(e, x)'
  <1>1. /\ ApplySteps(e) /\ job' = [job EXCEPT ![e] = NoJob] /\ view' = view
        /\ rows' = [rows EXCEPT ![e] = Entries(e)]
        /\ Swapped(e) \/ job[e].at = "checked"
    BY DEF ApplySteps, PromoteEnv, CommitPromote, Promote, ReplaceEnv
  <1>2. job'[e].at = "idle" /\ job[e].at \in {"views", "checked"}
    BY <1>1, NoJobTyped, TypesOf DEF LayerInv, DataInv, JobTypeOK, Swapped
  <1>3. Kept(x) /\ LayerOK(e, x)
    BY <1>1, PhysicsStays DEF Kept, LayerInv, DataInv
  <1>4. rows'[e][x] = Entries(e)[x]
    BY <1>1 DEF LayerInv, DataInv, WarehouseInv, TypeOK, StoreTypeOK
  <1>5. Active(e, x) => Act(e, x).swapped
    BY <1>1, <1>3 DEF Swapped, Acts, Active, Act, LayerOK, Switched
  <1> SUFFICES Follows(e, x)'
    BY <1>2 DEF LayerOK, Active
  <1>6. CASE ~Active(e, x)
    <2>1. rows[e][x] = None /\ Follows(e, x) /\ Entries(e)[x] = None
      BY <1>2, <1>3, <1>6 DEF LayerOK, Active, Entries, Acts, Act
    <2> QED
      BY <1>1, <1>4, <2>1 DEF Follows
  <1>7. CASE Active(e, x) /\ Act(e, x).change = "removed"
    <2>1. view[e][x] = None /\ Entries(e)[x] = None
      BY <1>3, <1>5, <1>7 DEF LayerOK, Switched, Entries, Act
    <2> QED
      BY <1>1, <1>4, <2>1 DEF Follows
  <1>8. CASE Active(e, x) /\ Act(e, x).change # "removed"
    <2>1. PICK a \in Action : a = Act(e, x) /\ a.stage = "built" /\ Promised(x, a)
      BY <1>2, <1>8, ActiveOK DEF LayerInv
    <2>2. a.fp \in Fp /\ Alive(x, a.fp) /\ a.pfp = Physics(x, a.fp)
      BY <2>1 DEF Promised, Staged, Sourced, Action
    <2>3. rows'[e][x] = a.fp
      BY <1>4, <1>8, <2>1 DEF Entries, Acts, Active, Act
    <2>4. Physics(x, a.fp)' = Physics(x, a.fp)
      BY <1>1, <2>2, PhysicsStays DEF LayerInv, DataInv
    <2>5. view[e][x] = a.pfp
      <3>1. CASE a.change = "unchanged"
        <4>1. rows[e][x] = a.fp /\ Follows(e, x)
          BY <1>3, <1>8, <2>1, <3>1 DEF LayerOK, Switched
        <4> QED
          BY <2>2, <4>1, StoreAssumption DEF Follows
      <3>2. CASE a.change = "changed"
        BY <1>3, <1>5, <1>8, <2>1, <3>2 DEF LayerOK, Switched
      <3> QED
        BY <1>8, <2>1, <3>1, <3>2 DEF Action
    <2>6. rows'[e][x] # None /\ view'[e][x] = Physics(x, a.fp)'
      BY <1>1, <2>2, <2>3, <2>4, <2>5, StoreAssumption
    <2> QED
      BY <2>3, <2>6 DEF Follows, Physics
  <1> QED
    BY <1>6, <1>7, <1>8

\* The steps of a build move one action on and keep what the views go by.
LEMMA StageLayer ==
    ASSUME LayerInv, WarehouseInv', NEW e \in Env, NEW n \in Name,
           \/ Inherit(e, n) \/ CreateEmpty(e, n) \/ CreateFull(e, n) \/ Register(e, n)
           \/ \E i \in Interval : Load(e, n, i) \/ Settle(e, n, i),
           NEW x \in Name
    PROVE  LayerOK(e, x)'
  <1>1. /\ ApplySteps(e) /\ UNCHANGED <<rows, view>>
        /\ job[e].at = "build" /\ Act(e, n) # None
    BY DEF ApplySteps, At, Act, storeVars, Inherit, CreateEmpty, CreateFull, Register, Load, Settle,
           MarkDone, UpsertSnapshot
  <1>2. Act(e, n) \in Action
    BY <1>1, ActiveOK DEF LayerInv, Active
  <1>3. PICK b \in Action :
          /\ Move(e, n, b) /\ b.fp = Act(e, n).fp /\ b.pfp = Act(e, n).pfp
          /\ b.change = Act(e, n).change /\ b.swapped = Act(e, n).swapped
    <2> DEFINE OK(b) == /\ b \in Action /\ Move(e, n, b) /\ b.fp = Act(e, n).fp
                        /\ b.pfp = Act(e, n).pfp /\ b.change = Act(e, n).change
                        /\ b.swapped = Act(e, n).swapped
    <2>1. CASE Inherit(e, n)
      <3>1. OK([Act(e, n) EXCEPT !.stage = "create"])
        BY <1>2, <2>1 DEF Inherit, Act, Action
      <3> QED
        BY <3>1
    <2>2. CASE CreateEmpty(e, n) \/ CreateFull(e, n)
      <3>1. OK([Act(e, n) EXCEPT !.stage = "register"])
        BY <1>2, <2>2 DEF CreateEmpty, CreateFull, Act, Action
      <3> QED
        BY <3>1
    <2>3. CASE Register(e, n)
      <3>1. OK([Act(e, n) EXCEPT !.stage = IF Settled(Act(e, n)) THEN "built" ELSE "fill"])
        BY <1>2, <2>3 DEF Register, Act, Action
      <3> QED
        BY <3>1
    <2>4. ASSUME NEW i \in Interval, Load(e, n, i)
          PROVE  \E b : OK(b)
      <3>1. OK([Act(e, n) EXCEPT !.todo = @ \ {i}, !.loaded = @ \cup {i}])
        BY <1>2, <2>4 DEF Load, Act, Action
      <3> QED
        BY <3>1
    <2>5. ASSUME NEW i \in Interval, Settle(e, n, i)
          PROVE  \E b : OK(b)
      <3> DEFINE c == [Act(e, n) EXCEPT !.loaded = @ \ {i}]
      <3>1. /\ c \in Action /\ c.fp = Act(e, n).fp /\ c.pfp = Act(e, n).pfp
            /\ c.change = Act(e, n).change /\ c.swapped = Act(e, n).swapped
        BY <1>2 DEF Action
      <3>2. OK([c EXCEPT !.stage = IF Settled(c) THEN "built" ELSE @])
        <4>1. Move(e, n, [c EXCEPT !.stage = IF Settled(c) THEN "built" ELSE @])
          BY <2>5 DEF Settle, Act
        <4> HIDE DEF c
        <4> QED
          BY <3>1, <4>1 DEF Action
      <3> QED
        BY <3>2
    <2> QED
      BY <2>1, <2>2, <2>3, <2>4, <2>5
  <1>4. /\ Act(e, n)' = b /\ job'[e].at = "build" /\ b # None
        /\ \A y \in Name : y # n => Act(e, y)' = Act(e, y)
    BY <1>1, <1>3, Moved, TypesOf, NoneAssumption DEF LayerInv, DataInv
  <1>5. /\ Active(e, x) <=> Active(e, x)'
        /\ Active(e, x) => /\ Act(e, x)'.fp = Act(e, x).fp /\ Act(e, x)'.pfp = Act(e, x).pfp
                           /\ Act(e, x)'.change = Act(e, x).change
                           /\ Act(e, x)'.swapped = Act(e, x).swapped
    BY <1>1, <1>3, <1>4 DEF Active
  <1> QED
    BY <1>1, <1>4, <1>5, BuildLayer

LEMMA PhaseLayer ==
    ASSUME LayerInv, WarehouseInv', NEW e \in Env, BuildDone(e) \/ CheckAlive(e), NEW x \in Name
    PROVE  LayerOK(e, x)'
  <1>1. ApplySteps(e) /\ UNCHANGED <<rows, view>>
    BY DEF ApplySteps, BuildDone, CheckAlive, storeVars
  <1>2. /\ job[e].at # "idle" /\ job'[e].at \in {"views", "checked"} /\ Act(e, x)' = Act(e, x)
        /\ job'[e].at = "checked" => CheckAlive(e)
    BY TypesOf DEF LayerInv, DataInv, BuildDone, CheckAlive, Swapped, Act, JobTypeOK, Job
  <1>3. CheckAlive(e) /\ Active(e, x) => Act(e, x).swapped
    BY DEF CheckAlive, Swapped, Acts, Active, Act
  <1> QED
    BY <1>1, <1>2, <1>3, BuildLayer DEF Active

\* Once the views are being switched nothing is missing: the apply gets to its end.
LEMMA EndsBefore ==
    ASSUME Switching, LayerInv, NEW e \in Env, ApplyEnds(e)
    PROVE  job[e].at = "build"
  <1> SUFFICES ASSUME job[e].at \in {"views", "checked"}
               PROVE  FALSE
    BY TypesOf DEF ApplyEnds, LayerInv, DataInv, JobTypeOK, Job
  <1>1. Stages(e) \cap FailAt = {}
    BY DEF Stages, Switching
  <1>2. ASSUME NEW x \in Name, Active(e, x), Act(e, x).change # "removed"
        PROVE  Exists(x, Act(e, x).pfp) /\ Alive(x, Act(e, x).fp)
    <2>1. PICK a \in Action : a = Act(e, x) /\ a.stage = "built" /\ Promised(x, a)
      BY <1>2, ActiveOK DEF LayerInv
    <2>2. a.fp \in Fp /\ Alive(x, a.fp) /\ a.pfp = Physics(x, a.fp)
      BY <2>1 DEF Promised, Staged, Sourced, Action
    <2> QED
      BY <2>1, <2>2 DEF LayerInv, DataInv, DataOK, VersionOK
  <1>3. CanPromote(Entries(e))
    BY <1>2 DEF CanPromote, Entries, Acts, Active, Act
  <1> QED
    BY <1>1, <1>2, <1>3 DEF ApplyEnds, Refused, At, Acts, Active, Act

LEMMA LayerStep ==
    ASSUME Undisturbed, Switching, LayerInv, DataInv', [Next]_vars, NEW d \in Env, NEW x \in Name
    PROVE  LayerOK(d, x)'
  <1>1. DataInv /\ WarehouseInv /\ WarehouseInv' /\ JobTypeOK
    BY TypesOf DEF LayerInv, DataInv
  <1>2. ASSUME NEW e \in Env, ApplySteps(e)
        PROVE  LayerOK(d, x)'
    <2>1. CASE d # e
      BY <1>1, <1>2, <2>1, OthersLayer
    <2>2. CASE d = e
      <3>1. CASE Plan(d)
        BY <1>1, <3>1, PlanLayer
      <3>2. CASE BuildDone(d) \/ CheckAlive(d)
        BY <1>1, <3>2, PhaseLayer
      <3>3. CASE PromoteEnv(d) \/ CommitPromote(d)
        BY <1>1, <3>3, PromoteLayer
      <3>4. CASE ApplyEnds(d)
        <4>1. UNCHANGED <<rows, view>> /\ job' = [job EXCEPT ![d] = NoJob] /\ ApplySteps(d)
          BY <3>4 DEF ApplyEnds, storeVars, ApplySteps
        <4> QED
          BY <1>1, <3>4, <4>1, EndsBefore, EndLayer
      <3>5. ASSUME NEW n \in Name, NEW i \in Interval, BatchFails(d, n, i)
            PROVE  LayerOK(d, x)'
        <4>1. /\ UNCHANGED <<rows, view>> /\ job' = [job EXCEPT ![d] = NoJob] /\ ApplySteps(d)
              /\ job[d].at = "build"
          BY <3>5 DEF BatchFails, MarkNotDone, ApplySteps, At
        <4> QED
          BY <1>1, <4>1, EndLayer
      <3>6. ASSUME NEW n \in Name, SwapView(d, n)
            PROVE  LayerOK(d, x)'
        BY <1>1, <3>6, SwapLayer
      <3>7. ASSUME NEW n \in Name,
                   \/ Inherit(d, n) \/ CreateEmpty(d, n) \/ CreateFull(d, n) \/ Register(d, n)
                   \/ \E i \in Interval : Load(d, n, i) \/ Settle(d, n, i)
            PROVE  LayerOK(d, x)'
        BY <1>1, <3>7, StageLayer
      <3> QED
        BY <1>2, <2>2, <3>1, <3>2, <3>3, <3>4, <3>5, <3>6, <3>7 DEF ApplySteps
    <2> QED
      BY <2>1, <2>2
  <1>3. CASE JanitorSteps
    <2>1. job' = job /\ rows' = rows /\ view' = view
      BY <1>3, JanitorStays
      DEF JanitorSteps, JanitorLists, JanitorSurveys, JanitorEnds, JanitorClaims,
          JanitorLosesClaim, JanitorDrops, DeleteSnapshotIfDoomed, storeVars
    <2>2. Kept(x)
      <3>1. CASE UNCHANGED snap
        BY <3>1 DEF Kept, Physics
      <3>2. ASSUME NEW k \in Key, JanitorClaims(k)
            PROVE  Kept(x)
        BY <1>1, <3>2 DEF JanitorClaims, DeleteSnapshotIfDoomed, Kept, Alive, Physics, Key,
                          WarehouseInv, TypeOK, StoreTypeOK
      <3> QED
        BY <1>3, <3>1, <3>2
        DEF JanitorSteps, JanitorLists, JanitorSurveys, JanitorEnds, JanitorLosesClaim,
            JanitorDrops, storeVars
    <2> QED
      BY <1>1, <2>1, <2>2, LayerStays
  <1>4. CASE TimePasses
    <2>1. job' = job /\ rows' = rows /\ view' = view
      BY <1>4 DEF TimePasses, TtlPasses
    <2>2. Kept(x)
      BY <1>4 DEF TimePasses, TtlPasses, Kept, Alive, Physics, Older, Key
    <2> QED
      BY <1>1, <2>1, <2>2, LayerStays
  <1>5. CASE UNCHANGED vars
    <2>1. job' = job /\ rows' = rows /\ view' = view /\ Kept(x)
      BY <1>5 DEF vars, storeVars, Kept, Physics
    <2> QED
      BY <1>1, <2>1, LayerStays
  <1> QED
    BY <1>2, <1>3, <1>4, <1>5, NextSteps

LEMMA LayerInit ==
    ASSUME Init
    PROVE  LayerInv
  <1>1. \A e \in Env, x \in Name : /\ rows[e][x] = None /\ view[e][x] = None
                                   /\ job[e].at = "idle"
    BY NoJobTyped DEF Init, StoreInit
  <1> QED
    BY <1>1, DataInit DEF LayerInv, LayerOK, Follows, Active

\* The view of a model is what its row says, until its apply has switched it; from
\* then on it is what the row will say.
THEOREM LayerInvariant ==
    ASSUME Undisturbed, Switching
    PROVE  Spec => []LayerInv
  <1>1. LayerInv /\ DataInv' /\ [Next]_vars => LayerInv'
    BY LayerStep DEF LayerInv
  <1> QED
    BY DataInvariant, LayerInit, <1>1, PTL DEF Spec

\* Whenever no apply is at work on an environment its views read the physics of
\* the versions its rows point to.
THEOREM WarehouseViewsFollowRows ==
    ASSUME Undisturbed, Switching
    PROVE  Spec => []ViewsFollowRows
  <1>1. LayerInv => ViewsFollowRows
    BY DEF LayerInv, LayerOK, Follows, Active, Physics, ViewsFollowRows
  <1> QED
    BY LayerInvariant, <1>1, PTL

\* No view, not even of an apply half way, reads a table that is not there.
THEOREM WarehouseViewsResolve ==
    ASSUME Undisturbed, Switching
    PROVE  Spec => []ViewsResolve
  <1>1. LayerInv => ViewsResolve
    <2> SUFFICES ASSUME LayerInv, NEW e \in Env, NEW x \in Name, view[e][x] # None
                 PROVE  Exists(x, view[e][x])
      BY DEF ViewsResolve
    <2>1. LayerOK(e, x)
      BY DEF LayerInv
    <2>2. CASE Follows(e, x)
      <3>1. PICK f \in Fp : f = rows[e][x] /\ Alive(x, f)
        BY <2>2, TypesOf DEF Follows, LayerInv, DataInv
      <3>2. view[e][x] = Physics(x, f)
        BY <2>2, <3>1 DEF Follows
      <3> QED
        BY <3>1, <3>2 DEF LayerInv, DataInv, DataOK, VersionOK
    <2>3. CASE ~Follows(e, x)
      <3>1. Active(e, x) /\ Act(e, x).swapped /\ Act(e, x).change # "unchanged"
        BY <2>1, <2>3 DEF LayerOK
      <3>2. PICK a \in Action : a = Act(e, x)
        BY <3>1, ActiveOK DEF LayerInv
      <3>3. /\ a.change = "changed" /\ view[e][x] = a.pfp /\ job[e].at \in {"views", "checked"}
        BY <2>1, <3>1, <3>2, TypesOf
        DEF LayerOK, Switched, Action, LayerInv, DataInv, JobTypeOK, Job, Active
      <3>4. a.stage = "built" /\ Promised(x, a)
        BY <3>1, <3>2, <3>3, ActiveOK DEF LayerInv
      <3>5. a.fp \in Fp /\ Alive(x, a.fp) /\ a.pfp = Physics(x, a.fp)
        BY <3>4 DEF Promised, Staged, Sourced, Action
      <3> QED
        BY <3>3, <3>5 DEF LayerInv, DataInv, DataOK, VersionOK
    <2> QED
      BY <2>2, <2>3
  <1> QED
    BY LayerInvariant, <1>1, PTL
=============================================================================
