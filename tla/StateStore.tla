----------------------------- MODULE StateStore -----------------------------
(***************************************************************************)
(* The state store of state/sqlite.ts and state/postgres.ts as far as      *)
(* versions, environments and the interval ledger go: one operator per     *)
(* store method that changes them.  Spec lets any client call any method   *)
(* at any time; Warehouse calls them in the order apply and the janitor    *)
(* do.                                                                     *)
(*                                                                         *)
(* Timestamps are abstracted to what the janitor asks of them: whether     *)
(* they are older than its ttl ("old") or not ("young").  An interval that *)
(* is marked failed is one that is not done: nothing here tells them apart.*)
(***************************************************************************)
EXTENDS Naturals

CONSTANTS Name,      \* model names
          Fp,        \* fingerprints
          Env,       \* environments
          Interval,  \* the intervals of a time-range model
          None       \* no snapshot, no row, no view, no table

VARIABLES snap,    \* table "snapshots": (name, fingerprint) -> record or None
          rows,    \* table "environments": env -> name -> fingerprint or None
          done,    \* table "intervals": fingerprint -> the intervals done
          recent   \* the versions some environment referenced at a moment since
                   \* the last ttl began: history, read by no method

storeVars == <<snap, rows, done, recent>>

Key == Name \X Fp

Snapshot == [pfp: Fp,                            \* physical_fp
             created: {"young", "old"},          \* created_at
             orphaned: {"no", "young", "old"}]   \* orphaned_at, "no" for NULL

ASSUME StoreAssumption == None \notin Fp /\ None \notin Snapshot

\* COALESCE(orphaned_at, created_at): what the ttl is counted from.
OrphanMark(s) == IF s.orphaned = "no" THEN s.created ELSE s.orphaned

Alive(n, f) == snap[<<n, f>>] # None

\* The versions environments point to, and their fingerprints.
Served(r) == {k \in Key : \E e \in Env : r[e][k[1]] = k[2]}
Referenced(r) == {f \in Fp : \E e \in Env, n \in Name : r[e][n] = f}

StoreTypeOK ==
    /\ snap \in [Key -> Snapshot \cup {None}]
    /\ rows \in [Env -> [Name -> Fp \cup {None}]]
    /\ done \in [Fp -> SUBSET Interval]
    /\ recent \subseteq Key

StoreInit ==
    /\ snap = [k \in Key |-> None]
    /\ rows = [e \in Env |-> [n \in Name |-> None]]
    /\ done = [f \in Fp |-> {}]
    /\ recent = {}

-----------------------------------------------------------------------------
\* A repeated upsert keeps the physics of the first one and revives the record.
UpsertSnapshot(n, f, p) ==
    /\ snap' = [snap EXCEPT ![<<n, f>>] =
                    [pfp |-> IF @ = None THEN p ELSE @.pfp,
                     created |-> "young", orphaned |-> "no"]]
    /\ UNCHANGED <<rows, done, recent>>

\* requireSnapshot of every entry.
CanPromote(entries) ==
    \A n \in Name : entries[n] # None => Alive(n, entries[n])

\* (The mark of a version that is referenced again stays.)
RemarkedNeverCleared(s, referenced) ==
    [s EXCEPT !.orphaned = IF ~referenced /\ @ = "no" THEN "young" ELSE @]

\* Orphan bookkeeping: who lost the last reference is marked now, who is
\* referenced again loses the mark.
Remarked(s, referenced) ==
    [s EXCEPT !.orphaned = IF referenced THEN "no"
                           ELSE IF @ = "no" THEN "young" ELSE @]

\* (Promotion that leaves the mark to the first record: created_at decides.)
ReplaceEnvNoMarks(e, entries) ==
    /\ rows' = [rows EXCEPT ![e] = entries]
    /\ UNCHANGED <<snap, done>>
    /\ recent' = recent \cup Served(rows')

\* The writes of promote: the environment's whole set, then the marks.
ReplaceEnv(e, entries) ==
    /\ rows' = [rows EXCEPT ![e] = entries]
    /\ snap' = [k \in Key |->
                  IF snap[k] = None THEN None
                  ELSE Remarked(snap[k], k[2] \in Referenced(rows'))]
    /\ recent' = recent \cup Served(rows')
    /\ UNCHANGED done

Promote(e, entries) == CanPromote(entries) /\ ReplaceEnv(e, entries)

\* (A claim that trusts the caller's list of references.)
ClaimableUnchecked(n, f) ==
    Alive(n, f) /\ OrphanMark(snap[<<n, f>>]) = "old"

\* deleteSnapshotIfDoomed: both conditions are checked with the delete.
Claimable(n, f) ==
    /\ Alive(n, f)
    /\ f \notin Referenced(rows)
    /\ OrphanMark(snap[<<n, f>>]) = "old"

\* (The record is deleted and its ledger stays.)
DeleteKeepsLedger(n, f) ==
    /\ Claimable(n, f)
    /\ snap' = [snap EXCEPT ![<<n, f>>] = None]
    /\ UNCHANGED <<rows, done, recent>>

DeleteSnapshotIfDoomed(n, f) ==
    /\ Claimable(n, f)
    /\ snap' = [snap EXCEPT ![<<n, f>>] = None]
    /\ done' = [done EXCEPT ![f] = {}]
    /\ UNCHANGED <<rows, recent>>

MarkDone(f, intervals) ==
    /\ done' = [done EXCEPT ![f] = @ \cup intervals]
    /\ UNCHANGED <<snap, rows, recent>>

\* markIntervals(..., "failed"), and clearIntervals for restate.
MarkNotDone(f, intervals) ==
    /\ done' = [done EXCEPT ![f] = @ \ intervals]
    /\ UNCHANGED <<snap, rows, recent>>

\* The janitor's ttl passes.
Aged(mark) == IF mark = "young" THEN "old" ELSE mark
Older(s) == [pfp |-> s.pfp, created |-> Aged(s.created), orphaned |-> Aged(s.orphaned)]
TtlPasses ==
    /\ snap' = [k \in Key |->
                  IF snap[k] = None THEN None ELSE Older(snap[k])]
    /\ recent' = Served(rows)
    /\ UNCHANGED <<rows, done>>

StoreNext ==
    \/ \E n \in Name, f, p \in Fp : UpsertSnapshot(n, f, p)
    \/ \E e \in Env, entries \in [Name -> Fp \cup {None}] : Promote(e, entries)
    \/ \E n \in Name, f \in Fp : DeleteSnapshotIfDoomed(n, f)
    \/ \E f \in Fp, intervals \in SUBSET Interval :
           MarkDone(f, intervals) \/ MarkNotDone(f, intervals)
    \/ TtlPasses

StoreSpec == StoreInit /\ [][StoreNext]_storeVars

-----------------------------------------------------------------------------
\* Every environment row points to a snapshot that is in the store: the
\* janitor's claim and the liveness check of promote exclude each other.
RowsAlive ==
    \A e \in Env, n \in Name : rows[e][n] # None => Alive(n, rows[e][n])

\* A version that was served within the last ttl is still in the store,
\* however often environments moved: rolling back to it is a view swap.
RollbackWindow == \A k \in recent : snap[k] # None
=============================================================================
