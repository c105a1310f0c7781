----------------------------- MODULE Compaction -----------------------------
(***************************************************************************)
(* `efmesh compact` (plan/compact.ts) on one dated partition: the small    *)
(* files a writer appended are merged into one, which is published by a    *)
(* rename, and then the files that were listed before the merge are        *)
(* removed.  There is no claim and no transaction: the writer goes on      *)
(* appending all the while, and a compactor may stop between any two       *)
(* steps.  The command takes the janitor's lease; the library does not.    *)
(*                                                                         *)
(* A batch is a file of one row, and the row has the batch's name; under a *)
(* unique key two batches of one key are two deliveries of the same row.   *)
(***************************************************************************)
EXTENDS Naturals, FiniteSets

CONSTANTS Batch,      \* the files the writer may append, one row each
          KeyOf(_),   \* the unique key of a batch's row
          Compactor,  \* the processes that compact
          Lease,      \* they take the janitor's lease (TRUE for the command)
          Policies,   \* the declared policies a run may be about
          Pub,        \* the name the merged file is published under
          Gone,       \* the content of a merged file that does not exist
          MaxCrashes  \* bound: how many compactors may be killed

\* What a policy may be once its declaration was accepted: minFiles is any
\* number, and nothing asks the name of the merged file for the ".parquet"
\* that makes it visible.
Policy == [keyed : BOOLEAN, minFiles : Nat, parquet : BOOLEAN]

ASSUME CompactionAssumption ==
    /\ Policies \subseteq Policy
    /\ Pub \notin Batch
    /\ Gone \notin [Batch -> Nat]
    /\ Lease \in BOOLEAN
    /\ MaxCrashes \in Nat

VARIABLES policy,   \* the resolved policy of the partition
          past,     \* the partition is dated before the current UTC day
          fresh,    \* its newest file is younger than the grace period
          raw,      \* the batches whose files are there
          merged,   \* the published file: how often it has each row, or Gone
          landed,   \* the batches the writer has appended (history)
          pc,       \* where each compactor stands in this partition
          snap,     \* the files it listed
          tmp,      \* the file it wrote beside the partition's
          left,     \* the listed files it has not removed yet
          crashes   \* how many were killed

vars == <<policy, past, fresh, raw, merged, landed, pc, snap, tmp, left, crashes>>

Present == raw \cup (IF merged = Gone THEN {} ELSE {Pub})

\* snapshotFiles, and every reader's glob: the ".parquet" files.
Listed == {f \in Present : f = Pub => policy.parquet}

\* How often these files have this row.
Copies(files, b) == (IF b \in files THEN 1 ELSE 0)
                    + (IF Pub \in files /\ merged # Gone THEN merged[b] ELSE 0)

\* Two rows a merge keeps one of.
Same(a, b) == a = b \/ (policy.keyed /\ KeyOf(a) = KeyOf(b))

\* A content holds this row, or the one its key kept.
Holds(content, b) == \E a \in Batch : Same(a, b) /\ content[a] > 0

\* (The merge of a writer that is taken for exactly-once in both cases.)
MergeOfAll(files) == {[b \in Batch |-> Copies(files, b)]}

\* compactMergeSql: every row there is, or one row of each key, whichever
\* the tie-breaker puts first.
MergeOf(files) ==
    LET rows == {b \in Batch : Copies(files, b) > 0}
        kept == {s \in SUBSET rows :
                   \A b \in rows : \E a \in s : \A c \in s : KeyOf(c) = KeyOf(b) <=> c = a}
    IN IF policy.keyed
       THEN {[b \in Batch |-> IF b \in s THEN 1 ELSE 0] : s \in kept}
       ELSE {[b \in Batch |-> Copies(files, b)]}

Busy == {c \in Compactor : pc[c] # "idle"}

-----------------------------------------------------------------------------
Init ==
    /\ policy \in Policies
    /\ past = FALSE /\ fresh = FALSE
    /\ raw = {} /\ merged = Gone /\ landed = {}
    /\ pc = [c \in Compactor |-> "idle"]
    /\ snap = [c \in Compactor |-> {}]
    /\ tmp = [c \in Compactor |-> Gone]
    /\ left = [c \in Compactor |-> {}]
    /\ crashes = 0

\* The writer appends a file, at any time: late batches reach a partition
\* whose day is over.
Land(b) ==
    /\ b \notin landed
    /\ landed' = landed \cup {b}
    /\ raw' = raw \cup {b}
    /\ fresh' = TRUE
    /\ UNCHANGED <<policy, past, merged, pc, snap, tmp, left, crashes>>

DayPasses ==
    /\ ~past /\ past' = TRUE
    /\ UNCHANGED <<policy, fresh, raw, merged, landed, pc, snap, tmp, left, crashes>>

GracePasses ==
    /\ fresh /\ fresh' = FALSE
    /\ UNCHANGED <<policy, past, raw, merged, landed, pc, snap, tmp, left, crashes>>

\* What a partition must be to be merged: it has published files, it is not
\* of the current day, it has as many files as the policy asks for and is past
\* its grace period.
Settled == past /\ ~fresh /\ Listed # {} /\ Cardinality(Listed) >= policy.minFiles

\* A compactor reaches the partition and lists it.
Begin(c) ==
    /\ Lease => Busy = {}
    /\ pc[c] = "idle"
    /\ Settled
    /\ snap' = [snap EXCEPT ![c] = Listed]
    /\ pc' = [pc EXCEPT ![c] = "merging"]
    /\ UNCHANGED <<policy, past, fresh, raw, merged, landed, tmp, left, crashes>>

\* COPY reads the files that were listed, all of them or it fails, into a
\* file of this process's own.
Copy(c) ==
    /\ pc[c] = "merging"
    /\ snap[c] \subseteq Present
    /\ \E content \in MergeOf(snap[c]) : tmp' = [tmp EXCEPT ![c] = content]
    /\ pc' = [pc EXCEPT ![c] = "merged"]
    /\ UNCHANGED <<policy, past, fresh, raw, merged, landed, snap, left, crashes>>

\* COPY or the count over what it wrote fails: the temp file goes, and so
\* does the whole command.
CopyFails(c) ==
    /\ pc[c] \in {"merging", "merged"}
    /\ tmp' = [tmp EXCEPT ![c] = Gone]
    /\ snap' = [snap EXCEPT ![c] = {}]
    /\ pc' = [pc EXCEPT ![c] = "idle"]
    /\ UNCHANGED <<policy, past, fresh, raw, merged, landed, left, crashes>>

\* (What was listed is removed, the published file along with it.)
PublishAndRemoveAll(c) ==
    /\ pc[c] = "merged"
    /\ merged' = tmp[c]
    /\ tmp' = [tmp EXCEPT ![c] = Gone]
    /\ fresh' = TRUE
    /\ left' = [left EXCEPT ![c] = snap[c]]
    /\ pc' = [pc EXCEPT ![c] = "removing"]
    /\ UNCHANGED <<policy, past, raw, landed, snap, crashes>>

\* The rename replaces whatever the name held; the file keeps the time it
\* was written at, and is the partition's newest.
Publish(c) ==
    /\ pc[c] = "merged"
    /\ merged' = tmp[c]
    /\ tmp' = [tmp EXCEPT ![c] = Gone]
    /\ fresh' = TRUE
    /\ left' = [left EXCEPT ![c] = snap[c] \ {Pub}]
    /\ pc' = [pc EXCEPT ![c] = "removing"]
    /\ UNCHANGED <<policy, past, raw, landed, snap, crashes>>

\* One file is removed; a file that is gone already is no error.
Remove(c) ==
    /\ pc[c] = "removing"
    /\ \E f \in left[c] :
        /\ raw' = raw \ {f}
        /\ merged' = IF f = Pub THEN Gone ELSE merged
        /\ left' = [left EXCEPT ![c] = @ \ {f}]
    /\ UNCHANGED <<policy, past, fresh, landed, pc, snap, tmp, crashes>>

Finish(c) ==
    /\ pc[c] = "removing" /\ left[c] = {}
    /\ pc' = [pc EXCEPT ![c] = "idle"]
    /\ snap' = [snap EXCEPT ![c] = {}]
    /\ UNCHANGED <<policy, past, fresh, raw, merged, landed, tmp, left, crashes>>

\* The process stops, or a file cannot be renamed or removed.  Its temp file
\* stays, under a name nobody lists; the lease expires.
Crash(c) ==
    /\ pc[c] # "idle" /\ crashes < MaxCrashes
    /\ crashes' = crashes + 1
    /\ pc' = [pc EXCEPT ![c] = "idle"]
    /\ snap' = [snap EXCEPT ![c] = {}]
    /\ tmp' = [tmp EXCEPT ![c] = Gone]
    /\ left' = [left EXCEPT ![c] = {}]
    /\ UNCHANGED <<policy, past, fresh, raw, merged, landed>>

Next ==
    \/ \E b \in Batch : Land(b)
    \/ DayPasses
    \/ GracePasses
    \/ \E c \in Compactor :
        \/ Begin(c) \/ Copy(c) \/ CopyFails(c) \/ Publish(c)
        \/ Remove(c) \/ Finish(c) \/ Crash(c)

Spec == Init /\ [][Next]_vars

-----------------------------------------------------------------------------
Content == [Batch -> Nat]

TypeOK ==
    /\ policy \in Policies
    /\ past \in BOOLEAN /\ fresh \in BOOLEAN
    /\ raw \subseteq Batch /\ landed \subseteq Batch
    /\ merged \in Content \cup {Gone}
    /\ pc \in [Compactor -> {"idle", "merging", "merged", "removing"}]
    /\ snap \in [Compactor -> SUBSET (Batch \cup {Pub})]
    /\ tmp \in [Compactor -> Content \cup {Gone}]
    /\ left \in [Compactor -> SUBSET Batch]   \* never the published file
    /\ crashes \in Nat

\* Whatever the writer appended is read: the file itself, or a merged file
\* with the row or with the one its key kept.  It holds through late files,
\* failed merges and compactors killed at any step (compact.ts, "a file that
\* arrives mid-run is left in place rather than lost").
NothingLost ==
    \A b \in landed : \E a \in Batch : Same(a, b) /\ Copies(Listed, a) > 0

\* A merged file has a row at most once, unless a merge without a key followed
\* a compactor that was killed: then the files it had not removed yet are
\* merged once more.
MergedOnce ==
    merged # Gone /\ (policy.keyed \/ crashes = 0)
        => \A a, b \in Batch : merged[a] > 0 /\ merged[b] > 0 /\ Same(a, b)
                                   => a = b /\ merged[a] = 1

\* With nobody in between publishing and removing, and nobody ever killed
\* there, a reader finds every row of an exactly-once writer exactly once.
OnceAtRest ==
    ~policy.keyed /\ crashes = 0 /\ (\A c \in Compactor : pc[c] # "removing")
        => \A b \in landed : Copies(Listed, b) = 1

\* Both: what is appended once is read once, before a merge and after it.
ReadOnce == MergedOnce /\ OnceAtRest

\* A merge without a key is "legitimate for a lake whose writer is
\* exactly-once" (model.ts:109): no merged file has a row twice.
ConcatenationIsExact == merged # Gone => \A b \in Batch : merged[b] <= 1
=============================================================================
