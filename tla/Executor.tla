------------------------------ MODULE Executor ------------------------------
(***************************************************************************)
(* How one environment's applies and ticks build its models                *)
(* (src/src/plan/executor.ts): a fiber per model that waits on the gates   *)
(* of its parents, a bounded number of fibers, batches written and audited *)
(* one transaction each, retries, and the failure of one fiber that        *)
(* interrupts the others.  A batch is one interval (batchSize 1).  Views   *)
(* stand for view and embedded models: they hold no rows, and a model that *)
(* reads one reads the tables below it.  The environment lock lets one     *)
(* apply run at a time (StateLock); what it does not stop is a transaction *)
(* an interrupted fiber has left open in a Postgres pool.                  *)
(***************************************************************************)
EXTENDS Naturals, FiniteSets, Sequences

CONSTANTS Order,        \* the models, parents first (graph.order)
          Deps,         \* [Model -> SUBSET Model]: the refs of each model
          Table,        \* the time-range models; the others are views
          Dialect,      \* "duckdb" or "postgres"
          Jobs,         \* modelConcurrency
          Concurrency,  \* batches of one model at once
          Attempts,     \* retries of a batch
          Lookback,     \* done intervals read again by every apply
          MaxInterval,  \* bound: intervals that may become due
          MaxFaults     \* bound: applies that fail or are killed

Model == {Order[p] : p \in 1 .. Len(Order)}
Interval == 1 .. MaxInterval

ASSUME ExecutorAssumption ==
    /\ Table \subseteq Model /\ Deps \in [Model -> SUBSET Model]
    /\ \A p \in 1 .. Len(Order) : Deps[Order[p]] \subseteq {Order[q] : q \in 1 .. p - 1}
    /\ {Jobs, Concurrency, Attempts, Lookback, MaxInterval, MaxFaults} \subseteq Nat

VARIABLES phase,      \* "idle" or "building"
          fiber,      \* what the fiber of a model is doing in this apply
          batch,      \* what became of a batch of a model in this apply
          tries,      \* retries a batch has used
          open,       \* the transactions open in the database
          rows,       \* the loads whose rows a table holds for an interval
          whole,      \* whether the last load read complete parents
          ledger,     \* the mark of an interval
          registered, \* the models whose version is in the store
          now,        \* intervals over by now
          faults,     \* history: failures and kills so far
          overlapped  \* history: intervals loaded while an orphan was open on them

apply == <<phase, fiber, batch, tries>>
tables == <<open, rows, whole, overlapped>>
vars == <<phase, fiber, batch, tries, open, rows, whole, ledger, registered, now, faults, overlapped>>

Place == Table \X Interval
Tx == [at : Place, id : Nat, seen : SUBSET Nat, whole : BOOLEAN, owned : BOOLEAN]

TypeOK ==
    /\ phase \in {"idle", "building"}
    /\ fiber \in [Model -> {"absent", "queued", "waiting", "building", "built"}]
    /\ batch \in [Place -> {"none", "todo", "writing", "retry", "written", "done"}]
    /\ tries \in [Place -> 0 .. Attempts]
    /\ \A t \in open : t.at \in Place /\ t.id \in Nat /\ t.id \notin t.seen /\ t.whole \in BOOLEAN
    /\ \A t, u \in open : t.owned /\ u.owned /\ t.at = u.at => t = u
    /\ rows \in [Place -> SUBSET (0 .. MaxFaults + 1)]
    /\ whole \in [Place -> BOOLEAN]
    /\ ledger \in [Place -> {"none", "done", "failed"}]
    /\ registered \subseteq Model
    /\ now \in 0 .. MaxInterval /\ faults \in 0 .. MaxFaults /\ overlapped \subseteq Place

Init ==
    /\ phase = "idle"
    /\ fiber = [m \in Model |-> "absent"]
    /\ batch = [p \in Place |-> "none"] /\ tries = [p \in Place |-> 0]
    /\ open = {} /\ rows = [p \in Place |-> {}] /\ whole = [p \in Place |-> FALSE]
    /\ ledger = [p \in Place |-> "none"]
    /\ registered = {} /\ now = 0 /\ faults = 0 /\ overlapped = {}

(***************************************************************************)
(* The plan of an apply, made under the same lock.                         *)
(***************************************************************************)
\* A bug to detect: an interval that was tried and failed is not tried again.
Attempted(m) == {i \in 1 .. now : ledger[m, i] # "none"}

Done(m) == {i \in 1 .. now : ledger[m, i] = "done"}
Reread(m) == {i \in Done(m) : Cardinality({j \in Done(m) : j > i}) < Lookback}
Backfill(m) == IF m \in Table THEN ((1 .. now) \ Done(m)) \cup Reread(m) ELSE {}
WorkingIn == {m \in Model : m \notin registered \/ Backfill(m) # {}}

Start ==
    /\ phase = "idle"
    /\ phase' = "building"
    /\ fiber' = [m \in Model |-> IF m \in WorkingIn THEN "queued" ELSE "absent"]
    /\ batch' = [p \in Place |-> IF p[2] \in Backfill(p[1]) THEN "todo" ELSE "none"]
    /\ tries' = [p \in Place |-> 0]
    /\ UNCHANGED <<tables, ledger, registered, now, faults>>

(***************************************************************************)
(* The fibers.  DuckDB holds one connection: one model, one batch at once. *)
(***************************************************************************)
Width(n) == IF Dialect = "duckdb" \/ n = 0 THEN 1 ELSE n

\* A bug to detect: the fibers are started in no particular order.
NextQueuedAny(m) == TRUE

Position(m) == CHOOSE p \in 1 .. Len(Order) : Order[p] = m
NextQueued(m) == \A k \in Model : fiber[k] = "queued" => Position(m) <= Position(k)
Running == {m \in Model : fiber[m] \in {"waiting", "building"}}

\* forEach over the working models takes the next one when a slot is free.
Launch(m) ==
    /\ fiber[m] = "queued" /\ NextQueued(m)
    /\ Cardinality(Running) < Width(Jobs)
    /\ fiber' = [fiber EXCEPT ![m] = "waiting"]
    /\ UNCHANGED <<phase, batch, tries, tables, ledger, registered, now, faults>>

\* A bug to detect: the gates are not awaited.
GatesIgnored(m) == TRUE

\* Only the parents this plan builds have a gate.
GatesOpen(m) == \A k \in Deps[m] : fiber[k] \in {"absent", "built"}

\* A table is created empty and its version registered before its backfill.
Enter(m) ==
    /\ fiber[m] = "waiting" /\ GatesOpen(m)
    /\ fiber' = [fiber EXCEPT ![m] = "building"]
    /\ registered' = IF m \in Table THEN registered \cup {m} ELSE registered
    /\ UNCHANGED <<phase, batch, tries, tables, ledger, now, faults>>

\* A view is created, then registered.
BuildView(m) ==
    /\ m \notin Table /\ fiber[m] = "building" /\ m \notin registered
    /\ registered' = registered \cup {m}
    /\ UNCHANGED <<apply, tables, ledger, now, faults>>

\* The fiber ends: its gate opens.
Built(m) ==
    /\ fiber[m] = "building" /\ m \in registered
    /\ \A p \in Place : p[1] = m => batch[p] \in {"none", "done"}
    /\ fiber' = [fiber EXCEPT ![m] = "built"]
    /\ UNCHANGED <<phase, batch, tries, tables, ledger, registered, now, faults>>

\* Every fiber has ended: the views are swapped and the environment promoted.
Finish ==
    /\ phase = "building"
    /\ \A m \in Model : fiber[m] \in {"absent", "built"}
    /\ phase' = "idle"
    /\ UNCHANGED <<fiber, batch, tries, tables, ledger, registered, now, faults>>

(***************************************************************************)
(* The batches of one model.                                               *)
(***************************************************************************)
\* The tables a model reads, through the views among its parents.
Closed(m) == {S \in SUBSET Model : Deps[m] \subseteq S /\ \A k \in S \ Table : Deps[k] \subseteq S}
Sources(m) == {k \in Table : \A S \in Closed(m) : k \in S}

Complete(m, i) == \A k \in Sources(m) : rows[k, i] # {} /\ whole[k, i]

InFlight(m) == {i \in Interval : batch[m, i] \in {"writing", "retry", "written"}}
NextBatch(m, i) ==
    \/ batch[m, i] = "retry"
    \/ /\ batch[m, i] = "todo" /\ Cardinality(InFlight(m)) < Width(Concurrency)
       /\ \A j \in Interval : batch[m, j] = "todo" => i <= j

OpenAt(p) == {t \in open : t.at = p}
FreshId(p) == CHOOSE n \in 0 .. MaxFaults + 1 : n \notin rows[p] \cup {t.id : t \in OpenAt(p)}

\* A bug to detect: the rows of the interval are not deleted first.
DeletedNothing(p) == {}
\* The rows the DELETE sees: those committed when it runs.
Deleted(p) == rows[p]

\* BEGIN, the DELETE and the INSERT: what they see is what is committed now.
Write(m, i) ==
    LET p == <<m, i>> IN
    /\ fiber[m] = "building" /\ NextBatch(m, i)
    /\ batch' = [batch EXCEPT ![p] = "writing"]
    /\ open' = open \cup {[at |-> p, id |-> FreshId(p), seen |-> Deleted(p),
                           whole |-> Complete(m, i), owned |-> TRUE]}
    /\ overlapped' = IF OpenAt(p) = {} THEN overlapped ELSE overlapped \cup {p}
    /\ UNCHANGED <<phase, fiber, tries, rows, whole, ledger, registered, now, faults>>

\* COMMIT: what the DELETE saw goes away, the new rows appear.
CommitTx(t) ==
    /\ open' = open \ {t}
    /\ rows' = [rows EXCEPT ![t.at] = (@ \ t.seen) \cup {t.id}]
    /\ whole' = [whole EXCEPT ![t.at] = t.whole]

Commit(t) ==
    /\ t.owned /\ CommitTx(t)
    /\ batch' = [batch EXCEPT ![t.at] = "written"]
    /\ UNCHANGED <<phase, fiber, tries, ledger, registered, now, faults, overlapped>>

\* The audits of the batch pass and its interval is marked done.
MarkDone(m, i) ==
    /\ batch[m, i] = "written"
    /\ batch' = [batch EXCEPT ![<<m, i>>] = "done"]
    /\ ledger' = [ledger EXCEPT ![<<m, i>>] = "done"]
    /\ UNCHANGED <<phase, fiber, tries, tables, registered, now, faults>>

(***************************************************************************)
(* Failures.  The first fiber to fail ends the apply: the others are       *)
(* interrupted where they are.  A promise of the pool is not cancelled     *)
(* with the fiber that awaits it, so its transaction stays open; DuckDB's  *)
(* transaction rolls back when its fiber is interrupted.                   *)
(***************************************************************************)
Fault == faults < MaxFaults /\ faults' = faults + 1

Orphaned(txs) == IF Dialect = "postgres" THEN {[t EXCEPT !.owned = FALSE] : t \in txs} ELSE {}

Abort ==
    /\ phase' = "idle"
    /\ fiber' = [m \in Model |-> "absent"]
    /\ batch' = [p \in Place |-> "none"] /\ tries' = [p \in Place |-> 0]

\* The mark of a failed batch; an error of the store is ignored.
MarkFailed(p) == ledger' \in {ledger, [ledger EXCEPT ![p] = "failed"]}

\* The transaction fails and rolls back; the retry keeps the slot.
Retry(t) ==
    /\ t.owned /\ tries[t.at] < Attempts
    /\ open' = open \ {t}
    /\ batch' = [batch EXCEPT ![t.at] = "retry"]
    /\ tries' = [tries EXCEPT ![t.at] = @ + 1]
    /\ UNCHANGED <<phase, fiber, rows, whole, overlapped, ledger, registered, now, faults>>

WriteFails(t) ==
    /\ t.owned /\ tries[t.at] = Attempts /\ Fault
    /\ MarkFailed(t.at) /\ Abort
    /\ open' = Orphaned(open \ {t})
    /\ UNCHANGED <<rows, whole, overlapped, registered, now>>

AuditFails(m, i) ==
    /\ batch[m, i] = "written" /\ Fault
    /\ MarkFailed(<<m, i>>) /\ Abort
    /\ open' = Orphaned(open)
    /\ UNCHANGED <<rows, whole, overlapped, registered, now>>

\* Any other statement or store call of a fiber fails.
BuildFails(m) ==
    /\ fiber[m] = "building" /\ Fault
    /\ Abort /\ open' = Orphaned(open)
    /\ UNCHANGED <<rows, whole, overlapped, ledger, registered, now>>

\* The process is killed: the database rolls back what its connections held.
Killed ==
    /\ phase = "building" /\ Fault
    /\ Abort /\ open' = {t \in open : ~t.owned}
    /\ UNCHANGED <<rows, whole, overlapped, ledger, registered, now>>

\* A transaction nobody awaits commits, or fails.
OrphanEnds(t) ==
    /\ ~t.owned
    /\ \/ CommitTx(t)
       \/ open' = open \ {t} /\ UNCHANGED <<rows, whole>>
    /\ UNCHANGED <<apply, overlapped, ledger, registered, now, faults>>

\* Time passes.  An apply reads the clock once, when it plans, so it does not
\* see an interval end while it runs.
IntervalEnds ==
    /\ phase = "idle" /\ now < MaxInterval /\ now' = now + 1
    /\ UNCHANGED <<apply, tables, ledger, registered, faults>>

Fiber(m) == Launch(m) \/ Enter(m) \/ BuildView(m) \/ Built(m)
Batch(m, i) == Write(m, i) \/ MarkDone(m, i)
Progress ==
    \/ \E m \in Model : Fiber(m)
    \/ \E m \in Table, i \in Interval : Batch(m, i)
    \/ \E t \in open : Commit(t) \/ OrphanEnds(t)
    \/ Finish

Failure ==
    \/ \E t \in open : Retry(t) \/ WriteFails(t)
    \/ \E m \in Table, i \in Interval : AuditFails(m, i)
    \/ \E m \in Model : BuildFails(m)
    \/ Killed

Next == Progress \/ Failure \/ Start \/ IntervalEnds

(***************************************************************************)
(* Fairness.  A fiber that can run does, a statement the database has      *)
(* taken ends (Progress); cron, systemd or the daemon starts another tick  *)
(* (Start).                                                                *)
(***************************************************************************)
Spec == Init /\ [][Next]_vars /\ WF_vars(Progress) /\ WF_vars(Start)

-----------------------------------------------------------------------------
\* An interval marked done was computed from parents that had it, all the way
\* up: "a model starts as soon as its parents from this plan are ready".
DoneIsComplete == \A p \in Place : ledger[p] = "done" => rows[p] # {} /\ whole[p]

\* Failures, retries, kills and reloads never leave an interval's rows in the
\* table twice, but where a load overlapped a transaction an interrupted fiber
\* left open: "a batch is transactional, a retry is safe".
LoadedOnce == \A p \in Place : Cardinality(rows[p]) > 1 => p \in overlapped

\* Waiting on gates never takes the slots the parents need: every apply ends.
ApplyEnds == phase = "building" ~> phase = "idle"

\* Whatever an apply left undone, later ticks make up for: when failures
\* stop, every interval ends up done and stays so.
CatchesUp == <>[](\A m \in Table : \A i \in 1 .. now : ledger[m, i] = "done")
=============================================================================
