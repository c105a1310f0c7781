------------------------------- MODULE Ticks -------------------------------
(***************************************************************************)
(* One environment over time: ticks (plan/run.ts) and applies              *)
(* (plan/executor.ts) that load what is missing, restate (plan/restate.ts) *)
(* that has a range loaded again, audits of an interval and of the whole   *)
(* relation, exports, and what the environment tells its consumers: the    *)
(* passport (plan/passport.ts), the manifests beside the data              *)
(* (plan/manifest.ts) and the lag of `status` (plan/status.ts).            *)
(*                                                                         *)
(* A time-range model "A" of the finest grain is read by another one, "B", *)
(* of a coarser grain, whose audits include one of the whole relation; a   *)
(* full model "F" reads B.  The project does not change: what an edit does *)
(* is in Planner and Warehouse.  The environment's lock is taken for       *)
(* granted (StateLock), and so is the schedule of fibers (Executor): one   *)
(* connection, one model and one batch at a time.                          *)
(***************************************************************************)
EXTENDS Intervals, FiniteSets

CONSTANTS MaxTime,    \* bound: the clock stops here
          Grain,      \* the grain of "B", that of "A" being 1
          BatchSize,  \* intervals of a batch
          Lookbacks,  \* how many done intervals each plan may read once more
          Ranges,     \* the ranges somebody may restate
          None,       \* no batch, no operation
          MaxFaults,  \* bound: bad batches, failures and crashes, in all
          Crashes     \* processes may be killed

Table == {"A", "B"}
Model == Table \cup {"F"}
Deps == [m \in Model |-> CASE m = "A" -> {} [] m = "B" -> {"A"} [] m = "F" -> {"B"}]
Unit(m) == IF m = "B" THEN Grain ELSE 1

ASSUME TicksAssumption ==
    /\ MaxTime \in Nat /\ Grain \in Nat \ {0} /\ BatchSize \in Nat \ {0}
    /\ Lookbacks \subseteq Nat /\ MaxFaults \in Nat /\ Crashes \in BOOLEAN
    /\ \A r \in Ranges : r.start \in Nat /\ r.end \in Nat /\ r.start < r.end
    /\ None \notin [start : Nat, end : Nat]

\* An interval of a model, by its start.
Place == UNION {{<<m, s>> : s \in Starts(0, MaxTime, Unit(m))} : m \in Table}
Starting(m, intervals) == {<<m, i.start>> : i \in intervals}

VARIABLES lookback,   \* declared by both tables
          now,        \* the time
          rows,       \* what each interval's rows are: none, ok, bad (an
                      \* interval audit finds it) or dup (only an audit of
                      \* the whole relation does), and whether all they read
                      \* was there
          ledger,     \* none, done or failed
          registered, \* the models whose version has a snapshot
          served,     \* the environment has been promoted
          op,         \* the run or apply that holds the lock
          manifest,   \* the done intervals each manifest lists
          exported,   \* what was exported of B: none, clean or tainted
          restating,  \* a restate that has read what it will clear, or None
          caught,     \* up to where the last good operation has caught up
                      \* (history)
          stale,      \* the places restated and not loaded since (history)
          faults,
          lapsed      \* a process was killed, or a mark or a manifest that
                      \* could not be written was passed over (history)

books == <<manifest, exported, caught>>
vars == <<lookback, now, rows, ledger, registered, served, op, books, restating, stale,
          faults, lapsed>>

Idle == [at |-> "idle", time |-> 0, working |-> {}, built |-> {},
         todo |-> [m \in Table |-> {}], batch |-> None]

-----------------------------------------------------------------------------
(***************************************************************************)
(* Plans.                                                                  *)
(***************************************************************************)
Wanted(m, time) == EnumerateIntervals(Unit(m), 0, time)
With(m, status) == {Interval(p[2], p[2] + Unit(m)) :
                       p \in {q \in Place : q[1] = m /\ ledger[q] = status}}
Done(m) == With(m, "done")

\* The last of the done intervals.
Tail(m) == {i \in Done(m) : Cardinality({j \in Done(m) : j.start > i.start}) < lookback}

\* (A failed interval counts as computed.)
BackfillUntried(m) ==
    MergeIntervals(MissingIntervals(Wanted(m, now), Done(m) \cup With(m, "failed")) \cup Tail(m))

Backfill(m) == MergeIntervals(MissingIntervals(Wanted(m, now), Done(m)) \cup Tail(m))

Batches(m) == UNION {SplitIntoBatches(r, Unit(m), BatchSize) : r \in Backfill(m)}

\* A full model is built once; a tick has nothing to do for it.
Working == {m \in Model : m \notin registered \/ (m \in Table /\ Batches(m) # {})}

Plan == [Idle EXCEPT !.at = "building", !.time = now, !.working = Working,
                     !.todo = [m \in Table |-> Batches(m)]]

\* A tick over an environment that has not been applied is left to a person.
Structural == ~served

-----------------------------------------------------------------------------
Init ==
    /\ lookback \in Lookbacks
    /\ now = 0
    /\ rows = [p \in Place |-> [v |-> "none", whole |-> FALSE]]
    /\ ledger = [p \in Place |-> "none"]
    /\ registered = {} /\ served = FALSE
    /\ op = Idle
    /\ manifest = [m \in Table |-> {}] /\ exported = "none"
    /\ restating = None
    /\ caught = 0 /\ stale = {}
    /\ faults = 0 /\ lapsed = FALSE

TimePasses ==
    /\ now < MaxTime /\ now' = now + 1
    /\ UNCHANGED <<lookback, rows, ledger, registered, served, op, books, restating, stale,
                   faults, lapsed>>

Start(kind) ==
    /\ op.at = "idle"
    /\ kind = "run" => ~Structural
    /\ op' = Plan
    /\ UNCHANGED <<lookback, now, rows, ledger, registered, served, books, restating, stale,
                   faults, lapsed>>

Fault == faults < MaxFaults /\ faults' = faults + 1

(***************************************************************************)
(* Building: parents first, the batches of a table in order.               *)
(***************************************************************************)
Ready(m) ==
    /\ op.at = "building" /\ m \in op.working \ op.built
    /\ Deps[m] \cap op.working \subseteq op.built

\* All that an interval reads has been loaded.
Complete(m, i) == \A k \in Deps[m] : \A p \in Place :
                     p[1] = k /\ i.start <= p[2] /\ p[2] < i.end => rows[p].v # "none"

\* A table is created and registered empty.  A batch replaces the rows of its
\* intervals, in a transaction or by the renames of its files.
Write(m) ==
    /\ Ready(m) /\ m \in Table /\ op.batch = None
    /\ \E b \in op.todo[m] :
        /\ \A c \in op.todo[m] : b.start <= c.start
        /\ op' = [op EXCEPT !.batch = b, !.todo[m] = @ \ {b}]
        /\ LET loaded == IntervalsWithin(b, Unit(m))
               at == Starting(m, loaded)
           IN /\ \E v \in {"ok", "bad", "dup"} :
                    /\ IF v = "ok" THEN UNCHANGED faults ELSE Fault
                    /\ v = "dup" => m = "B"
                    /\ rows' = [p \in Place |->
                                  IF p \in at
                                  THEN [v |-> v,
                                        whole |-> Complete(m, Interval(p[2], p[2] + Unit(m)))]
                                  ELSE rows[p]]
              /\ stale' = {p \in stale : p \notin at \/ \E i \in loaded : \E q \in stale :
                                 q[1] \in Deps[m] /\ i.start <= q[2] /\ q[2] < i.end}
    /\ registered' = registered \cup {m}
    /\ UNCHANGED <<lookback, now, ledger, served, books, restating, lapsed>>

Mark(m, intervals, status) ==
    ledger' = [p \in Place |-> IF p \in Starting(m, intervals) THEN status ELSE ledger[p]]

Verdicts(m, intervals) == {rows[p].v : p \in Starting(m, intervals)}

\* (The mark comes before the audits of the interval.)
MarkUnaudited(m) ==
    /\ Ready(m) /\ m \in Table /\ op.batch # None
    /\ Mark(m, IntervalsWithin(op.batch, Unit(m)), "done")
    /\ op' = [op EXCEPT !.batch = None]
    /\ UNCHANGED <<lookback, now, rows, registered, served, books, restating, stale, faults,
                   lapsed>>

\* The interval audits of the batch pass: its intervals are done.
MarkDone(m) ==
    /\ Ready(m) /\ m \in Table /\ op.batch # None
    /\ LET loaded == IntervalsWithin(op.batch, Unit(m)) IN
        /\ "bad" \notin Verdicts(m, loaded)
        /\ Mark(m, loaded, "done")
    /\ op' = [op EXCEPT !.batch = None]
    /\ UNCHANGED <<lookback, now, rows, registered, served, books, restating, stale, faults,
                   lapsed>>

\* The mark of a failed batch; an error of the store is ignored.
MarkFailed(m, intervals) ==
    \/ Mark(m, intervals, "failed") /\ caught' = 0 /\ UNCHANGED lapsed
    \/ lapsed' = TRUE /\ UNCHANGED <<ledger, caught>>

\* The statement that loads a batch fails: its rows stay as they are.
WriteFails(m) ==
    /\ Ready(m) /\ m \in Table /\ op.batch = None /\ Fault
    /\ \E b \in op.todo[m] :
        /\ \A c \in op.todo[m] : b.start <= c.start
        /\ MarkFailed(m, IntervalsWithin(b, Unit(m)))
    /\ op' = Idle
    /\ registered' = registered \cup {m}
    /\ UNCHANGED <<lookback, now, rows, served, manifest, exported, restating, stale>>

\* A blocking audit finds rows, or cannot be evaluated: the intervals are
\* failed, the operation ends.
AuditFails(m) ==
    /\ Ready(m) /\ m \in Table /\ op.batch # None
    /\ LET loaded == IntervalsWithin(op.batch, Unit(m)) IN
        /\ IF "bad" \in Verdicts(m, loaded) THEN UNCHANGED faults ELSE Fault
        /\ MarkFailed(m, loaded)
    /\ op' = Idle
    /\ UNCHANGED <<lookback, now, rows, registered, served, manifest, exported, restating, stale>>

\* (Only a table's first build writes it.)
BuiltOnce(m) ==
    /\ Ready(m) /\ m \in Table /\ op.batch = None /\ op.todo[m] = {}
    /\ registered' = registered \cup {m}
    /\ manifest' = IF manifest[m] # {} THEN manifest
                   ELSE [manifest EXCEPT ![m] = {i.start : i \in Done(m)}]
    /\ op' = [op EXCEPT !.built = @ \cup {m}]
    /\ UNCHANGED <<lookback, now, rows, ledger, served, exported, caught, restating, stale,
                   faults, lapsed>>

\* After the last batch the manifest is written; should that fail, the build
\* goes on.
Built(m) ==
    /\ Ready(m) /\ m \in Table /\ op.batch = None /\ op.todo[m] = {}
    /\ registered' = registered \cup {m}
    /\ manifest' = [manifest EXCEPT ![m] = {i.start : i \in Done(m)}]
    /\ op' = [op EXCEPT !.built = @ \cup {m}]
    /\ UNCHANGED <<lookback, now, rows, ledger, served, exported, caught, restating, stale,
                   faults, lapsed>>

BuildFull ==
    /\ Ready("F")
    /\ registered' = registered \cup {"F"}
    /\ op' = [op EXCEPT !.built = @ \cup {"F"}]
    /\ UNCHANGED <<lookback, now, rows, ledger, served, books, restating, stale, faults, lapsed>>

(***************************************************************************)
(* The audits of whole relations, of what was built only; then the views,  *)
(* the exports of what was built, and the promotion.                       *)
(***************************************************************************)
AllBuilt == op.at = "building" /\ op.built = op.working

Audited(m) == \A p \in Place : p[1] = m => rows[p].v # "dup"

WholeAudits ==
    /\ AllBuilt
    /\ \A m \in op.working \cap Table : Audited(m)
    /\ op' = [op EXCEPT !.at = "audited"]
    /\ UNCHANGED <<lookback, now, rows, ledger, registered, served, books, restating, stale,
                   faults, lapsed>>

WholeAuditFails ==
    /\ AllBuilt
    /\ \E m \in op.working \cap Table : ~Audited(m)
    /\ op' = Idle
    /\ UNCHANGED <<lookback, now, rows, ledger, registered, served, manifest, exported, caught,
                   restating, stale, faults, lapsed>>

Tainted == \E p \in Place : p[1] = "B" /\ rows[p].v \in {"bad", "dup"}

\* (What is exported goes out before the audits of the whole.)
ExportUnaudited ==
    /\ AllBuilt
    /\ op' = [op EXCEPT !.at = "exported"]
    /\ exported' = IF "B" \in op.working THEN (IF Tainted THEN "tainted" ELSE "clean")
                   ELSE exported
    /\ UNCHANGED <<lookback, now, rows, ledger, registered, served, manifest, caught,
                   restating, stale, faults, lapsed>>

Export ==
    /\ op.at = "audited"
    /\ op' = [op EXCEPT !.at = "exported"]
    /\ exported' = IF "B" \in op.working THEN (IF Tainted THEN "tainted" ELSE "clean")
                   ELSE exported
    /\ UNCHANGED <<lookback, now, rows, ledger, registered, served, manifest, caught,
                   restating, stale, faults, lapsed>>

Promote ==
    /\ op.at = "exported"
    /\ served' = TRUE
    /\ caught' = op.time
    /\ op' = Idle
    /\ UNCHANGED <<lookback, now, rows, ledger, registered, manifest, exported, restating, stale,
                   faults, lapsed>>

(***************************************************************************)
(* Failures: any other statement, of the warehouse or of the store, ends   *)
(* the operation with an error; a killed process writes nothing down.      *)
(***************************************************************************)
\* Nothing can fail between the last mark of a table and its manifest.
Fails ==
    /\ op.at # "idle" /\ op.batch = None /\ Fault
    /\ \A m \in registered \cap Table : Ready(m) => op.todo[m] # {}
    /\ op' = Idle
    /\ UNCHANGED <<lookback, now, rows, ledger, registered, served, manifest, exported, caught,
                   restating, stale, lapsed>>

ManifestFails(m) ==
    /\ Ready(m) /\ m \in Table /\ op.batch = None /\ op.todo[m] = {}
    /\ Fault /\ lapsed' = TRUE
    /\ registered' = registered \cup {m}
    /\ op' = [op EXCEPT !.built = @ \cup {m}]
    /\ UNCHANGED <<lookback, now, rows, ledger, served, books, restating, stale>>

Killed ==
    /\ Crashes /\ op.at # "idle" /\ Fault /\ lapsed' = TRUE
    /\ op' = Idle
    /\ UNCHANGED <<lookback, now, rows, ledger, registered, served, books, restating, stale>>

(***************************************************************************)
(* restate: the versions are read first, then their marks in the range are *)
(* cleared under the environment's lock.                                   *)
(***************************************************************************)
Descendants(m) == IF m = "A" THEN {"B"} ELSE {}

RestateReads(m, range) ==
    /\ served /\ restating = None
    /\ FloorTo(Unit(m), range.start) = range.start /\ FloorTo(Unit(m), range.end) = range.end
    /\ restating' = [model |-> m, range |-> range]
    /\ UNCHANGED <<lookback, now, rows, ledger, registered, served, op, books, stale, faults,
                   lapsed>>

Clear(models, range) ==
    ledger' = [p \in Place |-> IF p[1] \in models /\ range.start <= p[2] /\ p[2] < range.end
                               THEN "none" ELSE ledger[p]]

\* The places a restated range is about: every interval that meets it.
Concerned(m, range) ==
    {p \in Place : /\ p[1] \in {m} \cup Descendants(m)
                   /\ p[2] < range.end /\ range.start < p[2] + Unit(p[1])
                   /\ rows[p].v # "none"}

\* (The range is cleared while a tick is under way.)
ClearUnlocked ==
    /\ restating # None
    /\ Clear({restating.model} \cup Descendants(restating.model), restating.range)
    /\ stale' = stale \cup Concerned(restating.model, restating.range)
    /\ restating' = None /\ caught' = 0
    /\ UNCHANGED <<lookback, now, rows, registered, served, op, manifest, exported, faults, lapsed>>

RestateClears ==
    /\ restating # None /\ op.at = "idle"
    /\ Clear({restating.model} \cup Descendants(restating.model), restating.range)
    /\ stale' = stale \cup Concerned(restating.model, restating.range)
    /\ restating' = None /\ caught' = 0
    /\ UNCHANGED <<lookback, now, rows, registered, served, op, manifest, exported, faults, lapsed>>

Next ==
    \/ TimePasses
    \/ \E kind \in {"run", "apply"} : Start(kind)
    \/ \E m \in Table : Write(m) \/ WriteFails(m) \/ MarkDone(m) \/ AuditFails(m)
                         \/ Built(m) \/ ManifestFails(m)
    \/ BuildFull
    \/ WholeAudits \/ WholeAuditFails \/ Export \/ Promote
    \/ Fails \/ Killed
    \/ \E m \in Table, r \in Ranges : RestateReads(m, r)
    \/ RestateClears

Spec == Init /\ [][Next]_vars

-----------------------------------------------------------------------------
(***************************************************************************)
(* What consumers are told.                                                *)
(***************************************************************************)
\* (Intervals that failed are taken along.)
ThroughTried(m) ==
    LET tried == Done(m) \cup With(m, "failed")
    IN IF tried = {} THEN 0
       ELSE (CHOOSE r \in MergeIntervals(tried) :
               \A x \in MergeIntervals(tried) : r.start <= x.start).end

\* freshnessOf: the end of the first run of done intervals; 0 when none is.
Through(m) == IF Done(m) = {} THEN 0
              ELSE (CHOOSE r \in MergeIntervals(Done(m)) :
                      \A x \in MergeIntervals(Done(m)) : r.start <= x.start).end

\* passportsOver: the least over a model and what it reads; a full model has
\* no limit of its own.
EffectiveThrough == [m \in Model |->
    CASE m = "A" -> Through("A")
      [] OTHER -> Least(Through("A"), Through("B"))]

\* auditEnvironment: what the audits of whole relations find in the views.
BlockingViolations == {m \in Table : ~Audited(m)}

\* environmentStatus: what is missing up to a time, and what has failed.
Missing(m, time) == MissingIntervals(Wanted(m, time), Done(m))
Failed(m) == With(m, "failed")

-----------------------------------------------------------------------------
TypeOK ==
    /\ lookback \in Lookbacks /\ now \in 0..MaxTime /\ caught \in 0..now
    /\ rows \in [Place -> [v : {"none", "ok", "bad", "dup"}, whole : BOOLEAN]]
    /\ ledger \in [Place -> {"none", "done", "failed"}]
    /\ registered \subseteq Model /\ served \in BOOLEAN
    /\ op.at \in {"idle", "building", "audited", "exported"} /\ op.time \in 0..now
    /\ op.built \subseteq op.working /\ op.working \subseteq Model
    /\ manifest \in [Table -> SUBSET Starts(0, MaxTime, 1)]
    /\ exported \in {"none", "clean", "tainted"}
    /\ stale \subseteq Place /\ faults \in 0..MaxFaults /\ lapsed \in BOOLEAN

\* A done interval holds rows its blocking interval audits have passed, though
\* operations fail and are killed anywhere.  With a lookback and a kill it
\* does not hold: an interval that is loaded once more stays done meanwhile.
DoneIsAudited ==
    lookback = 0 \/ ~lapsed =>
        \A p \in Place : ledger[p] = "done" /\ ~(op.batch # None /\ \E m \in Table :
                            Ready(m) /\ p \in Starting(m, IntervalsWithin(op.batch, Unit(m))))
                         => rows[p].v \in {"ok", "dup"}

\* What restate was asked for is not taken for done before it was loaded
\* again, by a batch that also read what had to be loaded again above it:
\* whenever ticks come in between.
RestateTakesEffect == \A p \in stale : ledger[p] # "done"

\* Up to where the passport says a table is complete, every interval has its
\* rows, computed from parents that were there, and none waits to be loaded
\* again; as long as the first interval is done.
PassportHonest ==
    \A m \in Table : ledger[<<m, 0>>] = "done" =>
        \A i \in Wanted(m, EffectiveThrough[m]) :
            LET r == rows[<<m, i.start>>] IN
            r.v # "none" /\ (m = "B" => r.whole) /\ <<m, i.start>> \notin stale

\* "End of contiguous coverage from the model's start" (passport.ts:38): all
\* that is claimed is done.
ContiguousFromStart ==
    \A m \in Table : \A i \in Wanted(m, Through(m)) : ledger[<<m, i.start>>] = "done"

\* "Nothing unverified leaves" (executor.ts:932): what was exported has no rows
\* that an audit of their interval or of the whole refuses, unless an operation
\* that read done intervals once more was killed.
ExportVerified == lookback = 0 \/ ~lapsed => exported # "tainted"

\* After an operation that went well the manifests list what is done, unless
\* one was killed or failed to write.
ManifestsFollow ==
    op.at = "exported" /\ ~lapsed => \A m \in Table : manifest[m] = {i.start : i \in Done(m)}

\* After an operation that went well `status` finds nothing missing up to its
\* time and nothing failed, until a range is restated or a later operation
\* fails on a batch.
OkMeansCaughtUp ==
    \A m \in Table : Missing(m, caught) = {} /\ (caught > 0 => Failed(m) = {})

\* The audits of whole relations run "before promotion, so a violation stops
\* the environment from serving it" (executor.ts:901): an operation that is
\* about to promote leaves none behind.
ServedIsAudited == op.at = "exported" => BlockingViolations = {}
=============================================================================
