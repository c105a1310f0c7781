------------------------------ MODULE Journal ------------------------------
(***************************************************************************)
(* What ticks leave behind (plan/run.ts) and what `efmesh status --check`  *)
(* makes of it (plan/status.ts).  A tick runs under the lock of the        *)
(* environment, which an apply takes too, and records its outcome once it  *)
(* has given the lock back; so other ticks may end and be recorded in      *)
(* between.  That a lease may be lost under way is in StateLock.           *)
(***************************************************************************)
EXTENDS Naturals, FiniteSets, SequencesExt

CONSTANTS Proc,              \* cron's processes, daemons and applies
          Nobody,
          MaxOps, MaxFaults  \* bounds

VARIABLES holder,   \* whose row the lock is
          act,      \* what each process is at
          journal,  \* the outcomes, in the order they were recorded
          ended,    \* the outcomes of the ticks in the order they ended (history)
          silent,   \* a tick ended and was not recorded (history)
          crossed,  \* a tick ended while another was not recorded yet (history)
          ops, faults

vars == <<holder, act, journal, ended, silent, crossed, ops, faults>>

Idle == [at |-> "idle"]
At(p, step) == act[p].at = step
Goes(p, a) == act' = [act EXCEPT ![p] = a]

JournalAssumption == Nobody \notin Proc /\ {MaxOps, MaxFaults} \subseteq Nat

Init ==
    /\ holder = Nobody /\ act = [p \in Proc |-> Idle]
    /\ journal = <<>> /\ ended = <<>>
    /\ silent = FALSE /\ crossed = FALSE
    /\ ops = 0 /\ faults = 0

-----------------------------------------------------------------------------
\* A tick has its outcome, and goes on to the journal.
EndsTick(p, outcome) ==
    /\ Goes(p, [at |-> "ended", outcome |-> outcome])
    /\ ended' = Append(ended, outcome)
    /\ crossed' = (crossed \/ \E q \in Proc \ {p} : At(q, "ended"))

\* Takes the lock, for a tick or an apply.
Begin(p, what) ==
    /\ At(p, "idle") /\ ops < MaxOps
    /\ holder = Nobody /\ holder' = p
    /\ Goes(p, [at |-> what])
    /\ ops' = ops + 1
    /\ UNCHANGED <<journal, ended, silent, crossed, faults>>

\* LockHeldError: that is an outcome as well.
Refused(p) ==
    /\ At(p, "idle") /\ ops < MaxOps
    /\ holder # Nobody
    /\ EndsTick(p, "lock-held")
    /\ ops' = ops + 1
    /\ UNCHANGED <<holder, journal, silent, faults>>

\* The tick ends and gives the lock back.
End(p) ==
    /\ At(p, "tick") /\ holder' = Nobody
    /\ \E outcome \in {"ok", "awaiting-human", "error"} : EndsTick(p, outcome)
    /\ UNCHANGED <<journal, silent, ops, faults>>

\* An apply has no record in this journal.
EndApply(p) ==
    /\ At(p, "apply") /\ holder' = Nobody
    /\ Goes(p, Idle)
    /\ UNCHANGED <<journal, ended, silent, crossed, ops, faults>>

\* (Only a tick that held the lock.)
RecordsWork(p) ==
    /\ At(p, "ended")
    /\ journal' = IF act[p].outcome = "lock-held" THEN journal
                  ELSE Append(journal, act[p].outcome)
    /\ Goes(p, Idle)
    /\ UNCHANGED <<holder, ended, silent, crossed, ops, faults>>

\* tap and tapError: whatever the outcome was.
Records(p) ==
    /\ At(p, "ended")
    /\ journal' = Append(journal, act[p].outcome)
    /\ Goes(p, Idle)
    /\ UNCHANGED <<holder, ended, silent, crossed, ops, faults>>

\* The journal is not available: that is logged, and the outcome stands.
RecordFails(p) ==
    /\ At(p, "ended") /\ faults < MaxFaults
    /\ Goes(p, Idle)
    /\ silent' = TRUE
    /\ faults' = faults + 1
    /\ UNCHANGED <<holder, journal, ended, crossed, ops>>

\* An interruption goes past tap and tapError, and gives the lock back; a kill
\* leaves it to its ttl.
Stops(p) ==
    /\ ~At(p, "idle") /\ faults < MaxFaults
    /\ holder' \in {holder, IF holder = p THEN Nobody ELSE holder}
    /\ Goes(p, Idle)
    /\ silent' = (silent \/ ~At(p, "apply"))
    /\ faults' = faults + 1
    /\ UNCHANGED <<journal, ended, crossed, ops>>

\* The row of a process that is gone has expired.
Reclaim ==
    /\ holder # Nobody /\ act[holder].at \notin {"tick", "apply"}
    /\ holder' = Nobody
    /\ UNCHANGED <<act, journal, ended, silent, crossed, ops, faults>>

Next ==
    \/ \E p \in Proc : \/ \E what \in {"tick", "apply"} : Begin(p, what)
                       \/ Refused(p) \/ End(p) \/ EndApply(p)
                       \/ Records(p) \/ RecordFails(p) \/ Stops(p)
    \/ Reclaim

Spec == Init /\ [][Next]_vars

-----------------------------------------------------------------------------
\* listRuns: the record with the greatest number comes first.
Latest == Last(journal)

\* isEnvHealthy, where no interval has failed (these are in Ticks).
Healthy == journal # <<>> => Latest # "error"

TypeOK ==
    /\ holder \in Proc \cup {Nobody}
    /\ {silent, crossed} \subseteq BOOLEAN
    /\ ToSet(journal) \cup ToSet(ended) \subseteq {"ok", "awaiting-human", "lock-held", "error"}

Times(o, outcomes) == Cardinality({i \in DOMAIN outcomes : outcomes[i] = o})

Resting == \A p \in Proc : ~At(p, "ended")

\* The journal has every tick there was, with what came of it, once it is
\* recorded; and an alert follows the last one.  A tick that was stopped or could
\* not be recorded is the exception, and one that ends before another is
\* recorded may be put before it.
JournalExact ==
    /\ Resting /\ ~silent => \A o \in ToSet(ended) \cup ToSet(journal) :
          Times(o, ended) = Times(o, journal)
    /\ Resting /\ ~silent /\ ~crossed =>
          (Healthy <=> (ended # <<>> => Last(ended) # "error"))

\* "Unhealthy when ... its last tick ended in an error" (status.ts:38).
AlertsOnLastTick == Resting /\ ~silent /\ ended # <<>> /\ Last(ended) = "error" => ~Healthy
=============================================================================
