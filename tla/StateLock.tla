----------------------------- MODULE StateLock -----------------------------
(***************************************************************************)
(* The cross-process lock of plan/lock.ts over one row of the state        *)
(* store's "locks" table (state/sqlite.ts, state/postgres.ts): a lease     *)
(* with an expiry, kept alive by a heartbeat that is fenced on the expiry  *)
(* it last wrote, and reclaimed by anyone once it has expired.             *)
(*                                                                         *)
(* Time is a counter of milliseconds.  A store call uses the clock of the  *)
(* process that makes it, read before the statement lands, so its stamp    *)
(* may be up to Skew away from the real time on either side (0 for one     *)
(* machine and SQLite, where reading the clock and the statement are one   *)
(* step).  How late a scheduled step may run is a constant as well: a      *)
(* stalled process is a large SeedDelay or BeatDelay.                      *)
(***************************************************************************)
EXTENDS Naturals, FiniteSets

CONSTANTS Proc,        \* the processes (commands, daemons) that want this lock
          Nobody,      \* the owner of a row nobody has written yet
          NoRow,       \* no row in the table; also the fence that is seeded
                       \* from a missing row, which matches no expiry
          Ttl,         \* the ttl of the lease
          SeedDelay,   \* at most this long between acquireLock and lockExpiry
          BeatDelay,   \* at most this much later than due, a heartbeat has
                       \* landed, or the effect it aborts has stopped
          Skew,        \* how far a stamp may be from the real time
          MaxTime,     \* bound: the clock stops here
          MaxCrashes   \* bound: how many processes may be killed

ASSUME LockAssumption ==
    /\ Nobody \notin Proc
    /\ NoRow \notin Nat
    /\ Ttl \in Nat \ {0}
    /\ SeedDelay \in Nat /\ BeatDelay \in Nat /\ Skew \in Nat
    /\ MaxTime \in Nat /\ MaxCrashes \in Nat

VARIABLES now,    \* the real time
          row,    \* expires_at of the lock's row, or NoRow
          owner,  \* whose acquireLock inserted the row last: the table does
                  \* not store it, the code never reads it
          pc,     \* where withStateLock stands in each process
          fence,  \* the expiry each process believes its lease has, or NoRow
          due     \* the time the running process's current delay counts from

vars == <<now, row, owner, pc, fence, due>>

\* (A heartbeat only once per lease.)
HeartbeatOncePerLease == Ttl

\* Renewals are made at a third of the ttl, and never more often than each
\* millisecond.
HeartbeatInterval == IF Ttl \div 3 > 1 THEN Ttl \div 3 ELSE 1

\* The times a store call made now may carry.
Stamp == (IF now > Skew THEN now - Skew ELSE 0)..(now + Skew)

\* The guarded effect of a process may still change the environment.
Working == {p \in Proc : pc[p] \in {"acquired", "running", "aborting"}}

-----------------------------------------------------------------------------
Init ==
    /\ now = 0
    /\ row = NoRow
    /\ owner = Nobody
    /\ pc = [p \in Proc |-> "idle"]
    /\ fence = [p \in Proc |-> NoRow]
    /\ due = [p \in Proc |-> 0]

\* acquireLock inserts the row when there is none left after the rows that
\* have expired at the stamp are deleted.
\* (Without the DELETE a row that has expired still blocks the INSERT.)
FreeWithoutReclaim(stamp) == row = NoRow

Free(stamp) == row # NoRow => row <= stamp

Acquire(p) ==
    /\ pc[p] = "idle"
    /\ \E stamp \in Stamp :
        /\ Free(stamp)
        /\ row' = stamp + Ttl
    /\ owner' = p
    /\ pc' = [pc EXCEPT ![p] = "acquired"]
    /\ due' = [due EXCEPT ![p] = now]
    /\ UNCHANGED <<now, fence>>

\* LockHeldError: the command ends without having run its effect.
Refused(p) ==
    /\ pc[p] = "idle"
    /\ \E stamp \in Stamp : ~Free(stamp)
    /\ UNCHANGED vars

\* lockExpiry is a second store call: the fence is whatever the row holds by
\* now.  The effect and the heartbeat start together.
Seed(p) ==
    /\ pc[p] = "acquired"
    /\ fence' = [fence EXCEPT ![p] = row]
    /\ pc' = [pc EXCEPT ![p] = "running"]
    /\ due' = [due EXCEPT ![p] = now + HeartbeatInterval]
    /\ UNCHANGED <<now, row, owner>>

\* A StateError or an interruption before the effect is under "ensuring": the
\* command ends and its row stays until it expires.
SeedFails(p) ==
    /\ pc[p] = "acquired"
    /\ pc' = [pc EXCEPT ![p] = "idle"]
    /\ UNCHANGED <<now, row, owner, fence, due>>

Fenced(p) == row # NoRow /\ row = fence[p]

\* A heartbeat that finds its own lease extends it and moves the fence.
Renew(p) ==
    /\ pc[p] = "running"
    /\ now >= due[p]
    /\ Fenced(p)
    /\ \E stamp \in Stamp :
        /\ row' = stamp + Ttl
        /\ fence' = [fence EXCEPT ![p] = stamp + Ttl]
    /\ due' = [due EXCEPT ![p] = now + HeartbeatInterval]
    /\ UNCHANGED <<now, owner, pc>>

\* A heartbeat that misses fails with LockLostError; one that cannot reach the
\* store fails with StateError.  Either way the race is over and the effect is
\* interrupted.
BeatFails(p) ==
    /\ pc[p] = "running"
    /\ now >= due[p]
    /\ pc' = [pc EXCEPT ![p] = "aborting"]
    /\ UNCHANGED <<now, row, owner, fence, due>>

\* The effect has finished, failed, or come to a point where it is interrupted.
EffectEnds(p) ==
    /\ pc[p] \in {"running", "aborting"}
    /\ pc' = [pc EXCEPT ![p] = "releasing"]
    /\ UNCHANGED <<now, row, owner, fence, due>>

\* (An unfenced DELETE, which the store offers to callers without an expiry.)
ReleaseUnfenced(p) ==
    /\ pc[p] = "releasing"
    /\ row' = NoRow
    /\ pc' = [pc EXCEPT ![p] = "idle"]
    /\ UNCHANGED <<now, owner, fence, due>>

\* The fenced DELETE: of another holder's lease it deletes nothing.
Release(p) ==
    /\ pc[p] = "releasing"
    /\ row' = IF Fenced(p) THEN NoRow ELSE row
    /\ pc' = [pc EXCEPT ![p] = "idle"]
    /\ UNCHANGED <<now, owner, fence, due>>

\* A release that cannot reach the store is ignored.
ReleaseFails(p) ==
    /\ pc[p] = "releasing"
    /\ pc' = [pc EXCEPT ![p] = "idle"]
    /\ UNCHANGED <<now, row, owner, fence, due>>

Dead == {p \in Proc : pc[p] = "dead"}

\* SIGKILL: the process is gone and its row stays.
Crash(p) ==
    /\ pc[p] # "dead"
    /\ Cardinality(Dead) < MaxCrashes
    /\ pc' = [pc EXCEPT ![p] = "dead"]
    /\ UNCHANGED <<now, row, owner, fence, due>>

\* By when the current step of a working process has been taken.
Deadline(p) == due[p] + (IF pc[p] = "acquired" THEN SeedDelay ELSE BeatDelay)

Tick ==
    /\ now < MaxTime
    /\ \A p \in Working : now < Deadline(p)
    /\ now' = now + 1
    /\ UNCHANGED <<row, owner, pc, fence, due>>

Next ==
    \/ Tick
    \/ \E p \in Proc :
        \/ Acquire(p) \/ Refused(p)
        \/ Seed(p) \/ SeedFails(p)
        \/ Renew(p) \/ BeatFails(p)
        \/ EffectEnds(p)
        \/ Release(p) \/ ReleaseFails(p)
        \/ Crash(p)

Spec == Init /\ [][Next]_vars

\* A process that is alive goes on (it runs an event loop), time passes, and a
\* command that needs the lock is started again: the daemon of plan/run.ts and
\* a cron entry try at every tick of their schedule.
Fairness ==
    /\ WF_vars(Tick)
    /\ \A p \in Proc :
        /\ WF_vars(Acquire(p))
        /\ WF_vars(Seed(p))
        /\ WF_vars(Renew(p) \/ BeatFails(p))
        /\ WF_vars(EffectEnds(p))
        /\ WF_vars(Release(p))

FairSpec == Spec /\ Fairness

-----------------------------------------------------------------------------
TypeOK ==
    /\ now \in Nat
    /\ row \in Nat \cup {NoRow}
    /\ owner \in Proc \cup {Nobody}
    /\ pc \in [Proc -> {"idle", "acquired", "running", "aborting",
                         "releasing", "dead"}]
    /\ fence \in [Proc -> Nat \cup {NoRow}]
    /\ due \in [Proc -> Nat]

\* Every step lands before the lease it depends on can look expired to another
\* process: what has to be true of the machines for the lock to exclude.
Timely == SeedDelay + HeartbeatInterval + BeatDelay + Skew + Skew < Ttl

\* The same for the fence alone: only the seeding must not be delayed, a
\* heartbeat may stall for as long as it likes.
SeededInTime == SeedDelay + Skew + Skew < Ttl

\* Two guarded effects are never under way at once (lock.ts: the env lock cuts
\* off parallel apply+apply and apply+run).
Exclusion == \A p, q \in Working : p = q

\* A process's fence matches the row exactly while the row is its own lease: no
\* heartbeat or release ever touches the lease of somebody who reclaimed the
\* lock, and nobody is told that a lock is lost which it still has.
FenceExact ==
    \A p \in Proc : pc[p] \in {"running", "aborting", "releasing"} =>
        (Fenced(p) <=> owner = p)

\* The lock row of a killed process does not block the others for ever: unless
\* its lease outlives the bound on time, somebody takes the lock over.
CrashedLockReclaimed ==
    \A p \in Proc :
        (owner = p /\ pc[p] = "dead" /\ row # NoRow /\ row + Skew <= MaxTime)
            ~> owner # p
=============================================================================
