-------------------------- MODULE StateLockProofs --------------------------
(***************************************************************************)
(* What holds of the state lock for every number of processes, every ttl,  *)
(* every delay and every clock skew.  FenceExact needs only that the       *)
(* seeding of the fence is not delayed past the lease; Exclusion needs     *)
(* every step to land in time.                                             *)
(***************************************************************************)
EXTENDS StateLock, TLAPS

\* The states of a process in which it acts on its fence.
UsesFence(p) == pc[p] \in {"running", "aborting", "releasing"}

\* p's lease is the row, or it is over: somebody else wrote the row since, and
\* every row still to be written will expire later than p's fence says.
Holding(p) == owner = p /\ row \in Nat /\ row = fence[p]
Spent(p)   == owner # p /\ row # fence[p] /\ fence[p] + Skew < now + Ttl

\* Between acquireLock and lockExpiry the row is p's and cannot look expired.
SeedingInv ==
    \A p \in Proc : pc[p] = "acquired" =>
        /\ owner = p
        /\ row \in Nat
        /\ due[p] + Ttl <= row + Skew
        /\ now <= due[p] + SeedDelay

FenceInv ==
    \A p \in Proc : UsesFence(p) =>
        fence[p] \in Nat /\ (Holding(p) \/ Spent(p))

IInv == TypeOK /\ SeedingInv /\ FenceInv

\* While the effect runs, its next heartbeat lands before the row can look
\* expired to any process.
LeaseInv ==
    \A p \in Proc : pc[p] \in {"running", "aborting"} =>
        /\ owner = p
        /\ row \in Nat
        /\ due[p] + Ttl <= row + Skew + SeedDelay + HeartbeatInterval
        /\ now <= due[p] + BeatDelay

-----------------------------------------------------------------------------
LEMMA IntervalType == HeartbeatInterval \in Nat
  BY LockAssumption DEF HeartbeatInterval

LEMMA StampBounds ==
  ASSUME now \in Nat, NEW stamp \in Stamp
  PROVE  stamp \in Nat /\ now <= stamp + Skew /\ stamp <= now + Skew
  BY LockAssumption DEF Stamp

\* Every variable keeps to its range: the type invariant of the lock.
THEOREM TypeCorrect == Spec => []TypeOK
<1>1. Init => TypeOK
  BY LockAssumption DEF Init, TypeOK
<1>2. TypeOK /\ [Next]_vars => TypeOK'
  <2> SUFFICES ASSUME TypeOK, [Next]_vars PROVE TypeOK'
    OBVIOUS
  <2> USE LockAssumption, IntervalType DEF TypeOK
  <2>1. CASE Tick
    BY <2>1 DEF Tick
  <2>2. ASSUME NEW p \in Proc, Acquire(p) PROVE TypeOK'
    <3>1. PICK stamp \in Stamp : row' = stamp + Ttl
      BY <2>2 DEF Acquire
    <3>2. row' \in Nat
      BY <3>1, StampBounds
    <3> QED
      BY <2>2, <3>2 DEF Acquire
  <2>3. ASSUME NEW p \in Proc, Refused(p) PROVE TypeOK'
    BY <2>3 DEF Refused, vars
  <2>4. ASSUME NEW p \in Proc, Seed(p) PROVE TypeOK'
    BY <2>4 DEF Seed
  <2>5. ASSUME NEW p \in Proc, SeedFails(p) PROVE TypeOK'
    BY <2>5 DEF SeedFails
  <2>6. ASSUME NEW p \in Proc, Renew(p) PROVE TypeOK'
    <3>1. PICK stamp \in Stamp :
              row' = stamp + Ttl /\ fence' = [fence EXCEPT ![p] = stamp + Ttl]
      BY <2>6 DEF Renew
    <3>2. row' \in Nat /\ fence' \in [Proc -> Nat \cup {NoRow}]
      BY <3>1, StampBounds
    <3> QED
      BY <2>6, <3>2 DEF Renew
  <2>7. ASSUME NEW p \in Proc, BeatFails(p) PROVE TypeOK'
    BY <2>7 DEF BeatFails
  <2>8. ASSUME NEW p \in Proc, EffectEnds(p) PROVE TypeOK'
    BY <2>8 DEF EffectEnds
  <2>9. ASSUME NEW p \in Proc, Release(p) PROVE TypeOK'
    BY <2>9 DEF Release
  <2>10. ASSUME NEW p \in Proc, ReleaseFails(p) PROVE TypeOK'
    BY <2>10 DEF ReleaseFails
  <2>11. ASSUME NEW p \in Proc, Crash(p) PROVE TypeOK'
    BY <2>11 DEF Crash
  <2>12. CASE UNCHANGED vars
    BY <2>12 DEF vars
  <2> QED
    BY <2>1, <2>2, <2>3, <2>4, <2>5, <2>6, <2>7, <2>8, <2>9, <2>10, <2>11,
       <2>12 DEF Next
<1> QED
  BY <1>1, <1>2, PTL DEF Spec

-----------------------------------------------------------------------------
\* A process that finds the row free, and p, whose lease it is: p's lease is
\* then so old that every later row expires after it.
LEMMA FreeRowIsStale ==
  ASSUME SeededInTime, IInv, NEW stamp \in Stamp, Free(stamp),
         NEW p \in Proc, UsesFence(p)
  PROVE  fence[p] + Skew < now + Ttl
<1>1. stamp \in Nat /\ stamp <= now + Skew
  BY StampBounds DEF IInv, TypeOK
<1>2. fence[p] \in Nat /\ (Holding(p) \/ Spent(p))
  BY DEF IInv, FenceInv
<1>3. CASE Holding(p)
  <2>1. row \in Nat /\ row = fence[p] /\ row <= stamp
    BY <1>3, LockAssumption DEF Holding, Free
  <2> QED
    BY <1>1, <1>2, <2>1, LockAssumption DEF SeededInTime, IInv, TypeOK
<1>4. CASE Spent(p)
  BY <1>4 DEF Spent
<1> QED
  BY <1>2, <1>3, <1>4

\* Nobody finds the row free while somebody else is seeding its fence.
LEMMA SeedingIsNotFree ==
  ASSUME SeededInTime, IInv, NEW stamp \in Stamp, Free(stamp),
         NEW p \in Proc, pc[p] = "acquired"
  PROVE  FALSE
<1>1. stamp \in Nat /\ stamp <= now + Skew
  BY StampBounds DEF IInv, TypeOK
<1>2. row \in Nat /\ due[p] + Ttl <= row + Skew /\ now <= due[p] + SeedDelay
  BY DEF IInv, SeedingInv
<1>3. row <= stamp
  BY <1>2, LockAssumption DEF Free
<1> QED
  BY <1>1, <1>2, <1>3, LockAssumption DEF SeededInTime, IInv, TypeOK

\* Only the owner finds its own fence in the row.
LEMMA FencedIsOwner ==
  ASSUME IInv, NEW p \in Proc, UsesFence(p)
  PROVE  Fenced(p) <=> owner = p
<1>1. Holding(p) \/ Spent(p)
  BY DEF IInv, FenceInv
<1> QED
  BY <1>1, LockAssumption DEF Holding, Spent, Fenced

\* A row written now expires later than any fence that is over.
LEMMA NewRowOutlives ==
  ASSUME TypeOK, NEW stamp \in Stamp, NEW f \in Nat, f + Skew < now + Ttl
  PROVE  f < stamp + Ttl
<1>1. stamp \in Nat /\ now <= stamp + Skew
  BY StampBounds DEF TypeOK
<1> QED
  BY <1>1, LockAssumption DEF TypeOK

LEMMA IInvInit == Init => IInv
  BY LockAssumption
     DEF Init, IInv, TypeOK, SeedingInv, FenceInv, UsesFence

\* The inductive step, for a fence seeded in time.
LEMMA IInvNext ==
  ASSUME SeededInTime, IInv, TypeOK', [Next]_vars
  PROVE  IInv'
<1> USE DEF IInv
<1>1. CASE Tick
  <2>1. SeedingInv'
    BY <1>1, LockAssumption DEF Tick, SeedingInv, Working, Deadline, TypeOK
  <2>2. FenceInv'
    BY <1>1, LockAssumption
       DEF Tick, FenceInv, UsesFence, Holding, Spent, TypeOK
  <2> QED
    BY <2>1, <2>2
<1>2. ASSUME NEW p \in Proc, Acquire(p) PROVE IInv'
  <2>1. PICK stamp \in Stamp : Free(stamp) /\ row' = stamp + Ttl
    BY <1>2 DEF Acquire
  <2>2. stamp \in Nat /\ now <= stamp + Skew
    BY StampBounds DEF TypeOK
  <2>3. SeedingInv'
    <3> SUFFICES ASSUME NEW q \in Proc, pc'[q] = "acquired"
                 PROVE  /\ owner' = q /\ row' \in Nat
                        /\ due'[q] + Ttl <= row' + Skew
                        /\ now' <= due'[q] + SeedDelay
      BY DEF SeedingInv
    <3>1. q = p
      BY <1>2, <2>1, SeedingIsNotFree DEF Acquire, TypeOK
    <3> QED
      BY <1>2, <2>1, <2>2, <3>1, LockAssumption DEF Acquire, TypeOK
  <2>4. FenceInv'
    <3> SUFFICES ASSUME NEW q \in Proc, UsesFence(q)'
                 PROVE  fence'[q] \in Nat /\ Spent(q)'
      BY DEF FenceInv
    <3>1. q # p /\ UsesFence(q) /\ fence'[q] = fence[q] /\ owner' = p
          /\ now' = now
      BY <1>2 DEF Acquire, UsesFence, TypeOK
    <3>2. fence[q] \in Nat
      BY <3>1 DEF FenceInv
    <3>3. fence[q] + Skew < now + Ttl
      BY <2>1, <3>1, FreeRowIsStale
    <3>4. fence[q] < row'
      BY <2>1, <3>2, <3>3, NewRowOutlives
    <3>5. row' \in Nat
      BY <2>1, <2>2, LockAssumption
    <3> QED
      BY <3>1, <3>2, <3>3, <3>4, <3>5 DEF Spent
  <2> QED
    BY <2>3, <2>4
<1>3. ASSUME NEW p \in Proc, Refused(p) PROVE IInv'
  BY <1>3 DEF Refused, vars, SeedingInv, FenceInv, UsesFence, Holding, Spent
<1>4. ASSUME NEW p \in Proc, Seed(p) PROVE IInv'
  <2>1. owner = p /\ row \in Nat
    BY <1>4 DEF Seed, SeedingInv
  <2>2. SeedingInv'
    BY <1>4 DEF Seed, SeedingInv, TypeOK
  <2>3. FenceInv'
    BY <1>4, <2>1 DEF Seed, FenceInv, UsesFence, Holding, Spent, TypeOK
  <2> QED
    BY <2>2, <2>3
<1>5. ASSUME NEW p \in Proc, SeedFails(p) PROVE IInv'
  BY <1>5 DEF SeedFails, SeedingInv, FenceInv, UsesFence, Holding, Spent, TypeOK
<1>6. ASSUME NEW p \in Proc, Renew(p) PROVE IInv'
  <2>1. PICK stamp \in Stamp :
            row' = stamp + Ttl /\ fence' = [fence EXCEPT ![p] = stamp + Ttl]
    BY <1>6 DEF Renew
  <2>2. stamp \in Nat
    BY StampBounds DEF TypeOK
  <2>3. owner = p
    BY <1>6, FencedIsOwner DEF Renew, UsesFence
  <2>4. SeedingInv'
    BY <1>6, <2>3 DEF Renew, SeedingInv, TypeOK
  <2>5. FenceInv'
    <3> SUFFICES ASSUME NEW q \in Proc, UsesFence(q)'
                 PROVE  fence'[q] \in Nat /\ (Holding(q)' \/ Spent(q)')
      BY DEF FenceInv
    <3>1. UsesFence(q) /\ owner' = p /\ now' = now
      BY <1>6, <2>3 DEF Renew, UsesFence
    <3>2. CASE q = p
      BY <2>1, <2>2, <3>1, <3>2, LockAssumption DEF Holding, TypeOK
    <3>3. CASE q # p
      <4>1. fence[q] \in Nat /\ Spent(q) /\ fence'[q] = fence[q]
        BY <2>1, <2>3, <3>1, <3>3 DEF FenceInv, Holding, TypeOK
      <4>2. fence[q] < row'
        BY <2>1, <4>1, NewRowOutlives DEF Spent
      <4> QED
        BY <2>1, <2>2, <3>1, <3>3, <4>1, <4>2, LockAssumption DEF Spent
    <3> QED
      BY <3>2, <3>3
  <2> QED
    BY <2>4, <2>5
<1>7. ASSUME NEW p \in Proc, BeatFails(p) PROVE IInv'
  BY <1>7 DEF BeatFails, SeedingInv, FenceInv, UsesFence, Holding, Spent, TypeOK
<1>8. ASSUME NEW p \in Proc, EffectEnds(p) PROVE IInv'
  BY <1>8 DEF EffectEnds, SeedingInv, FenceInv, UsesFence, Holding, Spent, TypeOK
<1>9. ASSUME NEW p \in Proc, Release(p) PROVE IInv'
  <2>1. CASE owner = p
    <3>1. SeedingInv'
      BY <1>9, <2>1 DEF Release, SeedingInv, TypeOK
    <3>2. FenceInv'
      BY <1>9, <2>1, LockAssumption
         DEF Release, FenceInv, UsesFence, Holding, Spent, TypeOK
    <3> QED
      BY <3>1, <3>2
  <2>2. CASE owner # p
    <3>1. row' = row
      BY <1>9, <2>2, FencedIsOwner DEF Release, UsesFence
    <3> QED
      BY <1>9, <3>1
         DEF Release, SeedingInv, FenceInv, UsesFence, Holding, Spent, TypeOK
  <2> QED
    BY <2>1, <2>2
<1>10. ASSUME NEW p \in Proc, ReleaseFails(p) PROVE IInv'
  BY <1>10
     DEF ReleaseFails, SeedingInv, FenceInv, UsesFence, Holding, Spent, TypeOK
<1>11. ASSUME NEW p \in Proc, Crash(p) PROVE IInv'
  BY <1>11 DEF Crash, SeedingInv, FenceInv, UsesFence, Holding, Spent, TypeOK
<1>12. CASE UNCHANGED vars
  BY <1>12 DEF vars, SeedingInv, FenceInv, UsesFence, Holding, Spent
<1> QED
  BY <1>1, <1>2, <1>3, <1>4, <1>5, <1>6, <1>7, <1>8, <1>9, <1>10, <1>11,
     <1>12 DEF Next

LEMMA IInvHolds == ASSUME SeededInTime PROVE Spec => []IInv
<1>1. IInv /\ TypeOK' /\ [Next]_vars => IInv'
  BY IInvNext
<1> QED
  BY <1>1, IInvInit, TypeCorrect, PTL DEF Spec

\* If the fence is seeded before the lease can expire, then however long the
\* heartbeats stall, a fence matches the row exactly while the lease is the
\* process's own.
THEOREM FenceIsExact == ASSUME SeededInTime PROVE Spec => []FenceExact
<1>1. IInv => FenceExact
  BY FencedIsOwner DEF FenceExact, UsesFence
<1> QED
  BY <1>1, IInvHolds, PTL

-----------------------------------------------------------------------------
LEMMA TimelySeeds == ASSUME Timely PROVE SeededInTime
  BY LockAssumption, IntervalType DEF Timely, SeededInTime

\* No process finds the row free while an effect is under way.
LEMMA WorkingIsNotFree ==
  ASSUME Timely, IInv, LeaseInv, NEW stamp \in Stamp, Free(stamp),
         NEW p \in Working
  PROVE  FALSE
<1>1. CASE pc[p] = "acquired"
  BY <1>1, TimelySeeds, SeedingIsNotFree DEF Working
<1>2. CASE pc[p] \in {"running", "aborting"}
  <2>1. stamp \in Nat /\ stamp <= now + Skew
    BY StampBounds DEF IInv, TypeOK
  <2>2. /\ row \in Nat /\ now <= due[p] + BeatDelay
        /\ due[p] + Ttl <= row + Skew + SeedDelay + HeartbeatInterval
    BY <1>2 DEF LeaseInv, Working
  <2>3. row <= stamp
    BY <2>2, LockAssumption DEF Free
  <2> QED
    BY <2>1, <2>2, <2>3, LockAssumption, IntervalType
       DEF Timely, IInv, TypeOK, Working
<1> QED
  BY <1>1, <1>2 DEF Working

LEMMA LeaseInvNext ==
  ASSUME Timely, IInv, LeaseInv, [Next]_vars
  PROVE  LeaseInv'
<1> USE LockAssumption, IntervalType DEF IInv, TypeOK
<1>1. CASE Tick
  BY <1>1 DEF Tick, LeaseInv, Working, Deadline
<1>2. ASSUME NEW p \in Proc, Acquire(p) PROVE LeaseInv'
  <2>1. PICK stamp \in Stamp : Free(stamp)
    BY <1>2 DEF Acquire
  <2>2. Working = {}
    BY <2>1, WorkingIsNotFree
  <2> QED
    BY <1>2, <2>2 DEF Acquire, LeaseInv, Working
<1>3. ASSUME NEW p \in Proc, Refused(p) PROVE LeaseInv'
  BY <1>3 DEF Refused, vars, LeaseInv
<1>4. ASSUME NEW p \in Proc, Seed(p) PROVE LeaseInv'
  BY <1>4 DEF Seed, LeaseInv, SeedingInv
<1>5. ASSUME NEW p \in Proc, SeedFails(p) PROVE LeaseInv'
  BY <1>5 DEF SeedFails, LeaseInv
<1>6. ASSUME NEW p \in Proc, Renew(p) PROVE LeaseInv'
  <2>1. PICK stamp \in Stamp : row' = stamp + Ttl
    BY <1>6 DEF Renew
  <2>2. stamp \in Nat /\ now <= stamp + Skew
    BY StampBounds
  <2>3. owner = p
    BY <1>6, FencedIsOwner DEF Renew, UsesFence
  <2> QED
    BY <1>6, <2>1, <2>2, <2>3 DEF Renew, LeaseInv
<1>7. ASSUME NEW p \in Proc, BeatFails(p) PROVE LeaseInv'
  BY <1>7 DEF BeatFails, LeaseInv
<1>8. ASSUME NEW p \in Proc, EffectEnds(p) PROVE LeaseInv'
  BY <1>8 DEF EffectEnds, LeaseInv
<1>9. ASSUME NEW p \in Proc, Release(p) PROVE LeaseInv'
  <2>1. ASSUME Fenced(p) PROVE owner = p
    BY <1>9, <2>1, FencedIsOwner DEF Release, UsesFence
  <2> QED
    BY <1>9, <2>1 DEF Release, LeaseInv
<1>10. ASSUME NEW p \in Proc, ReleaseFails(p) PROVE LeaseInv'
  BY <1>10 DEF ReleaseFails, LeaseInv
<1>11. ASSUME NEW p \in Proc, Crash(p) PROVE LeaseInv'
  BY <1>11 DEF Crash, LeaseInv
<1>12. CASE UNCHANGED vars
  BY <1>12 DEF vars, LeaseInv
<1> QED
  BY <1>1, <1>2, <1>3, <1>4, <1>5, <1>6, <1>7, <1>8, <1>9, <1>10, <1>11,
     <1>12 DEF Next

LEMMA LeaseInvHolds == ASSUME Timely PROVE Spec => [](IInv /\ LeaseInv)
<1>1. Init => LeaseInv
  BY DEF Init, LeaseInv
<1>2. IInv /\ LeaseInv /\ [Next]_vars => LeaseInv'
  BY LeaseInvNext
<1>3. Spec => []IInv
  BY TimelySeeds, IInvHolds
<1> QED
  BY <1>1, <1>2, <1>3, PTL DEF Spec

LEMMA OwnerWorks == IInv /\ LeaseInv => Exclusion
  BY DEF IInv, SeedingInv, LeaseInv, Exclusion, Working

\* If every step lands in time, two guarded effects are never under way at
\* once, whatever the number of processes and however many are killed.
THEOREM Excludes == ASSUME Timely PROVE Spec => []Exclusion
  BY LeaseInvHolds, OwnerWorks, PTL
=============================================================================
