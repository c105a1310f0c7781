--------------------------- MODULE ExecutorProofs ---------------------------
(***************************************************************************)
(* For every set of models whose tables read tables only, every number of  *)
(* jobs, batches, retries, intervals and failures: an interval marked done *)
(* was computed from complete parents.  A chain through a view escapes the *)
(* theorem, as it escapes the gates.  That a batch is loaded at most once  *)
(* by an attempt that stays committed needs no assumption on the graph.    *)
(***************************************************************************)
EXTENDS Executor, FiniteSetTheorems, TLAPS

TablesReadTables == \A m \in Table : Deps[m] \subseteq Table

Typed ==
    /\ phase \in {"idle", "building"}
    /\ fiber \in [Model -> {"absent", "queued", "waiting", "building", "built"}]
    /\ batch \in [Place -> {"none", "todo", "writing", "retry", "written", "done"}]
    /\ rows = [p \in Place |-> rows[p]]
    /\ whole \in [Place -> BOOLEAN]
    /\ ledger \in [Place -> {"none", "done", "failed"}]
    /\ \A t \in open : /\ DOMAIN t = {"at", "id", "seen", "whole", "owned"}
                       /\ t.at \in Place /\ t.owned \in BOOLEAN

\* Whatever was loaded, or is being loaded, came from complete parents.
LoadsWhole == /\ \A t \in open : t.whole = TRUE
              /\ \A p \in Place : rows[p] # {} => whole[p]

\* What batches and marks say of the rows.
MarksTrue == \A p \in Place :
    /\ ledger[p] = "done" => rows[p] # {}
    /\ batch[p] = "written" => rows[p] # {}
    /\ batch[p] = "done" => ledger[p] = "done"

\* A transaction someone awaits is the one of a batch being written.
OwnersBuild ==
    /\ \A t \in open : t.owned => fiber[t.at[1]] = "building" /\ batch[t.at] = "writing"
    /\ \A t, u \in open : t.owned /\ u.owned /\ t.at = u.at => t = u

\* A fiber that is over has no batch under way.
FibersAgree ==
    /\ phase = "idle" => \A m \in Model : fiber[m] \in {"absent", "built"}
    /\ \A m \in Table, i \in Interval :
         /\ fiber[m] = "absent" => batch[m, i] = "none"
         /\ fiber[m] = "built" => batch[m, i] \in {"none", "done"}

\* A fiber that builds has its parents behind it.
ParentsOver == \A m \in Model : fiber[m] = "building" =>
    \A k \in Deps[m] : fiber[k] \in {"absent", "built"}

\* What a table is to load its parents have, or are to load.
PlansAgree == \A m \in Table, i \in Interval : batch[m, i] # "none" =>
    \A k \in Deps[m] : batch[k, i] # "none" \/ ledger[k, i] = "done"

ExecutorInv ==
    /\ Typed /\ LoadsWhole /\ MarksTrue /\ OwnersBuild
    /\ FibersAgree /\ ParentsOver /\ PlansAgree

-----------------------------------------------------------------------------
LEMMA Places ==
    ASSUME NEW m \in Table, NEW i \in Interval
    PROVE  <<m, i>> \in Place /\ m \in Model
BY ExecutorAssumption DEF Place, ExecutorAssumption

LEMMA PlaceParts ==
    ASSUME NEW p \in Place
    PROVE  p[1] \in Table /\ p[1] \in Model /\ p[2] \in Interval /\ p = <<p[1], p[2]>>
BY ExecutorAssumption DEF Place, ExecutorAssumption

\* A table that reads tables only reads its parents and nothing below them.
LEMMA SourcesAreParents ==
    ASSUME TablesReadTables, NEW m \in Table
    PROVE  Sources(m) \subseteq Deps[m]
<1>1. Deps[m] \subseteq Model /\ Deps[m] \subseteq Table
  BY ExecutorAssumption DEF ExecutorAssumption, TablesReadTables
<1>2. Deps[m] \in Closed(m)
  BY <1>1 DEF Closed
<1> QED
  BY <1>2 DEF Sources

LEMMA Parents ==
    ASSUME NEW m \in Model, NEW k \in Deps[m]
    PROVE  k \in Model
BY ExecutorAssumption DEF ExecutorAssumption

LEMMA InitInv == Init => ExecutorInv
<1> SUFFICES ASSUME Init PROVE ExecutorInv
  OBVIOUS
<1>1. Typed
  BY DEF Init, Typed
<1>2. LoadsWhole /\ MarksTrue /\ OwnersBuild
  BY DEF Init, LoadsWhole, MarksTrue, OwnersBuild
<1>3. FibersAgree /\ ParentsOver /\ PlansAgree
  BY Places DEF Init, FibersAgree, ParentsOver, PlansAgree
<1> QED
  BY <1>1, <1>2, <1>3 DEF ExecutorInv

\* What the plan of an apply leaves out is done already.
LEMMA StartInv ==
    ASSUME TablesReadTables, ExecutorInv, Start
    PROVE  ExecutorInv'
<1> USE DEF Start, tables
<1>0. \A t \in open : ~t.owned
  <2> SUFFICES ASSUME NEW t \in open, t.owned PROVE FALSE
    BY DEF ExecutorInv, Typed
  <2> QED
    BY PlaceParts DEF ExecutorInv, Typed, OwnersBuild, FibersAgree
<1>1. Typed'
  BY DEF ExecutorInv, Typed
<1>2. LoadsWhole'
  BY DEF ExecutorInv, LoadsWhole
<1>3. MarksTrue'
  BY DEF ExecutorInv, MarksTrue
<1>4. OwnersBuild'
  BY <1>0 DEF OwnersBuild
<1>5. ASSUME NEW m \in Table, NEW i \in Interval
      PROVE  /\ batch'[m, i] # "none" <=> i \in Backfill(m)
             /\ fiber'[m] = "absent" => batch'[m, i] = "none"
             /\ fiber'[m] # "built"
  BY Places DEF WorkingIn
<1>6. ASSUME NEW m \in Table, NEW i \in Interval, batch'[m, i] # "none", NEW k \in Deps[m]
      PROVE  batch'[k, i] # "none" \/ ledger'[k, i] = "done"
  <2>1. k \in Table
    BY DEF TablesReadTables
  <2>2. i \in 1 .. now
    BY <1>5, <1>6 DEF Backfill, Done, Reread
  <2> QED
    BY <1>5, <2>1, <2>2 DEF Backfill, Done
<1>7. FibersAgree'
  BY <1>5 DEF FibersAgree
<1>8. ParentsOver'
  BY DEF ParentsOver
<1>9. PlansAgree'
  BY <1>6 DEF PlansAgree
<1> QED
  BY <1>1, <1>2, <1>3, <1>4, <1>7, <1>8, <1>9 DEF ExecutorInv

LEMMA LaunchInv ==
    ASSUME ExecutorInv, NEW m \in Model, Launch(m)
    PROVE  ExecutorInv'
<1> USE DEF Launch, tables
<1>1. Typed' /\ LoadsWhole' /\ MarksTrue'
  BY DEF ExecutorInv, Typed, LoadsWhole, MarksTrue
<1>2. OwnersBuild'
  BY PlaceParts DEF ExecutorInv, Typed, OwnersBuild
<1>3. FibersAgree' /\ PlansAgree'
  BY Places DEF ExecutorInv, Typed, FibersAgree, PlansAgree
<1>4. ParentsOver'
  BY Parents DEF ExecutorInv, Typed, ParentsOver
<1> QED
  BY <1>1, <1>2, <1>3, <1>4 DEF ExecutorInv

LEMMA EnterInv ==
    ASSUME ExecutorInv, NEW m \in Model, Enter(m)
    PROVE  ExecutorInv'
<1> USE DEF Enter, tables
<1>1. Typed' /\ LoadsWhole' /\ MarksTrue'
  BY DEF ExecutorInv, Typed, LoadsWhole, MarksTrue
<1>2. OwnersBuild'
  BY PlaceParts DEF ExecutorInv, Typed, OwnersBuild
<1>3. FibersAgree' /\ PlansAgree'
  BY Places DEF ExecutorInv, Typed, FibersAgree, PlansAgree
<1>4. ParentsOver'
  BY Parents DEF ExecutorInv, Typed, ParentsOver, GatesOpen
<1> QED
  BY <1>1, <1>2, <1>3, <1>4 DEF ExecutorInv

LEMMA BuiltInv ==
    ASSUME ExecutorInv, NEW m \in Model, Built(m)
    PROVE  ExecutorInv'
<1> USE DEF Built, tables
<1>1. Typed' /\ LoadsWhole' /\ MarksTrue'
  BY DEF ExecutorInv, Typed, LoadsWhole, MarksTrue
<1>2. ASSUME NEW t \in open, t.owned
      PROVE  fiber'[t.at[1]] = "building"
  <2>1. t.at \in Place /\ batch[t.at] = "writing" /\ fiber[t.at[1]] = "building"
    BY <1>2 DEF ExecutorInv, Typed, OwnersBuild
  <2>2. t.at[1] # m
    BY <2>1
  <2> QED
    BY <2>1, <2>2, PlaceParts DEF ExecutorInv, Typed
<1>3. OwnersBuild'
  BY <1>2 DEF ExecutorInv, OwnersBuild
<1>4. \A i \in Interval : m \in Table => batch[m, i] \in {"none", "done"}
  BY Places
<1>5. FibersAgree'
  BY <1>4, Places DEF ExecutorInv, Typed, FibersAgree
<1>6. ParentsOver'
  BY Parents DEF ExecutorInv, Typed, ParentsOver
<1>7. PlansAgree'
  BY DEF ExecutorInv, PlansAgree
<1> QED
  BY <1>1, <1>3, <1>5, <1>6, <1>7 DEF ExecutorInv

\* The steps that leave fibers, batches, marks and tables as they are.
LEMMA QuietInv ==
    ASSUME ExecutorInv,
           \/ \E m \in Model : BuildView(m)
           \/ Finish
           \/ IntervalEnds
    PROVE  ExecutorInv'
<1>0. /\ fiber' = fiber /\ batch' = batch /\ ledger' = ledger
      /\ open' = open /\ rows' = rows /\ whole' = whole
      /\ \/ phase' = phase
         \/ phase' = "idle" /\ \A m \in Model : fiber[m] \in {"absent", "built"}
  <2>1. CASE \E m \in Model : BuildView(m)
    BY <2>1 DEF BuildView, apply, tables
  <2>2. CASE Finish
    BY <2>2 DEF Finish, tables
  <2>3. CASE IntervalEnds
    BY <2>3 DEF IntervalEnds, apply, tables
  <2> QED
    BY <2>1, <2>2, <2>3
<1>1. Typed' /\ LoadsWhole' /\ MarksTrue' /\ OwnersBuild'
  BY <1>0 DEF ExecutorInv, Typed, LoadsWhole, MarksTrue, OwnersBuild
<1>2. FibersAgree' /\ ParentsOver' /\ PlansAgree'
  BY <1>0 DEF ExecutorInv, Typed, FibersAgree, ParentsOver, PlansAgree
<1> QED
  BY <1>1, <1>2 DEF ExecutorInv
\* The rows of the parents are there before the DELETE and the INSERT run.
LEMMA WriteInv ==
    ASSUME TablesReadTables, ExecutorInv, NEW m \in Table, NEW i \in Interval, Write(m, i)
    PROVE  ExecutorInv'
<1> DEFINE p == <<m, i>>
           t0 == [at |-> p, id |-> FreshId(p), seen |-> Deleted(p),
                  whole |-> Complete(m, i), owned |-> TRUE]
<1>1. p \in Place /\ m \in Model /\ p[1] = m /\ batch[p] \in {"todo", "retry"}
  BY Places DEF Write, NextBatch
<1>2. /\ fiber[m] = "building" /\ fiber' = fiber /\ phase' = phase
      /\ batch' = [batch EXCEPT ![p] = "writing"]
      /\ open' = open \cup {t0}
      /\ rows' = rows /\ whole' = whole /\ ledger' = ledger
  BY DEF Write
<1>3. Complete(m, i)
  <2> SUFFICES ASSUME NEW k \in Sources(m) PROVE rows[k, i] # {} /\ whole[k, i]
    BY DEF Complete
  <2>1. k \in Deps[m] /\ k \in Table /\ k \in Model
    BY SourcesAreParents, Places DEF Sources
  <2>2. fiber[k] \in {"absent", "built"}
    BY <1>1, <1>2, <2>1 DEF ExecutorInv, ParentsOver
  <2>3. batch[k, i] \in {"none", "done"}
    BY <2>1, <2>2 DEF ExecutorInv, FibersAgree
  <2>4. batch[k, i] = "done" \/ ledger[k, i] = "done"
    BY <1>1, <2>1, <2>3 DEF ExecutorInv, PlansAgree
  <2>5. <<k, i>> \in Place
    BY <2>1, Places
  <2> QED
    BY <2>4, <2>5 DEF ExecutorInv, MarksTrue, LoadsWhole
<1>4. /\ DOMAIN t0 = {"at", "id", "seen", "whole", "owned"}
      /\ t0.at = p /\ t0.owned = TRUE /\ t0.whole = TRUE
  BY <1>3
<1> HIDE DEF t0
<1>5. Typed'
  BY <1>1, <1>2, <1>4 DEF ExecutorInv, Typed
<1>6. LoadsWhole'
  BY <1>2, <1>4 DEF ExecutorInv, LoadsWhole
<1>7. MarksTrue'
  BY <1>1, <1>2 DEF ExecutorInv, Typed, MarksTrue
<1>8. \A t \in open : t.owned => t.at # p
  BY <1>1 DEF ExecutorInv, OwnersBuild
<1> HIDE DEF p
<1>9. OwnersBuild'
  BY <1>1, <1>2, <1>4, <1>8 DEF ExecutorInv, Typed, OwnersBuild
<1>10. FibersAgree'
  BY <1>1, <1>2, Places DEF ExecutorInv, Typed, FibersAgree, p
<1>11. ParentsOver'
  BY <1>2 DEF ExecutorInv, ParentsOver
<1>12. PlansAgree'
  <2>1. \A q \in Place : batch'[q] # "none" <=> batch[q] # "none"
    BY <1>1, <1>2 DEF ExecutorInv, Typed
  <2> QED
    BY <1>2, <2>1, Places DEF ExecutorInv, PlansAgree, TablesReadTables
<1> QED
  BY <1>5, <1>6, <1>7, <1>9, <1>10, <1>11, <1>12 DEF ExecutorInv

LEMMA CommitInv ==
    ASSUME TablesReadTables, ExecutorInv, NEW t \in open, Commit(t)
    PROVE  ExecutorInv'
<1> DEFINE p == t.at
<1>1. /\ p \in Place /\ p[1] \in Model /\ t.owned /\ t.whole = TRUE
      /\ fiber[p[1]] = "building" /\ batch[p] = "writing"
  BY PlaceParts DEF Commit, ExecutorInv, Typed, OwnersBuild, LoadsWhole
<1>2. /\ open' = open \ {t}
      /\ rows' = [rows EXCEPT ![p] = (@ \ t.seen) \cup {t.id}]
      /\ whole' = [whole EXCEPT ![p] = t.whole]
      /\ batch' = [batch EXCEPT ![p] = "written"]
      /\ fiber' = fiber /\ phase' = phase /\ ledger' = ledger
  BY DEF Commit, CommitTx
<1>3. \A u \in open' : u \in open /\ (u.owned => u.at # p)
  BY <1>1, <1>2 DEF ExecutorInv, OwnersBuild
<1>4. \A q \in Place : batch'[q] # "none" <=> batch[q] # "none"
  BY <1>1, <1>2 DEF ExecutorInv, Typed
<1>5. \A q \in Place : rows'[q] # {} <=> rows[q] # {} \/ q = p
  BY <1>1, <1>2 DEF ExecutorInv, Typed
<1> HIDE DEF p
<1>6. Typed'
  BY <1>1, <1>2, <1>3 DEF ExecutorInv, Typed
<1>7. LoadsWhole' /\ MarksTrue'
  BY <1>1, <1>2, <1>3, <1>5 DEF ExecutorInv, Typed, LoadsWhole, MarksTrue
<1>8. OwnersBuild'
  BY <1>1, <1>2, <1>3 DEF ExecutorInv, Typed, OwnersBuild
<1>9. FibersAgree' /\ ParentsOver'
  <2>1. p = <<p[1], p[2]>> /\ fiber[p[1]] = "building"
    BY <1>1, PlaceParts
  <2>2. ASSUME NEW m \in Table, NEW i \in Interval, fiber[m] \in {"absent", "built"}
        PROVE  batch'[m, i] = batch[m, i]
    <3>1. <<m, i>> \in Place /\ <<m, i>> # p
      BY <2>1, <2>2, Places
    <3> QED
      BY <1>2, <3>1 DEF ExecutorInv, Typed
  <2> QED
    BY <1>2, <2>2 DEF ExecutorInv, FibersAgree, ParentsOver
<1>10. PlansAgree'
  BY <1>2, <1>4, Places DEF ExecutorInv, PlansAgree, TablesReadTables
<1> QED
  BY <1>6, <1>7, <1>8, <1>9, <1>10 DEF ExecutorInv
LEMMA MarkDoneInv ==
    ASSUME TablesReadTables, ExecutorInv, NEW m \in Table, NEW i \in Interval, MarkDone(m, i)
    PROVE  ExecutorInv'
<1> DEFINE p == <<m, i>>
<1>1. p \in Place /\ p[1] = m /\ batch[p] = "written" /\ rows[p] # {}
  BY Places DEF MarkDone, ExecutorInv, MarksTrue
<1>2. /\ batch' = [batch EXCEPT ![p] = "done"] /\ ledger' = [ledger EXCEPT ![p] = "done"]
      /\ fiber' = fiber /\ phase' = phase
      /\ open' = open /\ rows' = rows /\ whole' = whole
  BY DEF MarkDone, tables
<1> HIDE DEF p
<1>3. Typed' /\ LoadsWhole' /\ MarksTrue'
  BY <1>1, <1>2 DEF ExecutorInv, Typed, LoadsWhole, MarksTrue
<1>4. OwnersBuild'
  BY <1>1, <1>2 DEF ExecutorInv, Typed, OwnersBuild
<1>5. FibersAgree' /\ ParentsOver'
  BY <1>1, <1>2, Places DEF ExecutorInv, Typed, FibersAgree, ParentsOver
<1>6. \A q \in Place : batch'[q] # "none" <=> batch[q] # "none"
  BY <1>1, <1>2 DEF ExecutorInv, Typed
<1>7. \A q \in Place : ledger[q] = "done" => ledger'[q] = "done"
  BY <1>1, <1>2 DEF ExecutorInv, Typed
<1>8. PlansAgree'
  BY <1>6, <1>7, Places DEF ExecutorInv, PlansAgree, TablesReadTables
<1> QED
  BY <1>3, <1>4, <1>5, <1>8 DEF ExecutorInv

LEMMA RetryInv ==
    ASSUME TablesReadTables, ExecutorInv, NEW t \in open, Retry(t)
    PROVE  ExecutorInv'
<1> DEFINE p == t.at
<1>1. /\ p \in Place /\ p[1] \in Model /\ t.owned
      /\ fiber[p[1]] = "building" /\ batch[p] = "writing"
  BY PlaceParts DEF Retry, ExecutorInv, Typed, OwnersBuild
<1>2. /\ open' = open \ {t} /\ batch' = [batch EXCEPT ![p] = "retry"]
      /\ fiber' = fiber /\ phase' = phase /\ ledger' = ledger
      /\ rows' = rows /\ whole' = whole
  BY DEF Retry
<1>3. \A u \in open' : u \in open /\ (u.owned => u.at # p)
  BY <1>1, <1>2 DEF ExecutorInv, OwnersBuild
<1>4. \A q \in Place : batch'[q] # "none" <=> batch[q] # "none"
  BY <1>1, <1>2 DEF ExecutorInv, Typed
<1> HIDE DEF p
<1>5. Typed' /\ LoadsWhole' /\ MarksTrue'
  BY <1>1, <1>2, <1>3 DEF ExecutorInv, Typed, LoadsWhole, MarksTrue
<1>6. OwnersBuild'
  BY <1>1, <1>2, <1>3 DEF ExecutorInv, Typed, OwnersBuild
<1>7. FibersAgree' /\ ParentsOver'
  <2>1. p = <<p[1], p[2]>>
    BY <1>1, PlaceParts
  <2>2. ASSUME NEW m \in Table, NEW i \in Interval, fiber[m] \in {"absent", "built"}
        PROVE  batch'[m, i] = batch[m, i]
    <3>1. <<m, i>> \in Place /\ <<m, i>> # p
      BY <1>1, <2>1, <2>2, Places
    <3> QED
      BY <1>2, <3>1 DEF ExecutorInv, Typed
  <2> QED
    BY <1>2, <2>2 DEF ExecutorInv, FibersAgree, ParentsOver
<1>8. PlansAgree'
  BY <1>2, <1>4, Places DEF ExecutorInv, PlansAgree, TablesReadTables
<1> QED
  BY <1>5, <1>6, <1>7, <1>8 DEF ExecutorInv

\* An apply that ends early leaves no fiber, no batch and no owner; a mark it
\* leaves behind is one that was there, or "failed".
LEMMA AbortInv ==
    ASSUME ExecutorInv,
           \/ \E t \in open : WriteFails(t)
           \/ \E m \in Table, i \in Interval : AuditFails(m, i)
           \/ \E m \in Model : BuildFails(m)
           \/ Killed
    PROVE  ExecutorInv'
<1>1. Abort /\ rows' = rows /\ whole' = whole
  BY DEF WriteFails, AuditFails, BuildFails, Killed
<1>2. ledger' = ledger \/ \E p \in Place : ledger' = [ledger EXCEPT ![p] = "failed"]
  <2>1. ASSUME NEW t \in open, WriteFails(t)
        PROVE  ledger' = ledger \/ \E p \in Place : ledger' = [ledger EXCEPT ![p] = "failed"]
    BY <2>1 DEF WriteFails, MarkFailed, ExecutorInv, Typed
  <2>2. ASSUME NEW m \in Table, NEW i \in Interval, AuditFails(m, i)
        PROVE  ledger' = ledger \/ \E p \in Place : ledger' = [ledger EXCEPT ![p] = "failed"]
    BY <2>2, Places DEF AuditFails, MarkFailed
  <2>3. ASSUME (\E m \in Model : BuildFails(m)) \/ Killed
        PROVE  ledger' = ledger
    BY <2>3 DEF BuildFails, Killed
  <2> QED
    BY <2>1, <2>2, <2>3
<1>3. ASSUME NEW u \in open'
      PROVE  /\ ~u.owned
             /\ \E t \in open : /\ u.at = t.at /\ u.whole = t.whole
                             /\ DOMAIN u = DOMAIN t /\ u.owned \in BOOLEAN
  <2>1. ASSUME NEW txs \in SUBSET open, u \in Orphaned(txs)
        PROVE  /\ ~u.owned
               /\ \E t \in open : /\ u.at = t.at /\ u.whole = t.whole
                               /\ DOMAIN u = DOMAIN t /\ u.owned \in BOOLEAN
    <3>1. PICK t \in txs : u = [t EXCEPT !.owned = FALSE]
      BY <2>1 DEF Orphaned
    <3>2. t \in open /\ DOMAIN t = {"at", "id", "seen", "whole", "owned"}
      BY <3>1 DEF ExecutorInv, Typed
    <3>3. u.owned = FALSE /\ u.at = t.at /\ u.whole = t.whole /\ DOMAIN u = DOMAIN t
      BY <3>1, <3>2
    <3> QED
      BY <3>2, <3>3
  <2>2. CASE Killed
    BY <2>2 DEF Killed, ExecutorInv, Typed
  <2>3. CASE ~Killed
    <3>1. \E txs \in SUBSET open : open' = Orphaned(txs)
      BY <2>3 DEF WriteFails, AuditFails, BuildFails
    <3> QED
      BY <2>1, <3>1
  <2> QED
    BY <2>2, <2>3
<1>4. Typed'
  BY <1>1, <1>2, <1>3 DEF ExecutorInv, Typed, Abort
<1>5. LoadsWhole'
  BY <1>1, <1>3 DEF ExecutorInv, LoadsWhole
<1>6. MarksTrue'
  BY <1>1, <1>2 DEF ExecutorInv, Typed, MarksTrue, Abort
<1>7. OwnersBuild'
  BY <1>3 DEF OwnersBuild
<1>8. FibersAgree' /\ ParentsOver' /\ PlansAgree'
  BY <1>1, Places DEF Abort, FibersAgree, ParentsOver, PlansAgree
<1> QED
  BY <1>4, <1>5, <1>6, <1>7, <1>8 DEF ExecutorInv

\* An orphan that commits brings rows that are complete as well.
LEMMA OrphanInv ==
    ASSUME ExecutorInv, NEW t \in open, OrphanEnds(t)
    PROVE  ExecutorInv'
<1> DEFINE p == t.at
<1>1. p \in Place /\ t.whole = TRUE
  BY DEF ExecutorInv, Typed, LoadsWhole
<1>2. /\ open' = open \ {t} /\ ledger' = ledger
      /\ fiber' = fiber /\ phase' = phase /\ batch' = batch
      /\ \/ /\ rows' = [rows EXCEPT ![p] = (@ \ t.seen) \cup {t.id}]
            /\ whole' = [whole EXCEPT ![p] = t.whole]
         \/ rows' = rows /\ whole' = whole
  BY DEF OrphanEnds, CommitTx, apply
<1>3. /\ \A q \in Place : rows[q] # {} => rows'[q] # {}
      /\ \A q \in Place : rows'[q] # {} => whole'[q]
      /\ rows' = [q \in Place |-> rows'[q]] /\ whole' \in [Place -> BOOLEAN]
  <2>1. CASE rows' = rows /\ whole' = whole
    BY <2>1 DEF ExecutorInv, Typed, LoadsWhole
  <2>2. CASE /\ rows' = [rows EXCEPT ![p] = (@ \ t.seen) \cup {t.id}]
             /\ whole' = [whole EXCEPT ![p] = t.whole]
    BY <1>1, <2>2 DEF ExecutorInv, Typed, LoadsWhole
  <2> QED
    BY <1>2, <2>1, <2>2
<1> HIDE DEF p
<1>4. Typed' /\ LoadsWhole' /\ MarksTrue' /\ OwnersBuild'
  BY <1>2, <1>3 DEF ExecutorInv, Typed, LoadsWhole, MarksTrue, OwnersBuild
<1>5. FibersAgree' /\ ParentsOver' /\ PlansAgree'
  BY <1>2 DEF ExecutorInv, FibersAgree, ParentsOver, PlansAgree
<1> QED
  BY <1>4, <1>5 DEF ExecutorInv

-----------------------------------------------------------------------------
LEMMA StepInv ==
    ASSUME TablesReadTables, ExecutorInv, [Next]_vars
    PROVE  ExecutorInv'
<1>1. ASSUME NEW m \in Model, Fiber(m)
      PROVE  ExecutorInv'
  BY <1>1, LaunchInv, EnterInv, BuiltInv, QuietInv DEF Fiber
<1>2. ASSUME NEW m \in Table, NEW i \in Interval, Batch(m, i)
      PROVE  ExecutorInv'
  BY <1>2, WriteInv, MarkDoneInv DEF Batch
<1>3. ASSUME NEW t \in open, Commit(t) \/ OrphanEnds(t)
      PROVE  ExecutorInv'
  BY <1>3, CommitInv, OrphanInv
<1>4. ASSUME Progress
      PROVE  ExecutorInv'
  BY <1>1, <1>2, <1>3, <1>4, QuietInv DEF Progress
<1>5. ASSUME Failure
      PROVE  ExecutorInv'
  BY <1>5, RetryInv, AbortInv DEF Failure
<1>6. ASSUME UNCHANGED vars
      PROVE  ExecutorInv'
  <2>1. /\ phase' = phase /\ fiber' = fiber /\ batch' = batch /\ ledger' = ledger
        /\ open' = open /\ rows' = rows /\ whole' = whole
    BY <1>6 DEF vars
  <2>2. Typed' /\ LoadsWhole' /\ MarksTrue' /\ OwnersBuild'
    BY <2>1 DEF ExecutorInv, Typed, LoadsWhole, MarksTrue, OwnersBuild
  <2>3. FibersAgree' /\ ParentsOver' /\ PlansAgree'
    BY <2>1 DEF ExecutorInv, FibersAgree, ParentsOver, PlansAgree
  <2> QED
    BY <2>2, <2>3 DEF ExecutorInv
<1> QED
  BY <1>4, <1>5, <1>6, StartInv, QuietInv DEF Next

\* The invariant holds of every execution of executor.ts's applies and ticks
\* in a project whose tables read tables.
THEOREM ExecutorInvariant ==
    ASSUME TablesReadTables
    PROVE  Spec => []ExecutorInv
<1>1. Init => ExecutorInv
  BY InitInv
<1>2. ExecutorInv /\ [Next]_vars => ExecutorInv'
  BY StepInv
<1> QED
  BY <1>1, <1>2, PTL DEF Spec

\* In such a project an interval marked done was computed from parents that
\* had it, however the fibers interleave, fail and are interrupted.
THEOREM DoneComplete ==
    ASSUME TablesReadTables
    PROVE  Spec => []DoneIsComplete
<1>1. ExecutorInv => DoneIsComplete
  BY DEF ExecutorInv, MarksTrue, LoadsWhole, DoneIsComplete
<1> QED
  BY <1>1, ExecutorInvariant, PTL

-----------------------------------------------------------------------------
(***************************************************************************)
(* Rows are loaded once, whatever the models read: while no load has       *)
(* overlapped an orphan, the one transaction open on a place deletes all   *)
(* the place holds.                                                        *)
(***************************************************************************)
AtMostOne(S) == \A x, y \in S : x = y

OneLoad == \A p \in Place : p \notin overlapped =>
    /\ AtMostOne(rows[p])
    /\ AtMostOne(OpenAt(p))
    /\ \A t \in open : t.at = p => t.seen = rows[p]

OpenTyped ==
    /\ rows = [p \in Place |-> rows[p]]
    /\ \A t \in open : /\ DOMAIN t = {"at", "id", "seen", "whole", "owned"}
                       /\ t.at \in Place

OnceInv == OpenTyped /\ OneLoad

LEMMA InitOnce == Init => OnceInv
BY DEF Init, OnceInv, OpenTyped, OneLoad, OpenAt, AtMostOne

LEMMA WriteOnce ==
    ASSUME OnceInv, NEW m \in Table, NEW i \in Interval, Write(m, i)
    PROVE  OnceInv'
<1> DEFINE p == <<m, i>>
           t0 == [at |-> p, id |-> FreshId(p), seen |-> Deleted(p),
                  whole |-> Complete(m, i), owned |-> TRUE]
<1>1. /\ open' = open \cup {t0} /\ rows' = rows
      /\ overlapped' = IF OpenAt(p) = {} THEN overlapped ELSE overlapped \cup {p}
  BY DEF Write
<1>2. /\ DOMAIN t0 = {"at", "id", "seen", "whole", "owned"}
      /\ t0.at = p /\ t0.seen = rows[p] /\ p \in Place
  BY Places DEF Deleted
<1> HIDE DEF t0, p
<1>3. OpenTyped'
  BY <1>1, <1>2 DEF OnceInv, OpenTyped
<1>4. ASSUME NEW q \in Place, q \notin overlapped'
      PROVE  /\ AtMostOne(rows'[q])
             /\ AtMostOne(OpenAt(q)')
             /\ \A t \in open' : t.at = q => t.seen = rows'[q]
  <2>1. q \notin overlapped /\ (q = p => OpenAt(p) = {})
    BY <1>1, <1>4
  <2>2. CASE q = p
    BY <1>1, <1>2, <2>1, <2>2 DEF OnceInv, OneLoad, OpenAt, AtMostOne
  <2>3. CASE q # p
    BY <1>1, <1>2, <2>1, <2>3 DEF OnceInv, OneLoad, OpenAt, AtMostOne
  <2> QED
    BY <2>2, <2>3
<1> QED
  BY <1>3, <1>4 DEF OnceInv, OneLoad

LEMMA CommitOnce ==
    ASSUME OnceInv, NEW t \in open, CommitTx(t), overlapped' = overlapped
    PROVE  OnceInv'
<1>1. OpenTyped'
  BY DEF CommitTx, OnceInv, OpenTyped
<1>2. ASSUME NEW q \in Place, q \notin overlapped'
      PROVE  /\ AtMostOne(rows'[q])
             /\ AtMostOne(OpenAt(q)')
             /\ \A u \in open' : u.at = q => u.seen = rows'[q]
  <2>1. CASE q = t.at
    <3>1. t.seen = rows[q] /\ \A u \in open : u.at = q => u = t
      BY <1>2, <2>1 DEF OnceInv, OneLoad, OpenAt, AtMostOne
    <3>2. rows'[q] = {t.id} /\ \A u \in open' : u.at # q
      BY <2>1, <3>1 DEF CommitTx, OnceInv, OpenTyped
    <3> QED
      BY <3>2 DEF OpenAt, AtMostOne
  <2>2. CASE q # t.at
    <3>1. rows'[q] = rows[q] /\ open' \subseteq open
      BY <2>2 DEF CommitTx, OnceInv, OpenTyped
    <3> QED
      BY <1>2, <3>1 DEF OnceInv, OneLoad, OpenAt, AtMostOne
  <2> QED
    BY <2>1, <2>2
<1> QED
  BY <1>1, <1>2 DEF OnceInv, OneLoad

\* Closing transactions or taking their owners away makes no second load.
LEMMA FewerOnce ==
    ASSUME OnceInv, rows' = rows, overlapped' = overlapped,
           NEW txs \in SUBSET open, open' \in {txs, Orphaned(txs)}
    PROVE  OnceInv'
<1>1. CASE open' = txs
  BY <1>1 DEF OnceInv, OpenTyped, OneLoad, OpenAt, AtMostOne
<1>2. CASE open' = Orphaned(txs)
  <2> DEFINE Orphan(t) == [t EXCEPT !.owned = FALSE]
  <2>1. ASSUME NEW t \in open
        PROVE  /\ DOMAIN Orphan(t) = DOMAIN t
               /\ Orphan(t).at = t.at /\ Orphan(t).seen = t.seen
    BY DEF OnceInv, OpenTyped
  <2>2. \A u \in open' : \E t \in open : u = Orphan(t)
    BY <1>2 DEF Orphaned
  <2> HIDE DEF Orphan
  <2>3. OpenTyped'
    BY <2>1, <2>2 DEF OnceInv, OpenTyped
  <2>4. ASSUME NEW q \in Place, q \notin overlapped'
        PROVE  /\ AtMostOne(rows'[q])
               /\ AtMostOne(OpenAt(q)')
               /\ \A u \in open' : u.at = q => u.seen = rows'[q]
    <3>1. \A t, u \in open : t.at = q /\ u.at = q => t = u
      BY <2>4 DEF OnceInv, OneLoad, OpenAt, AtMostOne
    <3>2. \A t, u \in open' : t.at = q /\ u.at = q => t = u
      BY <2>1, <2>2, <3>1
    <3>3. \A u \in open' : u.at = q => u.seen = rows[q]
      BY <2>1, <2>2, <2>4 DEF OnceInv, OneLoad
    <3> QED
      BY <2>4, <3>2, <3>3 DEF OnceInv, OneLoad, OpenAt, AtMostOne
  <2> QED
    BY <2>3, <2>4 DEF OnceInv, OneLoad
<1> QED
  BY <1>1, <1>2

LEMMA StepOnce ==
    ASSUME OnceInv, [Next]_vars
    PROVE  OnceInv'
<1>1. ASSUME NEW m \in Table, NEW i \in Interval, Write(m, i)
      PROVE  OnceInv'
  BY <1>1, WriteOnce
<1>2. ASSUME NEW t \in open, Commit(t) \/ OrphanEnds(t)
      PROVE  OnceInv'
  <2>1. CASE CommitTx(t)
    BY <1>2, <2>1, CommitOnce DEF Commit, OrphanEnds
  <2>2. CASE ~CommitTx(t)
    <3>1. open' = open \ {t} /\ rows' = rows /\ overlapped' = overlapped
      BY <1>2, <2>2 DEF Commit, OrphanEnds
    <3> QED
      BY <3>1, FewerOnce
  <2> QED
    BY <2>1, <2>2
<1>3. ASSUME Failure
      PROVE  OnceInv'
  <2>1. rows' = rows /\ overlapped' = overlapped
    BY <1>3 DEF Failure, Retry, WriteFails, AuditFails, BuildFails, Killed
  <2>2. \E txs \in SUBSET open : open' \in {txs, Orphaned(txs)}
    BY <1>3 DEF Failure, Retry, WriteFails, AuditFails, BuildFails, Killed
  <2> QED
    BY <2>1, <2>2, FewerOnce
<1>4. ASSUME UNCHANGED tables
      PROVE  OnceInv'
  BY <1>4 DEF tables, OnceInv, OpenTyped, OneLoad, OpenAt
<1>5. Next => \/ \E m \in Table, i \in Interval : Write(m, i)
              \/ \E t \in open : Commit(t) \/ OrphanEnds(t)
              \/ Failure
              \/ UNCHANGED tables
  BY DEF Next, Progress, Fiber, Batch, Launch, Enter, BuildView, Built, MarkDone, Finish,
         Start, IntervalEnds, tables
<1> QED
  BY <1>1, <1>2, <1>3, <1>4, <1>5 DEF vars, tables

\* Retries, failed applies, kills and reloads never leave an interval's rows
\* twice in a table, unless a load overlapped a transaction left open by an
\* interrupted fiber.
THEOREM LoadsOnce == Spec => []LoadedOnce
<1>1. OnceInv => LoadedOnce
  <2> SUFFICES ASSUME OnceInv, NEW p \in Place, p \notin overlapped
               PROVE  ~(Cardinality(rows[p]) > 1)
    BY DEF LoadedOnce
  <2>1. AtMostOne(rows[p])
    BY DEF OnceInv, OneLoad
  <2>2. rows[p] = {} \/ \E x : rows[p] = {x}
    BY <2>1 DEF AtMostOne
  <2>3. Cardinality(rows[p]) \in {0, 1}
    BY <2>2, FS_EmptySet, FS_Singleton
  <2> QED
    BY <2>3
<1>2. Init => OnceInv
  BY InitOnce
<1>3. OnceInv /\ [Next]_vars => OnceInv'
  BY StepOnce
<1> QED
  BY <1>1, <1>2, <1>3, PTL DEF Spec
=============================================================================
