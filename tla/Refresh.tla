------------------------------ MODULE Refresh ------------------------------
(***************************************************************************)
(* The two kinds of models that every apply and every tick reconcile with  *)
(* their query: incrementalByUniqueKey replaces the rows of the keys the   *)
(* query returns and keeps the others, scdType2 keeps the versions of each *)
(* row and the times they were valid.  Environments that serve one version *)
(* share its table, and no lock is between their applies.                  *)
(*                                                                         *)
(* A reconciliation is a transaction of two statements, and each of them   *)
(* evaluates the query.  External: the engines' isolation.  DuckDB has one *)
(* process and one connection, so a transaction is one step and so is an   *)
(* apply among applies; on Postgres, READ COMMITTED, each statement sees   *)
(* what was committed when it began, a DELETE or UPDATE waits for rows     *)
(* another transaction has taken out and passes over those that are gone.  *)
(***************************************************************************)
EXTENDS Rows

CONSTANTS Env,
          Version,
          Places,    \* the versions the environments may be at
          Key, Value,
          Absent,    \* no row of this key in the query's result
          Sources,   \* the results the query may have
          Kinds,     \* the kinds and
          Dialects,  \* the engines a behaviour may be about
          MaxTime, MaxEdits,  \* bounds
          MaxApplies          \* bound, for each engine

\* The query returns one row of a key, which is what makes the key a key, and
\* finitely many.
Source == [Key \cup {Null} -> Value \cup {Absent}]

RefreshAssumption ==
    /\ Key \subseteq Nat /\ IsFiniteSet(Key) /\ Null \notin Int /\ Absent \notin Value
    /\ Sources \subseteq Source /\ Sources # {}
    /\ Places \subseteq [Env -> Version]
    /\ Kinds \subseteq {"incrementalByUniqueKey", "scdType2"}
    /\ Dialects \subseteq {"duckdb", "postgres"}
    /\ {MaxTime, MaxEdits} \subseteq Nat /\ MaxApplies \in [Dialects -> Nat]

VARIABLES kind, dialect,
          at,      \* env -> the version it is at
          source,  \* what the query returns
          table,   \* version -> its rows
          job,     \* env -> its apply
          clock, edits, applies,
          latest,  \* version -> key -> the value last reconciled (history)
          seen     \* version -> time -> the result last reconciled by then,
                   \* or None before the first one (history)

vars == <<kind, dialect, at, source, table, job, clock, edits, applies, latest, seen>>

None == [none |-> TRUE]
NoJob == [step |-> "idle"]

Row == [key : Key \cup {Null}, val : Value]
Valid == [key : Key \cup {Null}, val : Value, from : 0 .. MaxTime, to : 0 .. MaxTime \cup {Null}]

TypeOK ==
    /\ \A v \in Version : \A r \in BagToSet(table[v]) :
          r \in (IF kind = "scdType2" THEN Valid ELSE Row)
    /\ \A e \in Env : job[e].step \in {"idle", "first", "second", "commit", "audit"}
    /\ source \in Sources

Init ==
    /\ kind \in Kinds /\ dialect \in Dialects
    /\ at \in Places
    /\ source \in Sources
    /\ table = [v \in Version |-> EmptyBag]
    /\ job = [e \in Env |-> NoJob]
    /\ clock = 0 /\ edits = 0 /\ applies = 0
    /\ latest = [v \in Version |-> [k \in Key |-> Absent]]
    /\ seen = [v \in Version |-> [t \in 0 .. MaxTime |-> None]]

-----------------------------------------------------------------------------
(* The statements                                                          *)

Query == {[key |-> k, val |-> source[k]] : k \in {l \in DOMAIN source : source[l] # Absent}}

\* IS NOT DISTINCT FROM, in every column of the query.
Same(r, q) == r.key = q.key /\ r.val = q.val

Open(r) == r.to = Null

Restricted(bag, which) == [r \in which |-> bag[r]]

\* (All of a table.)
TakenOutAll(rows) == rows

\* (Closed rows too.)
TakenOutClosed(rows) ==
    Restricted(rows, {r \in BagToSet(rows) : ~\E q \in Query : Same(r, q)})

\* What the first statement takes out of these rows: DELETE ... WHERE key IN,
\* which no null is; UPDATE ... WHERE valid_to IS NULL AND NOT EXISTS.
TakenOut(rows) ==
    Restricted(rows,
        IF kind = "incrementalByUniqueKey"
        THEN {r \in BagToSet(rows) : r.key # Null /\ \E q \in Query : q.key = r.key}
        ELSE {r \in BagToSet(rows) : Open(r) /\ ~\E q \in Query : Same(r, q)})

\* The UPDATE writes them back with their end; they were open, so no two of
\* them become the same.
WrittenBack(out, now) ==
    LET ended(r) == [r EXCEPT !.to = now]
    IN IF kind = "incrementalByUniqueKey" THEN EmptyBag
       ELSE [r \in {ended(o) : o \in BagToSet(out)} |->
               out[CHOOSE o \in BagToSet(out) : ended(o) = r]]

\* What the second statement inserts beside these rows.
Inserted(rows, now) ==
    SetToBag(IF kind = "incrementalByUniqueKey" THEN Query
             ELSE {[key |-> q.key, val |-> q.val, from |-> now, to |-> Null] :
                     q \in {p \in Query : ~\E r \in BagToSet(rows) : Open(r) /\ Same(r, p)}})

-----------------------------------------------------------------------------
(* The query's result changes, time passes                                 *)

Edit ==
    /\ edits < MaxEdits
    /\ source' \in Sources \ {source}
    /\ edits' = edits + 1
    /\ UNCHANGED <<kind, dialect, at, table, job, clock, applies, latest, seen>>

Tick ==
    /\ clock < MaxTime
    /\ clock' = clock + 1
    /\ UNCHANGED <<kind, dialect, at, source, table, job, edits, applies, latest, seen>>

-----------------------------------------------------------------------------
(* An apply                                                                *)

\* applyPlan reads the time that its versions will bear; the table is created
\* when it is not there.
Begin(e) ==
    /\ job[e].step = "idle" /\ applies < MaxApplies[dialect]
    /\ dialect = "duckdb" => \A f \in Env : job[f].step = "idle"
    /\ applies' = applies + 1
    /\ job' = [job EXCEPT ![e] = [step |-> "first", now |-> clock, out |-> EmptyBag,
                                  in |-> EmptyBag, held |-> FALSE]]
    /\ UNCHANGED <<kind, dialect, at, source, table, clock, edits, latest, seen>>

Recorded(v, now) ==
    /\ latest' = [latest EXCEPT ![v] = [k \in Key |->
                     IF source[k] # Absent THEN source[k] ELSE @[k]]]
    /\ seen' = [seen EXCEPT ![v] = [t \in 0 .. MaxTime |->
                     IF t >= now THEN source ELSE @[t]]]

\* DuckDB: both statements, nothing in between.
Reconcile(e) ==
    LET v == at[e]
        out == TakenOut(table[v])
        after == (table[v] (-) out) (+) WrittenBack(out, job[e].now)
    IN /\ dialect = "duckdb" /\ job[e].step = "first"
       /\ table' = [table EXCEPT ![v] = after (+) Inserted(after, job[e].now)]
       /\ job' = [job EXCEPT ![e].step = "audit"]
       /\ Recorded(v, job[e].now)
       /\ UNCHANGED <<kind, dialect, at, source, clock, edits, applies>>

Shares(e, f, out) ==
    /\ f # e /\ at[f] = at[e] /\ job[f].step \in {"second", "commit"}
    /\ BagToSet(out) \cap BagToSet(job[f].out) # {}

\* The first statement finds its rows,
First(e) ==
    /\ dialect = "postgres" /\ job[e].step = "first" /\ ~job[e].held
    /\ job' = [job EXCEPT ![e].out = TakenOut(table[at[e]]), ![e].held = TRUE]
    /\ UNCHANGED <<kind, dialect, at, source, table, clock, edits, applies, latest, seen>>

\* and takes those that are still there when nobody else holds one of them.
Take(e) ==
    LET out == Restricted(job[e].out, BagToSet(job[e].out) \cap BagToSet(table[at[e]]))
    IN /\ dialect = "postgres" /\ job[e].step = "first" /\ job[e].held
       /\ \A f \in Env : ~Shares(e, f, job[e].out)
       /\ job' = [job EXCEPT ![e].step = "second", ![e].out = out,
                             ![e].in = WrittenBack(out, job[e].now)]
       /\ UNCHANGED <<kind, dialect, at, source, table, clock, edits, applies, latest, seen>>

Second(e) ==
    LET mine == (table[at[e]] (-) job[e].out) (+) job[e].in
    IN /\ dialect = "postgres" /\ job[e].step = "second"
       /\ job' = [job EXCEPT ![e].step = "commit",
                             ![e].in = @ (+) Inserted(mine, job[e].now)]
       /\ UNCHANGED <<kind, dialect, at, source, table, clock, edits, applies, latest, seen>>

Commit(e) ==
    /\ dialect = "postgres" /\ job[e].step = "commit"
    /\ table' = [table EXCEPT ![at[e]] = (@ (-) job[e].out) (+) job[e].in]
    /\ job' = [job EXCEPT ![e].step = "audit"]
    /\ UNCHANGED <<kind, dialect, at, source, clock, edits, applies, latest, seen>>

\* The audits pass and the version is registered, or they do not; an engine
\* error or a kill ends an apply anywhere, and an open transaction is undone.
End(e) ==
    /\ job[e].step # "idle"
    /\ job' = [job EXCEPT ![e] = NoJob]
    /\ UNCHANGED <<kind, dialect, at, source, table, clock, edits, applies, latest, seen>>

Apply(e) == Begin(e) \/ Reconcile(e) \/ First(e) \/ Take(e) \/ Second(e) \/ Commit(e) \/ End(e)

Next == Edit \/ Tick \/ \E e \in Env : Apply(e)

Spec == Init /\ [][Next]_vars

-----------------------------------------------------------------------------
(* Properties                                                              *)

\* On one connection the table of a unique-key model is an upsert's: of each
\* key that was ever returned the one row that was returned last.  A row
\* without a key is outside that: nothing replaces it.
Upserted ==
    dialect = "duckdb" /\ kind = "incrementalByUniqueKey" =>
        \A v \in Version :
            LET keyed == {r \in BagToSet(table[v]) : r.key # Null} IN
            /\ keyed = {[key |-> k, val |-> latest[v][k]] :
                          k \in {l \in Key : latest[v][l] # Absent}}
            /\ \A r \in keyed : Copies(r, table[v]) = 1

\* What was valid at a time is what the query returned at the last
\* reconciliation until then: no version overlaps another, none is missing.
AsOf ==
    dialect = "duckdb" /\ kind = "scdType2" =>
        \A v \in Version, t \in 0 .. clock :
            seen[v][t] # None =>
                {[key |-> r.key, val |-> r.val] :
                   r \in {s \in BagToSet(table[v]) : s.from <= t /\ (Open(s) \/ t < s.to)}}
                = {[key |-> k, val |-> seen[v][t][k]] :
                     k \in {l \in DOMAIN source : seen[v][t][l] # Absent}}

\* Both: what a reconciliation leaves is what its kind promises.
Reconciled == Upserted /\ AsOf

\* History is only added to: a closed version stays as it is, whoever
\* reconciles beside it.
ClosedStays ==
    [][kind = "scdType2" =>
         \A v \in Version : \A r \in BagToSet(table[v]) :
             ~Open(r) => Copies(r, table'[v]) >= Copies(r, table[v])]_vars

\* unique and contiguous, as apply and `efmesh audit` evaluate them, find what
\* is wrong with the keys and nothing else: no violation of unique means as many
\* rows as keys, and the holes contiguous reports add up to what is missing
\* between the least and the greatest.
AuditsExact ==
    \A v \in Version :
        LET rows == table[v]
            values == Keys(rows) \ {Null}
        IN /\ Unique(rows) = {} <=> BagCardinality(rows) = Cardinality(Keys(rows))
           /\ values # {} =>
                MapThenSumSet(LAMBDA g : g[2] - g[1] - 1, Contiguous(rows))
                = Max(values) - Min(values) + 1 - Cardinality(values)
           /\ values # {} =>
                (NoGaps(rows, 2) = {} <=> \A b \in Min(values) \div 2 .. Max(values) \div 2 :
                                            \E k \in values : k \div 2 = b)

\* The data diff of two environments at different versions, sampled or not: of
\* tables whose keys are unique and set, the counts are those of the keys, and
\* every key in both is matched once and drifts where its values differ.
KeyedOnce(rows) == Unique(rows) = {} /\ NotNull(rows) = {}
ValueOf(rows, k) == (CHOOSE r \in BagToSet(rows) : r.key = k).val

DiffExact ==
    \A v, w \in Version, buckets \in {Key, {1}} :
        LET a == table[v]
            b == table[w]
            report == DataDiff(a, b, buckets, {"val"})
            ka == Keys(a) \cap buckets
            kb == Keys(b) \cap buckets
        IN KeyedOnce(a) /\ KeyedOnce(b) =>
             /\ report.onlyInA = Cardinality(ka \ kb)
             /\ report.onlyInB = Cardinality(kb \ ka)
             /\ report.matched = Cardinality(ka \cap kb)
             /\ report.drift["val"] =
                  Cardinality({k \in ka \cap kb : ValueOf(a, k) # ValueOf(b, k)})

\* Both, of the tables reconciliations leave behind.
ChecksExact == AuditsExact /\ DiffExact

\* What fails on Postgres: two reconciliations of one table at once, or a
\* query whose result changes between its two evaluations, leave two rows of
\* one key.
KeyOnce ==
    kind = "incrementalByUniqueKey" =>
        \A v \in Version : \A k \in Unique(table[v]) : k = Null
=============================================================================
