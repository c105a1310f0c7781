----------------------------- MODULE Migration -----------------------------
(***************************************************************************)
(* The layout of the state store: what opening a store does                *)
(* (SqliteStateLive, PostgresStateLive), what `efmesh migrate` does, and   *)
(* what several processes, of binaries of several versions, leave of a     *)
(* store when they do it at once and are killed anywhere.                  *)
(*                                                                         *)
(* On SQLite every statement commits by itself; on Postgres a batch is a   *)
(* transaction.  External: SQLite's files (in WAL mode the main file has   *)
(* what was there when the last connection closed; a statement finds the   *)
(* database locked while another process writes) and READ COMMITTED (a     *)
(* DELETE takes the rows that were there when it began).                   *)
(***************************************************************************)
EXTENDS Integers, FiniteSets, SequencesExt

CONSTANTS Proc,     \* processes
          Versions, \* the STATE_VERSIONs of their binaries
          Dialects, \* "sqlite", "postgres"
          Stores,   \* the versions of the stores there may be
          Fresh,    \* no store yet
          MaxOps,   \* bound: opens and migrates in all
          MaxKills  \* bound: processes that are killed

\* The tables and columns that came after the first release, and the version
\* each came with
\* (orphaned_at stands for the three of version 1).
Column == <<"orphaned_at", "applied_by", "fingerprint_version">>
Tables == <<"snapshots", "plans", "runs", "canon_cache">>
Since == [snapshots |-> 0, plans |-> 0, orphaned_at |-> 1, meta |-> 1, applied_by |-> 2,
          fingerprint_version |-> 3, runs |-> 4, canon_cache |-> 5]
Part == DOMAIN Since
Layout(v) == {x \in Part : Since[x] <= v}
Home(column) == IF column = "applied_by" THEN "plans" ELSE "snapshots"

MigrationAssumption ==
    /\ Versions \subseteq Nat \ {0} /\ Stores \subseteq Nat \cup {Fresh} /\ Fresh \notin Nat
    /\ Dialects \subseteq {"sqlite", "postgres"} /\ MaxOps \in Nat /\ MaxKills \in Nat

VARIABLES dialect,
          db,        \* what the store holds: parts, stamps (the rows of meta),
                     \* and whether somebody's work is recorded in it
          file,      \* SQLite's main file
          backup,    \* the copies, by the version in their names
          proc,      \* what each process is doing
          ops, kills,
          swallowed  \* an ALTER did not come through and nobody was told (history)

vars == <<dialect, db, file, backup, proc, ops, kills, swallowed>>

NoProc == [at |-> "idle"]
Alive(p) == proc[p].at # "idle"
Writing(p) == proc[p].at = "script"

\* readVersion: of a row of meta, whichever comes first; 0 when there is none.
ReadVersion == IF db.stamps = {} THEN {0} ELSE {s.version : s \in db.stamps}

Empty == [parts |-> {}, stamps |-> {}, work |-> FALSE]
StoreOf(v) == IF v = Fresh THEN Empty
              ELSE [parts |-> Layout(v), work |-> FALSE,
                    stamps |-> IF v = 0 THEN {} ELSE {[id |-> 0, version |-> v]}]

Init ==
    /\ dialect \in Dialects
    /\ db \in {StoreOf(v) : v \in Stores} /\ file = db
    /\ backup = [v \in {} |-> Empty]
    /\ proc = [p \in Proc |-> NoProc]
    /\ ops = 0 /\ kills = 0 /\ swallowed = FALSE

(***************************************************************************)
(* applyMigrations: its statements, in their order.                        *)
(***************************************************************************)
\* (They are in the order of their versions, so it is a beginning of them.)
UpTo(v, parts) ==
    SubSeq(parts, 1, CHOOSE n \in 0 .. Len(parts) :
                         \A i \in DOMAIN parts : i <= n <=> Since[parts[i]] <= v)

\* (The stamp is written before what it promises is there.)
StampFirst(v) ==
    IF dialect = "postgres" THEN <<"delete", "stamp", "schema", "columns">>
    ELSE <<"meta", "delete", "stamp">> \o UpTo(v, Tables) \o UpTo(v, Column)

Script(v) ==
    IF dialect = "postgres" THEN <<"schema", "columns", "delete", "stamp">>
    ELSE UpTo(v, Tables) \o UpTo(v, Column) \o <<"meta", "delete", "stamp">>

\* CREATE TABLE IF NOT EXISTS: a new table has all its columns.
Create(parts, tables, v) ==
    LET new == tables \ parts
    IN parts \cup new \cup {x \in ToSet(UpTo(v, Column)) : Home(x) \in new}

Parts(statement, v) ==
    CASE statement = "schema" -> Create(db.parts, ToSet(UpTo(v, Tables)), v)
      [] statement = "columns" -> db.parts \cup ToSet(UpTo(v, Column)) \cup {"meta"}
      [] statement \in ToSet(Tables) -> Create(db.parts, {statement}, v)
      [] statement \in ToSet(Column) \cup {"meta"} -> db.parts \cup {statement}
      [] OTHER -> db.parts

Statement(p) == Script(proc[p].version)[proc[p].step]

\* (A stamp is put beside those there are.)
StampsBeside(p) ==
    IF Statement(p) = "stamp"
    THEN db.stamps \cup {[id |-> proc[p].id, version |-> proc[p].version]} ELSE db.stamps

\* On SQLite DELETE empties meta, by itself.  On Postgres it is the first half
\* of a transaction: it settles which rows are to go.
Stamps(p) ==
    LET own == {[id |-> proc[p].id, version |-> proc[p].version]} IN
    CASE Statement(p) = "delete" /\ dialect = "sqlite" -> {}
      [] Statement(p) = "stamp" /\ dialect = "sqlite" -> db.stamps \cup own
      [] Statement(p) = "stamp" /\ dialect = "postgres" -> (db.stamps \ proc[p].seen) \cup own
      [] OTHER -> db.stamps

Went(p) == IF proc[p].step = Len(Script(proc[p].version))
           THEN [proc[p] EXCEPT !.at = IF proc[p].kind = "open" THEN "opened" ELSE "done"]
           ELSE [proc[p] EXCEPT !.step = @ + 1, !.seen = IF Statement(p) = "delete" THEN db.stamps
                                                         ELSE {}]

Runs(p) ==
    /\ Writing(p)
    /\ db' = [db EXCEPT !.parts = Parts(Statement(p), proc[p].version), !.stamps = Stamps(p)]
    /\ proc' = [proc EXCEPT ![p] = Went(p)]
    /\ UNCHANGED <<dialect, file, backup, ops, kills, swallowed>>

\* The database is locked, or two Postgres sessions create the same table: an
\* ALTER on SQLite passes over any error, every other statement ends with one.
Fails(p) ==
    /\ Writing(p) /\ \E q \in Proc \ {p} : Writing(q) \/ proc[q].at = "opened"
    /\ IF dialect = "sqlite" /\ Statement(p) \in ToSet(Column)
       THEN proc' = [proc EXCEPT ![p] = Went(p)] /\ swallowed' = TRUE
       ELSE proc' = [proc EXCEPT ![p].at = "failed"] /\ UNCHANGED swallowed
    /\ UNCHANGED <<dialect, db, file, backup, ops, kills>>

(***************************************************************************)
(* The two commands.                                                       *)
(***************************************************************************)
\* A process connects: a migrate that was alone no longer is.
Begins(p, own) ==
    /\ ~Alive(p) /\ ops < MaxOps
    /\ ops' = ops + 1
    /\ proc' = [q \in Proc |->
         IF q = p THEN own
         ELSE IF Alive(q) THEN [proc[q] EXCEPT !.alone = FALSE, !.before = Empty] ELSE NoProc]
    /\ UNCHANGED <<dialect, db, file, backup, kills, swallowed>>

\* An absent store is created at the binary's version; another is looked at.
Opens(p, v) ==
    LET fresh == "snapshots" \notin db.parts
    IN Begins(p, [at |-> IF fresh THEN "script" ELSE "checks", kind |-> "open", version |-> v,
                  from |-> Fresh, alone |-> FALSE, before |-> Empty,
                  step |-> 1, seen |-> {}, id |-> ops + 1])

\* StateSchemaError unless the versions are the same.
Checks(p) ==
    /\ proc[p].at = "checks"
    /\ \E version \in ReadVersion :
        proc' = [proc EXCEPT ![p].at = IF version = proc[p].version THEN "opened" ELSE "refused"]
    /\ UNCHANGED <<dialect, db, file, backup, ops, kills, swallowed>>

Migrates(p, v) ==
    LET alone == \A q \in Proc \ {p} : ~Alive(q)
    IN Begins(p, [at |-> "reads", kind |-> "migrate", version |-> v, from |-> Fresh,
                  alone |-> alone, before |-> IF alone THEN db ELSE Empty,
                  step |-> 1, seen |-> {}, id |-> ops + 1])

Reads(p) ==
    /\ proc[p].at = "reads"
    /\ \E version \in ReadVersion :
        proc' = [proc EXCEPT ![p].from = version,
                    ![p].at = IF dialect = "sqlite" /\ version # proc[p].version THEN "copies"
                              ELSE "script"]
    /\ UNCHANGED <<dialect, db, file, backup, ops, kills, swallowed>>

\* Over an older copy of that version.
Copied(v, store) == [w \in DOMAIN backup \cup {v} |-> IF w = v THEN store ELSE backup[w]]

\* (The copy is named for the version and made of what the store is by then.)
CopiesLate(p) ==
    /\ proc[p].at = "copies"
    /\ db' = [db EXCEPT !.parts = Create(@, Layout(proc[p].version), proc[p].version)]
    /\ backup' = Copied(proc[p].from, db')
    /\ proc' = [proc EXCEPT ![p].at = "script"]
    /\ UNCHANGED <<dialect, file, ops, kills, swallowed>>

\* Only the main file is copied.
Copies(p) ==
    /\ proc[p].at = "copies"
    /\ backup' = Copied(proc[p].from, file)
    /\ proc' = [proc EXCEPT ![p].at = "script"]
    /\ UNCHANGED <<dialect, db, file, ops, kills, swallowed>>

(***************************************************************************)
(* What else becomes of a process.                                         *)
(***************************************************************************)
Records(p) ==
    /\ proc[p].at = "opened" /\ ~db.work
    /\ db' = [db EXCEPT !.work = TRUE]
    /\ UNCHANGED <<dialect, file, backup, proc, ops, kills, swallowed>>

\* The last connection to close brings the main file up to date.
Closes(p) ==
    /\ proc[p].at \in {"opened", "done", "refused", "failed"}
    /\ proc' = [proc EXCEPT ![p] = NoProc]
    /\ file' = IF \E q \in Proc \ {p} : Alive(q) THEN file ELSE db
    /\ UNCHANGED <<dialect, db, backup, ops, kills, swallowed>>

Killed(p) ==
    /\ Alive(p) /\ kills < MaxKills
    /\ kills' = kills + 1
    /\ proc' = [proc EXCEPT ![p] = NoProc]
    /\ UNCHANGED <<dialect, db, file, backup, ops, swallowed>>

Next == \E p \in Proc :
    \/ \E v \in Versions : Opens(p, v) \/ Migrates(p, v)
    \/ Checks(p) \/ Reads(p) \/ Copies(p)
    \/ Runs(p) \/ Fails(p)
    \/ Records(p) \/ Closes(p) \/ Killed(p)

Spec == Init /\ [][Next]_vars

-----------------------------------------------------------------------------
TypeOK ==
    /\ dialect \in Dialects
    /\ db.parts \subseteq Part /\ file.parts \subseteq Part
    /\ \A s \in db.stamps : s.id \in 0..MaxOps /\ s.version \in Nat
    /\ \A p \in Proc : Writing(p) => proc[p].step \in 1..Len(Script(proc[p].version))
    /\ ops \in 0..MaxOps /\ kills \in 0..MaxKills /\ swallowed \in BOOLEAN

\* A process that has opened the store finds every table and column its
\* version works with, although others create, upgrade, downgrade and are
\* killed at the same time; unless an ALTER failed unnoticed.
OpenedIsComplete ==
    ~swallowed => \A p \in Proc : proc[p].at = "opened" => Layout(proc[p].version) \subseteq db.parts

\* One migrate that nothing disturbs repairs whatever kills and collisions
\* have left: the layout is whole, and the stamp is one.
MigrateRepairs ==
    \A p \in Proc : proc[p].at = "done" /\ proc[p].alone =>
        /\ Layout(proc[p].version) \subseteq db.parts
        /\ {s.version : s \in db.stamps} = {proc[p].version} /\ Cardinality(db.stamps) = 1

\* An older version is no one-way trip (sqlite.ts:114): after an upgrade that
\* was alone the copy is the store as it was before, as long as nobody was
\* killed.
BackupIsTheStore ==
    \A p \in Proc : proc[p].at = "done" /\ proc[p].alone /\ dialect = "sqlite" =>
        \/ proc[p].from = proc[p].version
        \/ kills > 0
        \/ backup[proc[p].from] = proc[p].before

\* "column already exists" (sqlite.ts:107) is all an ALTER fails with.
OnlyExistingColumnsFail == \A p \in Proc :
    proc[p].at = "opened" => Layout(proc[p].version) \subseteq db.parts

\* "Before the upgrade, the file is copied" (sqlite.ts:115): the copy is the
\* store, whatever was killed before.
BackupAlways ==
    \A p \in Proc : proc[p].at = "done" /\ proc[p].alone /\ dialect = "sqlite" =>
        proc[p].from = proc[p].version \/ backup[proc[p].from] = proc[p].before
=============================================================================
