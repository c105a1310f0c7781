------------------------------ MODULE Schedule ------------------------------
(***************************************************************************)
(* `efmesh schedule` (plan/schedule.ts): the tick of an environment is a   *)
(* worker file in the project and an entry of the operating system's       *)
(* scheduler, under a title, that runs it.  The two are written one after  *)
(* the other and either may fail; a command may be killed in between, and  *)
(* two may run at once.                                                    *)
(*                                                                         *)
(* A name is the sequence of its words: what a title may not contain       *)
(* becomes a dash, so the parts of a title cannot be told apart again.     *)
(***************************************************************************)
EXTENDS Naturals, Sequences

CONSTANTS Project, Env,
          Words(_),        \* of an environment, or of a project's directory
          Proc,            \* the commands that run
          MaxOps, MaxKills \* bounds

VARIABLES worker,     \* the targets whose worker file exists
          entry,      \* title -> the target whose worker it runs
          cmd,        \* what each command is at, and for which target
          asked,      \* the targets whose registration succeeded last (history)
          overlapped, \* the targets two commands were about at once (history)
          ops, kills

vars == <<worker, entry, cmd, asked, overlapped, ops, kills>>

Target == Project \X Env
Idle == [at |-> "idle"]

\* The basename of the project and the environment, joined.
Title(t) == Words(t[1]) \o Words(t[2])

Without(title) == [x \in DOMAIN entry \ {title} |-> entry[x]]

ScheduleAssumption ==
    /\ \A x \in Project \cup Env : Len(Words(x)) > 0
    /\ {MaxOps, MaxKills} \subseteq Nat

Init ==
    /\ worker = {} /\ entry = <<>>
    /\ cmd = [p \in Proc |-> Idle]
    /\ asked = {} /\ overlapped = {}
    /\ ops = 0 /\ kills = 0

-----------------------------------------------------------------------------
At(p, step) == cmd[p].at = step
Goes(p, c) == cmd' = [cmd EXCEPT ![p] = c]

\* A command starts.
Starts(p, t) ==
    /\ At(p, "idle") /\ ops < MaxOps
    /\ ops' = ops + 1
    /\ overlapped' = IF \E q \in Proc : cmd[q] # Idle /\ cmd[q].target = t
                     THEN overlapped \cup {t} ELSE overlapped
    /\ UNCHANGED kills

\* Register: the worker first (what is refused before it changes nothing) ...
WriteWorker(p, t) ==
    /\ Starts(p, t)
    /\ worker' = worker \cup {t}
    /\ Goes(p, [at |-> "enter", target |-> t])
    /\ UNCHANGED <<entry, asked>>

\* ... then the entry, in the place of any other of its title.
Enter(p) ==
    /\ At(p, "enter")
    /\ LET t == cmd[p].target
       IN /\ entry' = [x \in DOMAIN entry \cup {Title(t)} |->
                         IF x = Title(t) THEN t ELSE entry[x]]
          /\ asked' = asked \cup {t}
    /\ Goes(p, Idle)
    /\ UNCHANGED <<worker, overlapped, ops, kills>>

\* The scheduler refuses: the worker stays.
EnterFails(p) ==
    /\ At(p, "enter")
    /\ Goes(p, Idle)
    /\ UNCHANGED <<worker, entry, asked, overlapped, ops, kills>>

\* Remove: the entry of the title, or the scheduler refuses and all stays ...
RemoveEntry(p, t) ==
    /\ Starts(p, t)
    /\ asked' = asked \ {t}
    /\ entry' = Without(Title(t))
    /\ Goes(p, [at |-> "leave", target |-> t])
    /\ UNCHANGED worker

\* ... then the worker nothing runs any more.
RemoveWorker(p) ==
    /\ At(p, "leave")
    /\ worker' = worker \ {cmd[p].target}
    /\ Goes(p, Idle)
    /\ UNCHANGED <<entry, asked, overlapped, ops, kills>>

Kill(p) ==
    /\ ~At(p, "idle") /\ kills < MaxKills
    /\ kills' = kills + 1
    /\ Goes(p, Idle)
    /\ UNCHANGED <<worker, entry, asked, overlapped, ops>>

Next ==
    \E p \in Proc :
        \/ \E t \in Target : WriteWorker(p, t) \/ RemoveEntry(p, t)
        \/ Enter(p) \/ EnterFails(p) \/ RemoveWorker(p) \/ Kill(p)

Spec == Init /\ [][Next]_vars

-----------------------------------------------------------------------------
TypeOK ==
    /\ {worker, asked, overlapped} \subseteq SUBSET Target
    /\ \A title \in DOMAIN entry : entry[title] \in Target /\ Title(entry[title]) = title
    /\ \A p \in Proc : cmd[p] # Idle => cmd[p].target \in Target

Alike(t) == {u \in Target : Title(u) = Title(t)}

\* Wherever commands fail or are killed, an entry has a worker to run; and what
\* was registered last and has a title of its own is what its entry runs.  Two
\* commands for one target at once are the exception.
EntriesRun ==
    /\ \A title \in DOMAIN entry : entry[title] \in worker \cup overlapped
    /\ \A t \in asked \ overlapped : Alike(t) = {t} =>
          Title(t) \in DOMAIN entry /\ entry[Title(t)] = t

\* "One title = one entry" (schedule.ts:9), and the title "includes the project
\* and environment" (:37): what was registered and not removed stays scheduled.
RegisteredStays ==
    \A t \in asked \ overlapped : Title(t) \in DOMAIN entry /\ entry[Title(t)] = t
=============================================================================
