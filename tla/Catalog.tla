------------------------------ MODULE Catalog ------------------------------
(***************************************************************************)
(* What a warehouse promises to those who read it and to those who deploy  *)
(* to it.  A version is whole when all its rows can be read.  What an      *)
(* environment serves is replaced at once, by versions that are whole; and *)
(* for a ttl after it was last served a version stays whole, so that       *)
(* putting it back computes nothing.  Nothing is said of tables shared by  *)
(* versions, of intervals, ledgers, plans or marks: Warehouse shows how    *)
(* apply and the janitor keep the promise.                                 *)
(***************************************************************************)
CONSTANTS Env,       \* environments
          Version    \* versions of models

VARIABLES served,    \* env -> the versions its readers get
          whole,     \* the versions all of whose rows are there
          recent     \* the versions served at a moment since the last ttl began

vars == <<served, whole, recent>>

\* The versions that some environment serves.
InUse == UNION {served[e] : e \in Env}

Init ==
    /\ served = [e \in Env |-> {}]
    /\ whole = {} /\ recent = {}

\* Work on tables completes these versions, and spoils none.
Build(versions) ==
    /\ whole' = whole \cup versions
    /\ UNCHANGED <<served, recent>>

\* From here on this environment serves these versions.
Publish(e, versions) ==
    /\ versions \subseteq whole
    /\ served' = [served EXCEPT ![e] = versions]
    /\ recent' = recent \cup InUse'
    /\ UNCHANGED whole

\* The garbage collection of a version, not too early.
Collect(v) ==
    /\ v \notin recent
    /\ whole' = whole \ {v}
    /\ UNCHANGED <<served, recent>>

\* What is served no longer has been kept for long enough.
TtlPasses ==
    /\ recent' = InUse
    /\ UNCHANGED <<served, whole>>

Next ==
    \/ \E versions \in SUBSET Version :
           Build(versions) \/ \E e \in Env : Publish(e, versions)
    \/ \E v \in Version : Collect(v)
    \/ TtlPasses

Spec == Init /\ [][Next]_vars

\* What is served, and what was until a ttl ago, is whole.
Available == InUse \subseteq recent /\ recent \subseteq whole
=============================================================================
