---------------------------- MODULE MCWarehouse ----------------------------
(***************************************************************************)
(* Instances of Warehouse for TLC: the projects and kinds of models the    *)
(* configurations choose from.                                             *)
(***************************************************************************)
EXTENDS Warehouse, TLC

CONSTANTS m, n, v1, v2, v3, dev, prod

Symmetric == Permutations(Fp) \cup Permutations(Env)

AllIncremental == [x \in Name |-> "incremental"]
AllFull == [x \in Name |-> "full"]
\* m is a time-range model, n is rebuilt as a whole.
MixedKinds == [x \in Name |-> IF x = m THEN "incremental" ELSE "full"]

\* Every project over the names and fingerprints.
AnyProject == [Name -> Fp \cup {None}]
\* Every project that has all its models.
FullProjects == [Name -> Fp]
\* m has versions v1 and v2, n has v3, each may be left out.
TwoModels == {p \in AnyProject : p[m] # v3 /\ p[n] \in {v3, None}}
\* m is renamed to n and its body is left as it is: the fingerprint stays.
RenameProjects == {[x \in Name |-> IF x = m THEN v1 ELSE None],
                   [x \in Name |-> IF x = n THEN v1 ELSE None]}
=============================================================================
