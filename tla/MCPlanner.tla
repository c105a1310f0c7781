----------------------------- MODULE MCPlanner -----------------------------
(***************************************************************************)
(* Instances of Planner for TLC: a seed "s", a time-range model "a" over   *)
(* it, another one "b" over that, a unique-key model "c" and a full model  *)
(* "d" over "b", and a view "v" over "a" with a full model "w" behind it,  *)
(* which reads the seed too.                                               *)
(***************************************************************************)
EXTENDS Planner

CONSTANTS dev, prod

Symmetric == Permutations(Env)

Column1 == [x1 |-> "x", x2 |-> "x", y1 |-> "y", n1 |-> "n"]
\* An appended y reads a column of the parents that nothing else of "a" reads.
Reads1 == [x1 |-> {}, x2 |-> {}, y1 |-> {"x"}, n1 |-> {"x", "n"},
           plain |-> {}, union |-> {}, uniq |-> {}]
\* A SELECT, the same rows from a set operation, and a SELECT DISTINCT.
Meaning1 == [plain |-> "all", union |-> "all", uniq |-> "all"]

Kind1 == [n \in Name |-> CASE n \in {"a", "b"} -> "timeRange" [] n = "c" -> "uniqueKey"
                           [] n = "v" -> "view" [] n = "s" -> "seed"
                           [] OTHER -> "full"]
Deps1 == [n \in Name |-> CASE n = "a" -> {"s"} \cap Name [] n \in {"b", "v"} -> {"a"}
                           [] n \in {"c", "d"} -> {"b"}
                           [] n = "w" -> {"v", "s"} [] OTHER -> {}]

Def(list, rest, meta) == [ast |-> [list |-> list, rest |-> rest], meta |-> meta]

A1 == Def(<<"x1">>, "plain", "m1")            \* as it was
A2 == Def(<<"x1", "y1">>, "plain", "m1")      \* a column appended
A3 == Def(<<"x2">>, "plain", "m1")            \* an expression edited
A4 == Def(<<"x1">>, "union", "m1")            \* written as a set operation
A5 == Def(<<"x1", "y1">>, "union", "m1")      \* a column appended to that

Child == Def(<<"n1">>, "plain", "m1")
ChildM == Def(<<"n1">>, "plain", "m2")        \* other metadata
ChildY == Def(<<"n1", "y1">>, "plain", "m1")  \* a column appended

Seed == [ast |-> None, meta |-> "m1"]
SeedM == [ast |-> None, meta |-> "m2"]            \* the file edited

\* A project that has this for "a" and for "b", and Child for the others.
Project(a, b) ==
    [n \in Name |-> CASE n = "a" -> a [] n = "b" -> b [] n = "s" -> Seed
                      [] OTHER -> Child]
With(project, n, def) == [project EXCEPT ![n] = def]

\* Every kind of edit of "a", one along with the metadata of "b", one with the
\* file of "s", one with "w" left out of the project; a column appended to a
\* SELECT and to a set operation.
Edits == {Project(A1, Child), Project(A2, Child), Project(A2, ChildM),
          With(Project(A3, Child), "s", SeedM), With(Project(A4, Child), "w", None),
          With(Project(A5, Child), "w", None)}
\* An expression of "a" is edited, a column is appended to "b".
TwoEdits == {Project(a, b) : a \in {A1, A3}, b \in {Child, ChildY}}

\* A column appended to a SELECT DISTINCT.
DistinctEdits == {Project(Def(l, "uniq", "m1"), Child) :
                    l \in {<<"x1">>, <<"x1", "y1">>}}

NoOverride == [n \in {} |-> "breaking"]
OneOverride == {NoOverride, [n \in {"a"} |-> "non-breaking"]}
NoOverrides == {NoOverride}
=============================================================================
