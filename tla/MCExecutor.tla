----------------------------- MODULE MCExecutor -----------------------------
(* Instances of Executor for TLC. *)
EXTENDS Executor, TLC

\* Two tables one after the other, and a view over the first.
Chain == <<"a", "b", "v">>
ChainDeps == "a" :> {} @@ "b" :> {"a"} @@ "v" :> {"a"}

\* A table, a view over it, and a table over the view.
Through == <<"a", "v", "b">>
ThroughDeps == "a" :> {} @@ "v" :> {"a"} @@ "b" :> {"v"}
Tables == {"a", "b"}
=============================================================================
