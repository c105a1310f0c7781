--------------------------- MODULE SampleProject ---------------------------
(***************************************************************************)
(* The declarations of a small project, for the instances of Project: of   *)
(* a source, a model of people and a mart that reads it, valid and not.    *)
(***************************************************************************)
None == [kind |-> "none"]

NotNull(column) == [on |-> {column}, mentions |-> {column}]

\* A model of this kind that returns and declares these columns.
Model(kind, cols) ==
    [kind |-> kind, cols |-> cols, returns |-> cols, reads |-> cols \cap {"id", "at", "mail"},
     keep |-> {}, deps |-> {1}, refs |-> {1}, file |-> FALSE, key |-> {}, time |-> "at",
     dated |-> TRUE, from |-> "since", to |-> "until", target |-> "table", bounds |-> FALSE,
     redact |-> {}, audits |-> {}]

People == Model("full", {"id", "mail"})
Keyed  == [Model("incrementalByUniqueKey", {"id", "mail"}) EXCEPT !.key = {"id"}]
Daily  == [Model("incrementalByTimeRange", {"id", "at", "mail"}) EXCEPT !.bounds = TRUE]
Dim    == [Model("scdType2", {"id", "mail", "since", "until"}) EXCEPT
             !.key = {"id"}, !.returns = {"id", "mail"}]

Seed == [kind |-> "seed", named |-> TRUE, format |-> "csv", cols |-> {"id", "mail"},
         returns |-> {"id", "mail"}, reads |-> {}, keep |-> {}, target |-> "table",
         redact |-> {}, audits |-> {NotNull("id")}]

Table == [kind |-> "external", source |-> "table", named |-> TRUE, format |-> "",
          local |-> FALSE, policy |-> None, audits |-> {}, cols |-> {"id", "at", "mail"}]
Files == [Table EXCEPT !.source = "files", !.format = "parquet", !.local = TRUE,
            !.policy = [dated |-> TRUE, numbers |-> TRUE, bare |-> TRUE, cols |-> {"id"}]]

Sources == {Files, [Files EXCEPT !.policy.cols = {"x"}]}

Peoples ==
    {[People EXCEPT !.redact = {"mail"}, !.audits = {NotNull("mail"), NotNull("id")}],
     [People EXCEPT !.redact = {"mail"}, !.target = "parquet"],
     \* an audit of one's own need not name its columns
     [People EXCEPT !.redact = {"mail"}, !.audits = {[on |-> {"mail"}, mentions |-> {}]}],
     [People EXCEPT !.deps = {1, 3}],
     [People EXCEPT !.returns = {"id"}],
     [People EXCEPT !.file = TRUE, !.refs = {1, 3}],
     [Keyed EXCEPT !.redact = {"mail"}],
     [Keyed EXCEPT !.redact = {"mail"}, !.key = {"mail"}],
     [Keyed EXCEPT !.key = {"name"}],
     Daily, [Daily EXCEPT !.redact = {"mail"}], [Daily EXCEPT !.redact = {"at"}],
     [Model("incrementalByTimeRange", {"id", "at"}) EXCEPT !.bounds = TRUE],
     Dim, [Dim EXCEPT !.redact = {"mail"}], [Dim EXCEPT !.to = "since"],
     [Model("view", {"id", "mail"}) EXCEPT !.target = "parquet"],
     Seed}

Mart(cols) == [Model("full", cols) EXCEPT !.deps = {2}, !.refs = {2}]
Marts == {None, Mart({"id"}), [Mart({"mail"}) EXCEPT !.audits = {NotNull("mail")}],
          [Mart({"id"}) EXCEPT !.deps = {2, 3}]}

Declared == <<Sources, Peoples, Marts>>

\* A time-range model that gains a redacted column.
Widening ==
    <<{Files}, {[Model("incrementalByTimeRange", {"id", "at"}) EXCEPT !.bounds = TRUE],
                [Daily EXCEPT !.redact = {"mail"}]}>>

-----------------------------------------------------------------------------
(* And of the instances of Reports: a source, a table of intervals, a full *)
(* model and a mart that reads one of them or both.                        *)

\* One item of a select list.
Item(alias, refs) == [alias |-> alias, refs |-> refs]

Reported(kind, deps, cols, items) ==
    [kind |-> kind, deps |-> deps, cols |-> cols, items |-> items, star |-> FALSE,
     answerable |-> 0, caveats |-> {}]

Feed    == [Reported("external", {}, {"id", "at", "sum"}, {}) EXCEPT !.caveats = {"late"}]
Staged  == [Reported("incrementalByTimeRange", {1}, {"id", "at", "sum"}, {}) EXCEPT !.star = TRUE]
Sampled == [Staged EXCEPT !.answerable = 1, !.caveats = {"sampled", "no refunds"}]
Rates   == Reported("full", {2}, {"day", "rate"},
                    {Item("day", {<<2, "at">>}), Item("rate", {<<2, "sum">>, <<2, "id">>})})
Ledger2 == [Rates EXCEPT !.kind = "incrementalByTimeRange", !.answerable = 2]
Both    == Reported("incrementalByTimeRange", {2, 3}, {"id", "total"},
                    {Item("", {<<2, "id">>}), Item("total", {<<2, "sum">>, <<3, "rate">>})})
Direct  == Reported("incrementalByTimeRange", {2}, {"id"}, {Item("", {<<2, "id">>})})
Through == [Reported("incrementalByTimeRange", {3}, {"total"}, {Item("total", {<<3, "rate">>})})
              EXCEPT !.caveats = {"late"}]

Projects == {<<Feed, Staged, Rates, Both>>, <<Feed, Sampled, Rates, Both>>,
             <<Feed, Sampled, Ledger2, Both>>, <<Feed, Staged, None, Direct>>,
             <<Feed, Sampled, Rates, Through>>}
=============================================================================
