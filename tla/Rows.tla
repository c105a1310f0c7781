-------------------------------- MODULE Rows --------------------------------
(***************************************************************************)
(* What the checks of efmesh say of a relation: the audits of              *)
(* core/audit.ts and the data diff of plan/diff.ts.  A relation is a bag   *)
(* of rows; a row has a key, a number or Null, and other columns.          *)
(***************************************************************************)
EXTENDS Integers, FiniteSets, Bags, FiniteSetsExt

CONSTANT Null  \* what SQL has in a column without a value: no number

Keys(rows) == {r.key : r \in BagToSet(rows)}

\* How often a row is in a relation.
Copies(r, rows) == IF r \in DOMAIN rows THEN rows[r] ELSE 0

-----------------------------------------------------------------------------
(* audit.ts: the rows an audit's query returns are its violations          *)

NotNull(rows) == {r \in BagToSet(rows) : r.key = Null}

\* (Equal rows counted as one.)
UniqueDistinct(rows) ==
    {k \in Keys(rows) : Cardinality({r \in BagToSet(rows) : r.key = k}) > 1}

\* GROUP BY key HAVING count(*) > 1, where all the nulls are one group.
Unique(rows) ==
    {k \in Keys(rows) :
        MapThenSumSet(LAMBDA r : Copies(r, rows),
                      {r \in BagToSet(rows) : r.key = k}) > 1}

\* Every value and the one lag() puts before it, where they are not neighbours.
Contiguous(rows) ==
    LET values == Keys(rows) \ {Null}
    IN {g \in values \X values :
            /\ g[1] + 1 < g[2]
            /\ \A w \in values : ~(g[1] < w /\ w < g[2])}

\* assertNoGaps: the same of the buckets the values fall in.
NoGaps(rows, step) ==
    Contiguous(SetToBag({[key |-> r.key \div step] : r \in {s \in BagToSet(rows) : s.key # Null}}))

-----------------------------------------------------------------------------
(* dataDiffEnvironments                                                    *)

\* The rows the sample keeps: the bucket of a row is that of its key.
Sample(rows, buckets) == [r \in {s \in BagToSet(rows) : s.key \in buckets} |-> rows[r]]

\* FULL OUTER JOIN ... USING (key): a null matches nothing.
Matching(r, rows) == {s \in BagToSet(rows) : r.key # Null /\ s.key = r.key}

Alone(a, b) ==
    MapThenSumSet(LAMBDA r : Copies(r, a), {r \in BagToSet(a) : Matching(r, b) = {}})

Pairs(a, b) == {p \in BagToSet(a) \X BagToSet(b) : p[2] \in Matching(p[1], b)}

CountPairs(a, b, pairs) ==
    MapThenSumSet(LAMBDA p : Copies(p[1], a) * Copies(p[2], b), pairs)

\* The report on one model with a key, and columns to compare.
DataDiff(a, b, buckets, columns) ==
    LET sa == Sample(a, buckets)
        sb == Sample(b, buckets)
    IN [rowsA   |-> BagCardinality(a),
        rowsB   |-> BagCardinality(b),
        onlyInA |-> Alone(sa, sb),
        onlyInB |-> Alone(sb, sa),
        matched |-> CountPairs(sa, sb, Pairs(sa, sb)),
        drift   |-> [c \in columns |->
                       CountPairs(sa, sb, {p \in Pairs(sa, sb) : p[1][c] # p[2][c]})]]
=============================================================================
