-------------------------- MODULE CompactionProofs --------------------------
(***************************************************************************)
(* Under the lease, and for a merged file that readers see, compaction     *)
(* loses nothing a writer appended: for any batches, keys, compactors and  *)
(* crashes.  A compactor's promise at each step is what makes this         *)
(* inductive: what it listed is still there until it has written a file    *)
(* with all of it, and what it removes is in the file it published.        *)
(* With where else a row may be meanwhile, it doubles nothing either.      *)
(***************************************************************************)
EXTENDS Compaction, TLAPS

\* The name of the merged file ends in ".parquet".
Seen == \A p \in Policies : p.parquet

\* At most one compactor is in between listing and removing.
Alone == \A c, d \in Compactor : pc[c] # "idle" /\ pc[d] # "idle" => c = d

\* What a compactor has promised when it stands here.
Promise(c) ==
    /\ pc[c] \in {"merging", "merged"} =>
        /\ snap[c] \subseteq Present
        /\ merged # Gone => Pub \in snap[c]
    /\ pc[c] = "merged" =>
        /\ tmp[c] \in Content
        /\ \A b \in Batch : Copies(snap[c], b) > 0 => Holds(tmp[c], b)
    /\ pc[c] = "removing" =>
        /\ merged \in Content
        /\ \A b \in left[c] : Holds(merged, b)

IInv == TypeOK /\ Alone /\ NothingLost /\ \A c \in Compactor : Promise(c)

-----------------------------------------------------------------------------
\* Same is an equivalence.
LEMMA SameTransitive ==
    \A a, b, c : Same(a, b) /\ Same(b, c) => Same(a, c)
BY DEF Same

\* How often a listed or a removed file has a row.
LEMMA CopiesPositive ==
    ASSUME TypeOK, NEW b \in Batch, NEW files, files \subseteq Present
    PROVE  Copies(files, b) > 0 <=> b \in files \/ (Pub \in files /\ merged[b] > 0)
  <1>1. CASE Pub \in files
    <2>1. merged \in Content /\ merged # Gone
      BY <1>1, CompactionAssumption DEF Present, TypeOK
    <2> QED
      BY <1>1, <2>1 DEF Copies, Content
  <1>2. CASE Pub \notin files
    BY <1>2 DEF Copies
  <1> QED
    BY <1>1, <1>2

\* Nothing is lost when each row's file is there or the merged file has it.
LEMMA LostOrThere ==
    ASSUME TypeOK, Seen
    PROVE  NothingLost <=> \A b \in landed : \/ \E a \in raw : Same(a, b)
                                             \/ merged # Gone /\ Holds(merged, b)
  <1>1. Listed = Present
    BY DEF Listed, Seen, TypeOK
  <1>2. \A a \in Batch : Copies(Listed, a) > 0 <=> a \in raw \/ (merged # Gone /\ merged[a] > 0)
    <2> TAKE a \in Batch
    <2>1. Copies(Listed, a) > 0 <=> a \in Present \/ (Pub \in Present /\ merged[a] > 0)
      BY <1>1, CopiesPositive
    <2> QED
      BY <2>1, CompactionAssumption DEF Present, TypeOK
  <1> QED
    BY <1>2 DEF NothingLost, Holds, TypeOK

\* The merge of files that are there has every row of theirs, or the one its
\* key kept.
LEMMA MergeCovers ==
    ASSUME TypeOK, NEW files, files \subseteq Present, NEW content \in MergeOf(files)
    PROVE  /\ content \in Content
           /\ \A b \in Batch : Copies(files, b) > 0 => Holds(content, b)
  <1>1. \A b \in Batch : Copies(files, b) \in Nat
    BY CompactionAssumption DEF TypeOK, Copies, Content, Present
  <1>2. CASE policy.keyed
    <2> DEFINE rows == {b \in Batch : Copies(files, b) > 0}
    <2>1. PICK s \in SUBSET rows :
            /\ \A b \in rows : \E a \in s : \A c \in s : KeyOf(c) = KeyOf(b) <=> c = a
            /\ content = [b \in Batch |-> IF b \in s THEN 1 ELSE 0]
      BY <1>2 DEF MergeOf
    <2>2. content \in Content
      BY <2>1 DEF Content
    <2>3. ASSUME NEW b \in Batch, Copies(files, b) > 0
          PROVE  Holds(content, b)
      <3>1. PICK a \in s : \A c \in s : KeyOf(c) = KeyOf(b) <=> c = a
        BY <2>1, <2>3
      <3>2. a \in Batch /\ content[a] > 0 /\ KeyOf(a) = KeyOf(b)
        BY <2>1, <3>1
      <3> QED
        BY <1>2, <3>2 DEF Holds, Same
    <2> QED
      BY <2>2, <2>3
  <1>3. CASE ~policy.keyed
    <2>1. content = [b \in Batch |-> Copies(files, b)]
      BY <1>3 DEF MergeOf
    <2> QED
      BY <1>1, <2>1 DEF Content, Holds, Same
  <1> QED
    BY <1>2, <1>3

-----------------------------------------------------------------------------
LEMMA Initially ==
    ASSUME Init
    PROVE  IInv
BY CompactionAssumption DEF Init, IInv, TypeOK, Alone, NothingLost, Promise

LEMMA Typed ==
    ASSUME TypeOK, [Next]_vars, \A c \in Compactor : Promise(c)
    PROVE  TypeOK'
  <1>1. ASSUME NEW b \in Batch, Land(b)
        PROVE  TypeOK'
    BY <1>1 DEF TypeOK, Land
  <1>2. CASE DayPasses \/ GracePasses
    BY <1>2 DEF TypeOK, DayPasses, GracePasses
  <1>3. ASSUME NEW c \in Compactor, Begin(c)
        PROVE  TypeOK'
    <2>1. Listed \subseteq Batch \cup {Pub}
      BY DEF Listed, Present, TypeOK
    <2> QED
      BY <1>3, <2>1 DEF TypeOK, Begin
  <1>4. ASSUME NEW c \in Compactor, Copy(c)
        PROVE  TypeOK'
    <2>1. PICK content \in MergeOf(snap[c]) : tmp' = [tmp EXCEPT ![c] = content]
      BY <1>4 DEF Copy
    <2>2. content \in Content
      BY <1>4, MergeCovers DEF Copy
    <2> QED
      BY <1>4, <2>1, <2>2 DEF TypeOK, Copy
  <1>5. ASSUME NEW c \in Compactor, CopyFails(c)
        PROVE  TypeOK'
    BY <1>5 DEF TypeOK, CopyFails
  <1>6. ASSUME NEW c \in Compactor, Publish(c)
        PROVE  TypeOK'
    BY <1>6 DEF TypeOK, Publish, Promise
  <1>7. ASSUME NEW c \in Compactor, Remove(c)
        PROVE  TypeOK'
    <2>1. PICK f \in left[c] : /\ raw' = raw \ {f}
                               /\ merged' = IF f = Pub THEN Gone ELSE merged
                               /\ left' = [left EXCEPT ![c] = left[c] \ {f}]
      BY <1>7 DEF Remove
    <2>2. left' \in [Compactor -> SUBSET Batch] /\ raw' \subseteq Batch
      BY <2>1 DEF TypeOK
    <2> QED
      BY <1>7, <2>1, <2>2 DEF TypeOK, Remove
  <1>8. ASSUME NEW c \in Compactor, Finish(c) \/ Crash(c)
        PROVE  TypeOK'
    BY <1>8 DEF TypeOK, Finish, Crash
  <1>9. CASE UNCHANGED vars
    BY <1>9 DEF TypeOK, vars
  <1> QED
    BY <1>1, <1>2, <1>3, <1>4, <1>5, <1>6, <1>7, <1>8, <1>9 DEF Next

LEMMA StillAlone ==
    ASSUME TypeOK, Alone, Lease, [Next]_vars
    PROVE  Alone'
BY DEF TypeOK, Alone, Next, vars, Busy, Land, DayPasses, GracePasses, Begin, Copy,
       CopyFails, Publish, Remove, Finish, Crash

\* While the published file stays and no batch goes, a compactor that does not
\* move keeps its promise.
LEMMA PromiseKept ==
    ASSUME TypeOK, NEW c \in Compactor, Promise(c), policy' = policy,
           merged' = merged, raw \subseteq raw', pc'[c] = pc[c],
           snap'[c] = snap[c], tmp'[c] = tmp[c], left'[c] = left[c]
    PROVE  Promise(c)'
  <1>1. \A files, b : Copies(files, b)' = Copies(files, b)
    BY DEF Copies
  <1>2. \A content, b : Holds(content, b) => Holds(content, b)'
    BY DEF Holds, Same
  <1>3. Present \subseteq Present'
    BY DEF Present
  <1> QED
    BY <1>1, <1>2, <1>3 DEF Promise

\* So does one that is not at work.
LEMMA PromiseIdle ==
    ASSUME NEW c \in Compactor, pc'[c] = "idle"
    PROVE  Promise(c)'
BY DEF Promise

\* Nothing is lost while the published file stays and no batch goes.
LEMMA LostKept ==
    ASSUME TypeOK, TypeOK', Seen, NothingLost, policy' = policy, merged' = merged,
           raw \subseteq raw', \A b \in landed' : b \in landed \/ b \in raw'
    PROVE  NothingLost'
  <1>1. \A b \in landed : \/ \E a \in raw : Same(a, b)
                          \/ merged # Gone /\ Holds(merged, b)
    BY LostOrThere
  <1>2. Seen'
    BY DEF Seen
  <1>3. \A b \in landed' : \/ \E a \in raw' : Same(a, b)'
                           \/ merged' # Gone /\ Holds(merged, b)'
    BY <1>1 DEF Holds, Same
  <1>4. (NothingLost <=> \A b \in landed : \/ \E a \in raw : Same(a, b)
                                           \/ merged # Gone /\ Holds(merged, b))'
    BY <1>2, LostOrThere, PTL
  <1> QED
    BY <1>3, <1>4

-----------------------------------------------------------------------------
\* Publishing keeps every row: all that was listed is in what was written,
\* and the file it replaces was listed.
LEMMA PublishKeeps ==
    ASSUME IInv, Alone', TypeOK', Seen, NEW c \in Compactor, Publish(c)
    PROVE  IInv'
  <1>1. merged' = tmp[c] /\ merged' \in Content /\ merged' # Gone
    BY CompactionAssumption DEF IInv, Promise, Publish, Content
  <1>2. \A b \in Batch : b \in snap[c] \/ (merged # Gone /\ merged[b] > 0)
                            => Holds(tmp[c], b)
    <2> TAKE b \in Batch
    <2>1. snap[c] \subseteq Present /\ (merged # Gone => Pub \in snap[c])
      BY DEF IInv, Promise, Publish
    <2>2. Copies(snap[c], b) > 0 => Holds(tmp[c], b)
      BY DEF IInv, Promise, Publish
    <2> QED
      BY <2>1, <2>2, CopiesPositive DEF IInv
  <1>3. \A b \in Batch : Holds(merged, b)' <=> Holds(tmp[c], b)
    BY <1>1 DEF Holds, Same, Publish
  <1>4. NothingLost'
    <2>1. \A b \in landed : \/ \E a \in raw : Same(a, b)
                            \/ merged # Gone /\ Holds(merged, b)
      BY LostOrThere DEF IInv
    <2>2. \A b \in landed : (\E a \in raw : Same(a, b)) \/ Holds(tmp[c], b)
      <3> SUFFICES ASSUME NEW b \in landed, merged # Gone, Holds(merged, b)
                   PROVE  Holds(tmp[c], b)
        BY <2>1
      <3>1. PICK a \in Batch : Same(a, b) /\ merged[a] > 0
        BY DEF Holds
      <3>2. PICK x \in Batch : Same(x, a) /\ tmp[c][x] > 0
        BY <1>2, <3>1 DEF Holds
      <3> QED
        BY <3>1, <3>2, SameTransitive DEF Holds
    <2>3. \A b \in landed' : \/ \E a \in raw' : Same(a, b)'
                             \/ merged' # Gone /\ Holds(merged, b)'
      BY <1>1, <1>3, <2>2 DEF Publish, Same, IInv, TypeOK
    <2>4. Seen'
      BY DEF Seen
    <2>5. (NothingLost <=> \A b \in landed : \/ \E a \in raw : Same(a, b)
                                             \/ merged # Gone /\ Holds(merged, b))'
      BY <2>4, LostOrThere, PTL
    <2> QED
      BY <2>3, <2>5
  <1>5. ASSUME NEW d \in Compactor
        PROVE  Promise(d)'
    <2>1. CASE d = c
      <3>1. pc'[c] = "removing" /\ left'[c] = snap[c] \ {Pub}
        BY DEF Publish, IInv, TypeOK
      <3>2. \A b \in left'[c] : b \in Batch /\ b \in snap[c]
        BY <3>1 DEF IInv, TypeOK
      <3>3. \A b \in left'[c] : Holds(merged, b)'
        BY <3>2, <1>2, <1>3
      <3> QED
        BY <2>1, <3>1, <3>3, <1>1 DEF Promise
    <2>2. CASE d # c
      BY <2>2, PromiseIdle DEF IInv, TypeOK, Alone, Publish
    <2> QED
      BY <2>1, <2>2
  <1> QED
    BY <1>4, <1>5 DEF IInv

\* Removing a file loses nothing: the published file has its row.
LEMMA RemoveKeeps ==
    ASSUME IInv, Alone', TypeOK', Seen, NEW c \in Compactor, Remove(c)
    PROVE  IInv'
  <1>1. PICK f \in left[c] : /\ raw' = raw \ {f}
                             /\ merged' = IF f = Pub THEN Gone ELSE merged
                             /\ left' = [left EXCEPT ![c] = left[c] \ {f}]
    BY DEF Remove
  <1>2. f \in Batch /\ merged' = merged /\ merged \in Content /\ merged # Gone
    BY <1>1, CompactionAssumption DEF IInv, TypeOK, Promise, Remove, Content
  <1>3. \A b \in left[c] : Holds(merged, b)
    BY DEF IInv, Promise, Remove
  <1>4. NothingLost'
    <2>1. \A b \in landed : (\E a \in raw : Same(a, b)) \/ Holds(merged, b)
      BY LostOrThere DEF IInv
    <2>2. \A b \in landed : (\E a \in raw' : Same(a, b)) \/ Holds(merged, b)
      <3> SUFFICES ASSUME NEW b \in landed, NEW a \in raw, Same(a, b), a = f
                   PROVE  Holds(merged, b)
        BY <1>1, <2>1
      <3>1. PICK x \in Batch : Same(x, f) /\ merged[x] > 0
        BY <1>1, <1>3 DEF Holds
      <3> QED
        BY <3>1, SameTransitive DEF Holds
    <2>3. \A b \in landed' : \/ \E a \in raw' : Same(a, b)'
                             \/ merged' # Gone /\ Holds(merged, b)'
      BY <1>2, <2>2 DEF Remove, Same, Holds
    <2>4. Seen'
      BY DEF Seen
    <2>5. (NothingLost <=> \A b \in landed : \/ \E a \in raw : Same(a, b)
                                             \/ merged # Gone /\ Holds(merged, b))'
      BY <2>4, LostOrThere, PTL
    <2> QED
      BY <2>3, <2>5
  <1>5. ASSUME NEW d \in Compactor
        PROVE  Promise(d)'
    <2>1. CASE d = c
      <3>1. \A b \in left'[c] : Holds(merged, b)'
        BY <1>1, <1>2, <1>3 DEF Holds, Same, Remove, IInv, TypeOK
      <3> QED
        BY <2>1, <3>1, <1>2 DEF Promise, Remove, IInv, TypeOK
    <2>2. CASE d # c
      BY <2>2, PromiseIdle DEF IInv, TypeOK, Alone, Remove
    <2> QED
      BY <2>1, <2>2
  <1> QED
    BY <1>4, <1>5 DEF IInv

\* Each step keeps the invariant.
LEMMA Inductive ==
    ASSUME IInv, Seen, Lease, [Next]_vars
    PROVE  IInv'
  <1>1. TypeOK' /\ Alone'
    BY Typed, StillAlone DEF IInv
  <1>2. ASSUME NEW b \in Batch, Land(b)
        PROVE  IInv'
    <2>1. NothingLost'
      BY <1>1, <1>2, LostKept DEF Land, IInv
    <2>2. \A c \in Compactor : Promise(c)'
      BY <1>2, PromiseKept DEF Land, IInv
    <2> QED
      BY <1>1, <2>1, <2>2 DEF IInv
  <1>3. CASE DayPasses \/ GracePasses \/ UNCHANGED vars
    <2>1. NothingLost'
      BY <1>1, <1>3, LostKept DEF DayPasses, GracePasses, vars, IInv
    <2>2. \A c \in Compactor : Promise(c)'
      BY <1>3, PromiseKept DEF DayPasses, GracePasses, vars, IInv
    <2> QED
      BY <1>1, <2>1, <2>2 DEF IInv
  <1>4. ASSUME NEW c \in Compactor, Begin(c)
        PROVE  IInv'
    <2>1. NothingLost'
      BY <1>1, <1>4, LostKept DEF Begin, IInv
    <2>2. Promise(c)'
      BY <1>4 DEF Promise, Begin, IInv, TypeOK, Seen, Listed, Present
    <2>3. ASSUME NEW d \in Compactor, d # c
          PROVE  Promise(d)'
      BY <2>3, <1>4, PromiseKept DEF Begin, IInv, TypeOK
    <2> QED
      BY <1>1, <2>1, <2>2, <2>3 DEF IInv
  <1>5. ASSUME NEW c \in Compactor, Copy(c)
        PROVE  IInv'
    <2>1. NothingLost'
      BY <1>1, <1>5, LostKept DEF Copy, IInv
    <2>2. PICK content \in MergeOf(snap[c]) : tmp' = [tmp EXCEPT ![c] = content]
      BY <1>5 DEF Copy
    <2>3. content \in Content /\ \A b \in Batch : Copies(snap[c], b) > 0 => Holds(content, b)
      BY <1>5, MergeCovers DEF Copy, IInv
    <2>4. Promise(c)'
      <3>1. tmp'[c] = content /\ pc'[c] = "merged" /\ snap' = snap
        BY <1>5, <2>2 DEF Copy, IInv, TypeOK
      <3>2. \A b \in Batch : Copies(snap[c], b)' > 0 => Holds(tmp[c], b)'
        BY <1>5, <2>3, <3>1 DEF Copy, Copies, Holds, Same
      <3> QED
        BY <1>5, <2>3, <3>1, <3>2 DEF Copy, Promise, IInv, Present
    <2>5. ASSUME NEW d \in Compactor, d # c
          PROVE  Promise(d)'
      BY <2>5, <1>5, PromiseKept DEF Copy, IInv, TypeOK
    <2> QED
      BY <1>1, <2>1, <2>4, <2>5 DEF IInv
  <1>6. ASSUME NEW c \in Compactor, CopyFails(c) \/ Finish(c) \/ Crash(c)
        PROVE  IInv'
    <2>1. NothingLost'
      BY <1>1, <1>6, LostKept DEF CopyFails, Finish, Crash, IInv
    <2>2. Promise(c)'
      BY <1>6, PromiseIdle DEF CopyFails, Finish, Crash, IInv, TypeOK
    <2>3. ASSUME NEW d \in Compactor, d # c
          PROVE  Promise(d)'
      BY <2>3, <1>6, PromiseKept DEF CopyFails, Finish, Crash, IInv, TypeOK
    <2> QED
      BY <1>1, <2>1, <2>2, <2>3 DEF IInv
  <1>7. ASSUME NEW c \in Compactor, Publish(c)
        PROVE  IInv'
    BY <1>1, <1>7, PublishKeeps
  <1>8. ASSUME NEW c \in Compactor, Remove(c)
        PROVE  IInv'
    BY <1>1, <1>8, RemoveKeeps
  <1> QED
    BY <1>2, <1>3, <1>4, <1>5, <1>6, <1>7, <1>8 DEF Next

\* Compaction under the lease loses nothing that was appended, whatever is
\* merged, however late a batch lands and wherever a compactor is killed.
THEOREM LosesNothing ==
    ASSUME Seen, Lease
    PROVE  Spec => []NothingLost
  <1>1. Init => IInv
    BY Initially
  <1>2. IInv /\ [Next]_vars => IInv'
    BY Inductive
  <1>3. IInv => NothingLost
    BY DEF IInv
  <1> QED
    BY <1>1, <1>2, <1>3, PTL DEF Spec
-----------------------------------------------------------------------------
(***************************************************************************)
(* Reading once needs more: what was written has each row once, and while  *)
(* nobody was killed a row is in its own file and in the merged one only   *)
(* between publishing and removing, for the files still to be removed.     *)
(***************************************************************************)

\* A content has each row at most once, and one row of each key.
Once(content) ==
    \A a, b \in Batch : content[a] > 0 /\ content[b] > 0 /\ Same(a, b)
                           => a = b /\ content[a] = 1

\* What is published, and what is about to be, has each row once.
Written ==
    policy.keyed \/ crashes = 0 =>
        /\ merged # Gone => Once(merged)
        /\ \A c \in Compactor : pc[c] = "merged" => Once(tmp[c])

\* A merge of all rows is of rows that landed, and a row both in its file and
\* in the merged one is of a file that a compactor has yet to remove.
Apart ==
    ~policy.keyed /\ crashes = 0 =>
        /\ raw \subseteq landed
        /\ merged # Gone => \A b \in Batch : merged[b] > 0 => b \in landed
        /\ merged # Gone => \A b \in raw : merged[b] > 0 =>
               \E c \in Compactor : pc[c] = "removing" /\ b \in left[c]
        /\ \A c \in Compactor : pc[c] = "merged" =>
               \A b \in Batch : tmp[c][b] > 0 => Copies(snap[c], b) > 0

OInv == IInv /\ Written /\ Apart

\* A merge by key has one row of each key; a merge of all rows has each row
\* once when the files have.
LEMMA MergeOnce ==
    ASSUME TypeOK, NEW files, NEW content \in MergeOf(files),
           policy.keyed \/ \A b \in Batch : Copies(files, b) <= 1,
           \A b \in Batch : Copies(files, b) \in Nat
    PROVE  /\ Once(content)
           /\ ~policy.keyed => content = [b \in Batch |-> Copies(files, b)]
  <1>1. CASE policy.keyed
    <2> DEFINE rows == {b \in Batch : Copies(files, b) > 0}
    <2>1. PICK s \in SUBSET rows :
            /\ \A b \in rows : \E a \in s : \A c \in s : KeyOf(c) = KeyOf(b) <=> c = a
            /\ content = [b \in Batch |-> IF b \in s THEN 1 ELSE 0]
      BY <1>1 DEF MergeOf
    <2>2. ASSUME NEW a \in Batch, NEW b \in Batch,
                 content[a] > 0, content[b] > 0, Same(a, b)
          PROVE  a = b /\ content[a] = 1
      <3>1. a \in s /\ b \in s /\ content[a] = 1 /\ KeyOf(a) = KeyOf(b)
        BY <2>1, <2>2 DEF Same
      <3>2. PICK x \in s : \A c \in s : KeyOf(c) = KeyOf(a) <=> c = x
        BY <2>1, <3>1
      <3> QED
        BY <3>1, <3>2
    <2> QED
      BY <1>1, <2>2 DEF Once
  <1>2. CASE ~policy.keyed
    <2>1. content = [b \in Batch |-> Copies(files, b)]
      BY <1>2 DEF MergeOf
    <2>2. ASSUME NEW a \in Batch, NEW b \in Batch, content[a] > 0, Same(a, b)
          PROVE  a = b /\ content[a] = 1
      <3>1. a = b
        BY <1>2, <2>2 DEF Same
      <3>2. content[a] = Copies(files, a) /\ Copies(files, a) <= 1
        BY <1>2, <2>1
      <3>3. content[a] \in Nat
        BY <3>2
      <3> QED
        BY <2>2, <3>1, <3>2, <3>3
    <2> QED
      BY <2>1, <2>2 DEF Once
  <1> QED
    BY <1>1, <1>2

\* How often files that are there have a row, when a row is in its own file
\* and in the merged one only for what a compactor has yet to remove: once,
\* as long as nobody removes.
LEMMA CopiesOnce ==
    ASSUME TypeOK, Written, Apart, ~policy.keyed, crashes = 0,
           \A c \in Compactor : pc[c] # "removing",
           NEW files, files \subseteq Present, NEW b \in Batch
    PROVE  Copies(files, b) <= 1 /\ Copies(files, b) \in Nat
  <1>1. CASE Pub \in files
    <2>1. merged \in Content /\ merged # Gone
      BY <1>1, CompactionAssumption DEF Present, TypeOK
    <2>2. merged[b] \in Nat
      BY <2>1 DEF Content
    <2>3. merged[b] > 0 => merged[b] = 1
      BY <2>1 DEF Written, Once, Same
    <2>4. b \in files => b \in raw
      BY CompactionAssumption DEF Present
    <2>5. b \in files => ~ (merged[b] > 0)
      BY <2>1, <2>4 DEF Apart
    <2>6. Copies(files, b) = (IF b \in files THEN 1 ELSE 0) + merged[b]
      BY <1>1, <2>1 DEF Copies
    <2> QED
      BY <2>2, <2>3, <2>5, <2>6
  <1>2. CASE Pub \notin files
    BY <1>2 DEF Copies
  <1> QED
    BY <1>1, <1>2

LEMMA OnceInitially ==
    ASSUME Init
    PROVE  Written /\ Apart
BY DEF Init, Written, Apart

\* What is written stays written once: only a merge adds a content, and
\* publishing moves it.
LEMMA WrittenKept ==
    ASSUME OInv, IInv', [Next]_vars
    PROVE  Written'
  <1>1. policy' = policy /\ (crashes' = 0 => crashes = 0)
    BY DEF Next, vars, Land, DayPasses, GracePasses, Begin, Copy, CopyFails, Publish,
           Remove, Finish, Crash, OInv, IInv, TypeOK
  <1>2. \A content : Once(content)' <=> Once(content)
    BY <1>1 DEF Once, Same
  <1>3. SUFFICES ASSUME policy.keyed \/ crashes = 0
                 PROVE  /\ merged' # Gone => Once(merged')
                        /\ \A c \in Compactor : pc'[c] = "merged" => Once(tmp'[c])
    BY <1>1, <1>2 DEF Written
  <1>4. /\ merged # Gone => Once(merged)
        /\ \A c \in Compactor : pc[c] = "merged" => Once(tmp[c])
    BY <1>3 DEF OInv, Written
  <1>5. CASE DayPasses \/ GracePasses \/ UNCHANGED vars \/ \E b \in Batch : Land(b)
    BY <1>4, <1>5 DEF DayPasses, GracePasses, vars, Land
  <1>6. ASSUME NEW c \in Compactor, Copy(c)
        PROVE  /\ merged' # Gone => Once(merged')
               /\ \A d \in Compactor : pc'[d] = "merged" => Once(tmp'[d])
    <2>1. PICK content \in MergeOf(snap[c]) : tmp' = [tmp EXCEPT ![c] = content]
      BY <1>6 DEF Copy
    <2>2. /\ snap[c] \subseteq Present /\ pc[c] = "merging" /\ merged' = merged
          /\ pc' = [pc EXCEPT ![c] = "merged"]
      BY <1>6 DEF Copy
    <2>3. \A d \in Compactor : pc[d] # "removing"
      BY <2>2 DEF OInv, IInv, Alone
    <2>4. policy.keyed \/ \A b \in Batch : Copies(snap[c], b) <= 1
      BY <1>3, <2>2, <2>3, CopiesOnce DEF OInv, IInv
    <2>5. \A b \in Batch : Copies(snap[c], b) \in Nat
      BY CompactionAssumption DEF OInv, IInv, TypeOK, Copies, Content
    <2>6. Once(content)
      BY <2>1, <2>4, <2>5, MergeOnce DEF OInv, IInv
    <2> QED
      BY <1>4, <2>1, <2>2, <2>6 DEF OInv, IInv, TypeOK
  <1>7. ASSUME NEW c \in Compactor, Publish(c)
        PROVE  /\ merged' # Gone => Once(merged')
               /\ \A d \in Compactor : pc'[d] = "merged" => Once(tmp'[d])
    <2>1. pc[c] = "merged" /\ merged' = tmp[c] /\ pc' = [pc EXCEPT ![c] = "removing"]
      BY <1>7 DEF Publish
    <2>2. tmp' = [tmp EXCEPT ![c] = Gone]
      BY <1>7 DEF Publish
    <2> QED
      BY <1>4, <2>1, <2>2 DEF OInv, IInv, TypeOK
  <1>8. ASSUME NEW c \in Compactor,
               Begin(c) \/ CopyFails(c) \/ Finish(c) \/ Crash(c)
        PROVE  /\ merged' # Gone => Once(merged')
               /\ \A d \in Compactor : pc'[d] = "merged" => Once(tmp'[d])
    BY <1>4, <1>8 DEF Begin, CopyFails, Finish, Crash, OInv, IInv, TypeOK
  <1>9. ASSUME NEW c \in Compactor, Remove(c)
        PROVE  /\ merged' # Gone => Once(merged')
               /\ \A d \in Compactor : pc'[d] = "merged" => Once(tmp'[d])
    BY <1>4, <1>9 DEF Remove
  <1> QED
    BY <1>5, <1>6, <1>7, <1>8, <1>9 DEF Next

\* The two places of a row stay apart but for what is being removed: a batch
\* lands once, and a merged file replaces the one that was listed.
LEMMA ApartKept ==
    ASSUME OInv, IInv', [Next]_vars
    PROVE  Apart'
  <1>1. policy' = policy /\ (crashes' = 0 => crashes = 0)
    BY DEF Next, vars, Land, DayPasses, GracePasses, Begin, Copy, CopyFails, Publish,
           Remove, Finish, Crash, OInv, IInv, TypeOK
  <1> SUFFICES ASSUME ~policy.keyed, crashes' = 0, crashes = 0
               PROVE  Apart'
    BY <1>1 DEF Apart
  <1>2. /\ raw \subseteq landed
        /\ merged # Gone => \A b \in Batch : merged[b] > 0 => b \in landed
        /\ merged # Gone => \A b \in raw : merged[b] > 0 =>
               \E c \in Compactor : pc[c] = "removing" /\ b \in left[c]
        /\ \A c \in Compactor : pc[c] = "merged" =>
               \A b \in Batch : tmp[c][b] > 0 => Copies(snap[c], b) > 0
    BY DEF OInv, Apart
  <1>3. CASE DayPasses \/ GracePasses \/ UNCHANGED vars
    BY <1>2, <1>3 DEF DayPasses, GracePasses, vars, Apart, Copies
  <1>4. ASSUME NEW b \in Batch, Land(b)
        PROVE  Apart'
    <2>1. merged # Gone => ~ (merged[b] > 0)
      BY <1>2, <1>4 DEF Land
    <2> QED
      BY <1>2, <1>4, <2>1 DEF Land, Apart, Copies
  <1>5. ASSUME NEW c \in Compactor, Begin(c)
        PROVE  Apart'
    <2>1. \A d \in Compactor : pc'[d] = "merged" => d # c /\ pc[d] = "merged" /\ snap'[d] = snap[d]
      BY <1>5 DEF Begin, OInv, IInv, TypeOK
    <2>2. \A d \in Compactor : pc[d] = "removing" => pc'[d] = "removing"
      BY <1>5 DEF Begin, OInv, IInv, TypeOK
    <2> QED
      BY <1>2, <1>5, <2>1, <2>2 DEF Begin, Apart, Copies
  <1>6. ASSUME NEW c \in Compactor, Copy(c)
        PROVE  Apart'
    <2>1. PICK content \in MergeOf(snap[c]) : tmp' = [tmp EXCEPT ![c] = content]
      BY <1>6 DEF Copy
    <2>2. content = [b \in Batch |-> Copies(snap[c], b)]
      BY <2>1 DEF MergeOf
    <2>3. \A d \in Compactor : pc'[d] = "merged" =>
              (d = c /\ tmp'[d] = content) \/ (pc[d] = "merged" /\ tmp'[d] = tmp[d])
      BY <1>6, <2>1 DEF Copy, OInv, IInv, TypeOK
    <2>4. \A d \in Compactor : pc[d] = "removing" => pc'[d] = "removing"
      BY <1>6 DEF Copy, OInv, IInv, TypeOK
    <2>5. \A d \in Compactor : pc'[d] = "merged" =>
              \A b \in Batch : tmp'[d][b] > 0 => Copies(snap[d], b) > 0
      BY <1>2, <2>2, <2>3
    <2> QED
      BY <1>2, <1>6, <2>4, <2>5 DEF Copy, Apart, Copies
  <1>7. ASSUME NEW c \in Compactor, CopyFails(c) \/ Finish(c)
        PROVE  Apart'
    <2>1. \A d \in Compactor : pc'[d] = "merged" =>
              pc[d] = "merged" /\ snap'[d] = snap[d] /\ tmp'[d] = tmp[d]
      BY <1>7 DEF CopyFails, Finish, OInv, IInv, TypeOK
    <2>2. \A d \in Compactor : pc[d] = "removing" => pc'[d] = "removing" \/ left[d] = {}
      BY <1>7 DEF CopyFails, Finish, OInv, IInv, TypeOK
    <2>3. raw' = raw /\ merged' = merged /\ landed' = landed /\ left' = left
      BY <1>7 DEF CopyFails, Finish
    <2> QED
      BY <1>2, <2>1, <2>2, <2>3 DEF Apart, Copies
  <1>8. ASSUME NEW c \in Compactor, Publish(c)
        PROVE  Apart'
    <2>1. /\ pc[c] = "merged" /\ merged' = tmp[c] /\ raw' = raw /\ landed' = landed
          /\ pc'[c] = "removing" /\ left'[c] = snap[c] \ {Pub}
          /\ snap[c] \subseteq Present
      BY <1>8 DEF Publish, OInv, IInv, TypeOK, Promise
    <2>2. \A d \in Compactor : pc'[d] # "merged"
      BY <1>8 DEF Publish, OInv, IInv, TypeOK, Alone
    <2>3. ASSUME NEW b \in Batch, tmp[c][b] > 0
          PROVE  b \in snap[c] \/ (merged # Gone /\ merged[b] > 0)
      <3>1. Copies(snap[c], b) > 0
        BY <1>2, <2>1, <2>3
      <3>2. b \in snap[c] \/ (Pub \in snap[c] /\ merged[b] > 0)
        BY <2>1, <3>1, CopiesPositive DEF OInv, IInv
      <3> QED
        BY <2>1, <3>2, CompactionAssumption DEF Present, OInv, IInv, TypeOK
    <2>4. \A b \in Batch : tmp[c][b] > 0 => b \in landed
      BY <1>2, <2>1, <2>3, CompactionAssumption DEF Present
    <2>5. ASSUME NEW b \in raw, tmp[c][b] > 0
          PROVE  b \in left'[c]
      <3>1. b \in Batch /\ b # Pub
        BY CompactionAssumption DEF OInv, IInv, TypeOK
      <3>2. ~ (merged # Gone /\ merged[b] > 0)
        BY <1>2, <2>1 DEF OInv, IInv, Alone
      <3> QED
        BY <2>1, <2>3, <2>5, <3>1, <3>2
    <2> QED
      BY <1>2, <2>1, <2>2, <2>4, <2>5 DEF Apart
  <1>9. ASSUME NEW c \in Compactor, Remove(c)
        PROVE  Apart'
    <2>1. PICK f \in left[c] : /\ raw' = raw \ {f}
                               /\ merged' = IF f = Pub THEN Gone ELSE merged
                               /\ left' = [left EXCEPT ![c] = left[c] \ {f}]
      BY <1>9 DEF Remove
    <2>2. merged' = merged
      BY <2>1, CompactionAssumption DEF OInv, IInv, TypeOK
    <2>3. \A d \in Compactor : \A b \in left[d] : b # f => b \in left'[d]
      BY <2>1 DEF OInv, IInv, TypeOK
    <2> QED
      BY <1>2, <1>9, <2>1, <2>2, <2>3 DEF Remove, Apart, Copies
  <1>10. ASSUME NEW c \in Compactor, Crash(c)
         PROVE  Apart'
    BY <1>10 DEF Crash, OInv, IInv, TypeOK
  <1> QED
    BY <1>3, <1>4, <1>5, <1>6, <1>7, <1>8, <1>9, <1>10 DEF Next

\* The invariant says that what is appended once is read once.
LEMMA OnceRead ==
    ASSUME OInv, Seen
    PROVE  ReadOnce
  <1>1. MergedOnce
    BY DEF OInv, Written, Once, MergedOnce
  <1>2. OnceAtRest
    <2> SUFFICES ASSUME ~policy.keyed, crashes = 0,
                        \A c \in Compactor : pc[c] # "removing", NEW b \in landed
                 PROVE  Copies(Listed, b) = 1
      BY DEF OnceAtRest
    <2>1. b \in Batch /\ Listed \subseteq Present
      BY DEF OInv, IInv, TypeOK, Listed
    <2>2. Copies(Listed, b) <= 1 /\ Copies(Listed, b) \in Nat
      BY <2>1, CopiesOnce DEF OInv, IInv
    <2>3. Copies(Listed, b) > 0
      BY DEF OInv, IInv, NothingLost, Same
    <2> QED
      BY <2>2, <2>3
  <1> QED
    BY <1>1, <1>2 DEF ReadOnce

\* Under the lease a reader finds each row of an exactly-once writer exactly
\* once whenever nobody is removing files and nobody was ever killed, and a
\* merged file has each row, and one row of each key, once: for any batches,
\* keys and compactors.
THEOREM ReadsOnce ==
    ASSUME Seen, Lease
    PROVE  Spec => []ReadOnce
  <1>1. Init => OInv
    BY Initially, OnceInitially DEF OInv
  <1>2. OInv /\ [Next]_vars => OInv'
    BY Inductive, WrittenKept, ApartKept DEF OInv
  <1>3. OInv => ReadOnce
    BY OnceRead
  <1> QED
    BY <1>1, <1>2, <1>3, PTL DEF Spec
=============================================================================
