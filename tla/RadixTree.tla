------------------------------ MODULE RadixTree ------------------------------
(***************************************************************************)
(* The radix tree of kvcache/radix_cache.py as a value.                    *)
(*                                                                         *)
(* A key is a sequence of blocks; one block stands for the page_size       *)
(* tokens of one KV page, so every length here is a number of pages        *)
(* (set_key_value, align_down and match_len keep every length in the code  *)
(* a multiple of page_size).  A node is named by the whole key from the    *)
(* root to its end.  split_at keeps the lower part of a node as the same   *)
(* object and gives the upper part to a new one, so this name never        *)
(* changes while the node lives and a handle is the name of its node       *)
(* (<<>> is the root).                                                     *)
(*                                                                         *)
(* A tree is a record:                                                     *)
(*   ref   the ref_count of each node                                      *)
(*   ts    the timestamp of each node, as its rank among the timestamps    *)
(*         in the tree: the code only ever compares timestamps             *)
(*   span  for each cached key prefix, the node whose _key ends it         *)
(*   page  for each cached key prefix, its last page (from _value)         *)
(*   evictable, protected   the counters of the same names, in pages       *)
(***************************************************************************)
EXTENDS Integers, Sequences, FiniteSets, SequencesExt

EmptyTree == [ref |-> <<>>, ts |-> <<>>, span |-> <<>>, page |-> <<>>,
              evictable |-> 0, protected |-> 0]

Nodes(t) == DOMAIN t.ref
Covered(t) == DOMAIN t.page

(* The nodes met going up from the node of a handle to the root.           *)
PathTo(t, h) == {n \in Nodes(t) : IsPrefix(n, h)}

(* length: the number of pages whose key this node holds.                  *)
NodeLen(t, n) == Cardinality({q \in Covered(t) : t.span[q] = n})
PagesIn(t, S) == MapThenSumSet(LAMBDA n : NodeLen(t, n), S)

----------------------------------------------------------------------------
(* Only the order of timestamps is observable: Ranks keeps it.             *)
Ranks(f) == [n \in DOMAIN f |-> Cardinality({f[m] : m \in {k \in DOMAIN f : f[k] < f[n]}})]

Touch(t, S) ==
  [t EXCEPT !.ts = Ranks([n \in Nodes(t) |->
                            IF n \in S THEN Cardinality(Nodes(t)) ELSE t.ts[n]])]

(* Mutant of SplitAt: the upper node is new and starts unlocked.           *)
SplitUnlocked(t, p) ==
  LET s == t.span[p]
  IN [t EXCEPT
        !.ref  = [n \in Nodes(t) \cup {p} |-> IF n = p THEN 0 ELSE t.ref[n]],
        !.ts   = [n \in Nodes(t) \cup {p} |-> IF n = p THEN t.ts[s] ELSE t.ts[n]],
        !.span = [q \in DOMAIN t.span |->
                    IF t.span[q] = s /\ IsPrefix(q, p) THEN p ELSE t.span[q]]]

(* split_at: the new upper node takes ref_count and timestamp over.        *)
SplitAt(t, p) ==
  LET s == t.span[p]
  IN [t EXCEPT
        !.ref  = [n \in Nodes(t) \cup {p} |-> IF n = p THEN t.ref[s] ELSE t.ref[n]],
        !.ts   = [n \in Nodes(t) \cup {p} |-> IF n = p THEN t.ts[s] ELSE t.ts[n]],
        !.span = [q \in DOMAIN t.span |->
                    IF t.span[q] = s /\ IsPrefix(q, p) THEN p ELSE t.span[q]]]

MatchLen(t, key) == Max({0} \cup {i \in 1..Len(key) : SubSeq(key, 1, i) \in Covered(t)})
Matched(t, key) == SubSeq(key, 1, MatchLen(t, key))

(* Mutant of Walk: a node matched in part is left whole.                   *)
WalkWhole(t, key) == Touch(t, PathTo(t, Matched(t, key)))

(* _tree_walk: every node matched to its end gets a new timestamp; a node  *)
(* matched in part is split and, as in the code, neither half is stamped.  *)
Walk(t, key) ==
  LET p == Matched(t, key)
      touched == Touch(t, PathTo(t, p))
  IN IF p = <<>> \/ p \in Nodes(t) THEN touched ELSE SplitAt(touched, p)

----------------------------------------------------------------------------
(* Mutant of LockHandle: locked pages still count as evictable.            *)
LockUncounted(t, h) ==
  [t EXCEPT !.ref = [n \in Nodes(t) |-> IF n \in PathTo(t, h) THEN t.ref[n] + 1 ELSE t.ref[n]]]

(* lock_handle(handle) and lock_handle(handle, unlock=True).               *)
LockHandle(t, h) ==
  LET path == PathTo(t, h)
      moved == PagesIn(t, {n \in path : t.ref[n] = 0})
  IN [t EXCEPT !.ref = [n \in Nodes(t) |-> IF n \in path THEN t.ref[n] + 1 ELSE t.ref[n]],
               !.evictable = @ - moved,
               !.protected = @ + moved]

UnlockAsserts(t, h) == \A n \in PathTo(t, h) : t.ref[n] > 0

(* Mutant of UnlockHandle: the parents of the node stay locked.            *)
UnlockNodeOnly(t, h) ==
  [t EXCEPT !.ref = [n \in Nodes(t) |-> IF n = h THEN t.ref[n] - 1 ELSE t.ref[n]]]

UnlockHandle(t, h) ==
  LET path == PathTo(t, h)
      moved == PagesIn(t, {n \in path : t.ref[n] = 1})
  IN [t EXCEPT !.ref = [n \in Nodes(t) |-> IF n \in path THEN t.ref[n] - 1 ELSE t.ref[n]],
               !.evictable = @ + moved,
               !.protected = @ - moved]

----------------------------------------------------------------------------
(* The part of insert_prefix below the walk: key is not cached to its end, *)
(* so a new leaf holds the rest of it, with the pages of the given row.    *)
AddLeaf(t, key, row) ==
  LET new == {q \in Prefixes(key) : q # <<>> /\ q \notin Covered(t)}
  IN [t EXCEPT
        !.ref  = [n \in Nodes(t) \cup {key} |-> IF n = key THEN 0 ELSE t.ref[n]],
        !.ts   = Ranks([n \in Nodes(t) \cup {key} |->
                          IF n = key THEN Cardinality(Nodes(t)) ELSE t.ts[n]]),
        !.span = [q \in DOMAIN t.span \cup new |-> IF q \in new THEN key ELSE t.span[q]],
        !.page = [q \in Covered(t) \cup new |-> IF q \in new THEN row[Len(q)] ELSE t.page[q]],
        !.evictable = @ + Cardinality(new)]

Insert(t, key, row) ==
  LET walked == Walk(t, key)
  IN IF Matched(t, key) = key THEN walked ELSE AddLeaf(walked, key, row)

----------------------------------------------------------------------------
(* evict pops, one at a time, a leaf of the smallest timestamp among the   *)
(* leaves nobody holds; its parent joins them when it becomes such a leaf. *)
IsLeaf(t, n) == \A m \in Nodes(t) : IsPrefix(n, m) => m = n
(* Mutant of FreeLeaves: nodes that have children.                         *)
FreeNodes(t) == {n \in Nodes(t) : t.ref[n] = 0}

FreeLeaves(t) == {n \in Nodes(t) : t.ref[n] = 0 /\ IsLeaf(t, n)}
OldestLeaves(t) == {n \in FreeLeaves(t) : \A m \in FreeLeaves(t) : t.ts[n] <= t.ts[m]}

RemoveLeaf(t, n) ==
  LET kept == {q \in Covered(t) : t.span[q] # n}
  IN [t EXCEPT !.ref  = [m \in Nodes(t) \ {n} |-> t.ref[m]],
               !.ts   = Ranks([m \in Nodes(t) \ {n} |-> t.ts[m]]),
               !.span = [q \in kept |-> t.span[q]],
               !.page = [q \in kept |-> t.page[q]],
               !.evictable = @ - NodeLen(t, n)]

(* node.value: the pages of a node in key order.                           *)
NodePages(t, n) == LET k == NodeLen(t, n)
                   IN [i \in 1..k |-> t.page[SubSeq(n, 1, Len(n) - k + i)]]

(* get_matched_indices: the pages of a cached key in order.                *)
PagesOf(t, key) == [i \in 1..Len(key) |-> t.page[SubSeq(key, 1, i)]]
=============================================================================
