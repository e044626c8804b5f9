----------------------------- MODULE CacheClients -----------------------------
(***************************************************************************)
(* The cache manager under any requests that follow its protocol: a        *)
(* request matches and locks a prefix, runs forward passes that allocate   *)
(* pages, caches its prompt once prefilled, and is cached and released at  *)
(* its end.  The scheduler is one such client (it also decides when); here *)
(* requests step in every order, so what holds here holds whatever the     *)
(* scheduling policy is.                                                   *)
(***************************************************************************)
EXTENDS CacheManager

CONSTANTS
  Reqs,        \* the requests
  Prompts,     \* the prompts they may carry
  Tokens,      \* the tokens the model may produce
  MaxLen,      \* bound: no request grows beyond this many tokens
  NoReq        \* the value of a request that is not running

(* The tokens of keys, and the requests as the manager sees them.          *)
Alphabet == Tokens \cup UNION {ToSet(p) : p \in Prompts}
Block == Seq(Alphabet)
Request == [ids : Seq(Alphabet), cached : Nat, device : Nat, handle : Seq(Block), slot : Slot]

ASSUME ReqsAssumption == IsFiniteSet(Reqs) /\ NoReq \notin Request \cup Seq(Block)
ASSUME PromptsAssumption == Prompts \subseteq Seq(Alphabet) \ {<<>>}
ASSUME MaxLenAssumption == MaxLen \in Nat /\ \A p \in Prompts : Len(p) <= MaxLen

VARIABLE reqs  \* reqs[c]: the running request c, or NoReq

vars == <<tree, freePages, pageTable, reqs>>

Running == {c \in Reqs : reqs[c] # NoReq}
UsedSlots == {reqs[c].slot : c \in Running}

Init == CacheInit /\ reqs = [c \in Reqs |-> NoReq]

(* The pages the running requests may still ask for.                       *)
Reserved == MapThenSumSet(LAMBDA c : PagesFor(MaxLen) - PagesFor(reqs[c].cached), Running)

(* _try_allocate_one: match, lock, take a row and copy the matched pages.  *)
(* The scheduler admits by an estimate in tokens; a client of the manager  *)
(* is correct when it leaves every running request the pages it may need.  *)
Start(c, prompt, s) ==
  LET walked == Walk(tree, MatchKey(prompt))
      handle == Matched(tree, MatchKey(prompt))
      locked == LockHandle(walked, handle)
      req == [ids |-> prompt, cached |-> Len(handle) * PageSize,
              device |-> Len(prompt), handle |-> handle, slot |-> s]
  IN /\ reqs[c] = NoReq
     /\ s \in Slot \ UsedSlots
     /\ Reserved + PagesFor(MaxLen) - Len(handle) <= locked.evictable + Len(freePages)
     /\ tree' = locked
     /\ pageTable' = [pageTable EXCEPT ![s] = Overwrite(@, 0, PagesOf(walked, handle))]
     /\ reqs' = [reqs EXCEPT ![c] = req]
     /\ UNCHANGED freePages

(* A request that must wait still walks the tree when it is tried.         *)
Refuse(c, prompt) ==
  /\ reqs[c] = NoReq
  /\ tree' = Walk(tree, MatchKey(prompt))
  /\ UNCHANGED <<freePages, pageTable, reqs>>

(* _allocate on behalf of a request that lacks pages.                      *)
Evict(c) ==
  /\ reqs[c] # NoReq
  /\ EvictOne(<<reqs[c]>>)
  /\ UNCHANGED reqs

(* One forward pass: pages, then complete_one and the sampled token.       *)
Forward(c, token) ==
  /\ reqs[c] # NoReq
  /\ Len(reqs[c].ids) < MaxLen
  /\ AllocatePaged(<<reqs[c]>>)
  /\ reqs' = [reqs EXCEPT ![c].cached = reqs[c].device,
                          ![c].device = reqs[c].device + 1,
                          ![c].ids = Append(reqs[c].ids, token)]

Computed(c) == reqs[c] # NoReq /\ reqs[c].cached + 1 = reqs[c].device

CachePrompt(c) ==
  /\ Computed(c)
  /\ CacheReq(reqs[c], FALSE)
  /\ reqs' = [reqs EXCEPT ![c].handle = ReqKey(reqs[c])]

Finish(c) ==
  /\ Computed(c)
  /\ CacheReq(reqs[c], TRUE)
  /\ reqs' = [reqs EXCEPT ![c] = NoReq]

Next == \E c \in Reqs :
          \/ \E prompt \in Prompts, s \in Slot : Start(c, prompt, s)
          \/ \E prompt \in Prompts : Refuse(c, prompt)
          \/ Evict(c)
          \/ \E token \in Tokens : Forward(c, token)
          \/ CachePrompt(c)
          \/ Finish(c)

Spec == Init /\ [][Next]_vars

----------------------------------------------------------------------------
Paths == DOMAIN tree.span
Private(c) == SubSeq(pageTable[reqs[c].slot], Len(reqs[c].handle) + 1, PagesFor(reqs[c].cached))

TypeOK ==
  /\ tree.ref \in [Nodes(tree) -> Nat] /\ tree.ts \in [Nodes(tree) -> Nat]
  /\ tree.page \in [Paths -> Page] /\ tree.span \in [Paths -> Nodes(tree)]
  /\ freePages \in Seq(Page)
  /\ pageTable \in [Slot -> Seq(Page)]
  /\ reqs \in [Reqs -> Request \cup {NoReq}]
  /\ \A c \in Running : /\ reqs[c].cached < reqs[c].device
                         /\ reqs[c].device = Len(reqs[c].ids)
                         /\ PagesFor(reqs[c].cached) <= Len(pageTable[reqs[c].slot])

(* The tree is a radix tree: prefixes of cached keys are cached, every     *)
(* node ends its own span, and two nodes never share a part of a key that  *)
(* neither of them ends (each child of a node starts with its own block).  *)
TreeShape ==
  /\ \A n \in Nodes(tree) : n \in Paths /\ tree.span[n] = n
  /\ \A q \in Paths : \A i \in 1..Len(q) : SubSeq(q, 1, i) \in Paths
  /\ \A q \in Paths : /\ IsPrefix(q, tree.span[q])
                      /\ \A n \in Nodes(tree) : IsPrefix(q, n) => IsPrefix(tree.span[q], n)

(* ref_count counts exactly the running requests whose locked prefix goes  *)
(* through the node (lock_handle, split_at, cache_req), and every locked   *)
(* prefix is still in the tree.                                            *)
LocksExact ==
  /\ \A c \in Running : reqs[c].handle \in Nodes(tree) \cup {<<>>}
  /\ \A n \in Nodes(tree) :
       tree.ref[n] = Cardinality({c \in Running : IsPrefix(n, reqs[c].handle)})

(* evictable_size and protected_size, updated step by step by lock_handle, *)
(* insert_prefix and evict, equal what a walk over the tree would count.   *)
SizesExact ==
  /\ tree.evictable = PagesIn(tree, {n \in Nodes(tree) : tree.ref[n] = 0})
  /\ tree.protected = PagesIn(tree, {n \in Nodes(tree) : tree.ref[n] > 0})

(* No page is lost or held twice: each one is free, or cached under one    *)
(* key, or private to one running request (cache_req, _allocate, _free;    *)
(* check_integrity asserts the sum of it when the scheduler is idle).      *)
PagesPartition == EachPageOnce([c \in Running |-> Private(c)])

(* The asserts of evict: when the counter says a page can be evicted, a    *)
(* leaf nobody holds exists; and a client within its reservation can       *)
(* always have the pages it lacks.                                         *)
EvictionSucceeds ==
  /\ tree.evictable > 0 => FreeLeaves(tree) # {}
  /\ \A c \in Running : PagesLacking(reqs[c]) <= tree.evictable + Len(freePages)

(* The assert of lock_handle (ref_count > 0) never fails when a request    *)
(* gives its prefix back or moves it, whatever was split or inserted since *)
(* it was locked.                                                          *)
UnlockSucceeds == \A c \in Running : CacheReqAsserts(reqs[c])

----------------------------------------------------------------------------
(* The manager implements the prefix store: the radix nodes with their     *)
(* splits, ref_counts, timestamps and sizes, the order of the free list    *)
(* and the page table only serve what PrefixStore says.                    *)
Abstract == INSTANCE PrefixStore WITH
  Clients <- Reqs,
  Pages   <- Page,
  Nobody  <- NoReq,
  store   <- tree.page,
  free    <- ToSet(freePages),
  held    <- [c \in Reqs |-> IF reqs[c] = NoReq THEN NoReq ELSE reqs[c].handle],
  owned   <- [c \in Reqs |-> IF reqs[c] = NoReq THEN {} ELSE ToSet(Private(c))]

ImplementsPrefixStore == Abstract!Spec
=============================================================================
