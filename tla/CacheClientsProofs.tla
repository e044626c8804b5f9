-------------------------- MODULE CacheClientsProofs --------------------------
(***************************************************************************)
(* Invariants of the cache manager under its clients, for any number of    *)
(* requests, pages, rows and tokens, any page size, and prompts of any     *)
(* length.                                                                 *)
(***************************************************************************)
EXTENDS CacheClients, CacheManagerProofs

----------------------------------------------------------------------------
(* The inductive invariant: a radix tree over the blocks, whose counts are *)
(* those of the handles of the running requests.                           *)
HandleOf == [c \in Reqs |-> reqs[c].handle]

ReqsOK ==
  /\ reqs \in [Reqs -> Request \cup {NoReq}]
  /\ \A c \in Running : /\ reqs[c].cached < reqs[c].device
                         /\ reqs[c].device = Len(reqs[c].ids)

LocksInv == /\ ReqsOK
            /\ WellShaped(tree, Block)
            /\ Counted(tree, Running, HandleOf)

LEMMA LocksInit == Init => LocksInv
<1> SUFFICES ASSUME Init PROVE LocksInv OBVIOUS
<1>1. Running = {} BY DEF Init, Running
<1>2. ReqsOK BY <1>1 DEF Init, ReqsOK
<1>3. /\ TreeRecord(tree) /\ Nodes(tree) = {} /\ Covered(tree) = {} /\ DOMAIN tree.span = {}
  BY DEF Init, CacheInit, EmptyTree, TreeRecord, Nodes, Covered
<1>4. WellShaped(tree, Block) BY <1>3 DEF WellShaped, Tree, Shaped
<1>5. Counted(tree, Running, HandleOf) BY <1>1, <1>3, FS_EmptySet DEF Counted
<1>6. QED BY <1>2, <1>4, <1>5 DEF LocksInv

(* What the key of a running request is.                                   *)
LEMMA ReqKeyType ==
  ASSUME LocksInv, NEW c \in Running
  PROVE  ReqKey(reqs[c]) \in Seq(Block) /\ reqs[c] \in Request /\ c \in Reqs
<1>1. reqs[c] \in Request /\ c \in Reqs BY DEF LocksInv, ReqsOK, Running
<1>2. /\ reqs[c].ids \in Seq(Alphabet) /\ reqs[c].cached \in Nat /\ reqs[c].device \in Nat
      /\ reqs[c].cached <= Len(reqs[c].ids)
  BY <1>1 DEF LocksInv, ReqsOK, Request
<1>3. QED BY <1>1, <1>2, FirstTokens DEF ReqKey, Block

LEMMA StartLocks ==
  ASSUME LocksInv, NEW c \in Reqs, NEW prompt \in Prompts, NEW s \in Slot, Start(c, prompt, s)
  PROVE  LocksInv'
<1> DEFINE key == MatchKey(prompt)
           w == Walk(tree, key)
           k == Matched(tree, key)
           req == [ids |-> prompt, cached |-> Len(k) * PageSize,
                   device |-> Len(prompt), handle |-> k, slot |-> s]
<1>1. /\ reqs[c] = NoReq /\ tree' = LockHandle(w, k) /\ reqs' = [reqs EXCEPT ![c] = req]
  BY DEF Start
<1>2. /\ prompt \in Seq(Alphabet) /\ Len(prompt) \in Nat \ {0}
  BY PromptsAssumption, EmptySeq
<1>3. key \in Seq(Block) /\ Len(key) * PageSize <= Len(prompt) - 1
  BY <1>2, FirstTokens DEF MatchKey, Block
<1> HIDE DEF key
<1>4. /\ k \in Seq(Block) /\ Len(k) \in Nat /\ Len(k) <= Len(key) /\ Len(key) \in Nat
  BY <1>3, MatchedIsLongest
<1>5. /\ WellShaped(w, Block) /\ Counted(w, Running, HandleOf) /\ k \in Nodes(w) \cup {<<>>}
  BY <1>3, WalkShape, ExtendCounted DEF LocksInv
<1> HIDE DEF w, k
<1>6. Len(k) * PageSize \in Nat /\ Len(k) * PageSize <= Len(key) * PageSize
  BY <1>4, PageSizeAssumption
<1>7. /\ Len(k) * PageSize < Len(prompt)
  <2>1. Len(key) * PageSize \in Nat BY <1>4, PageSizeAssumption
  <2>2. QED BY <1>2, <1>3, <1>6, <2>1
<1>8. req \in Request BY <1>2, <1>4, <1>6 DEF Request
<1>9. /\ reqs' \in [Reqs -> Request \cup {NoReq}] /\ Running' = Running \cup {c} /\ c \notin Running
      /\ reqs'[c] = req /\ \A d \in Running : reqs'[d] = reqs[d]
  BY <1>1, <1>8, ReqsAssumption DEF LocksInv, ReqsOK, Running
<1>10. ReqsOK' BY <1>7, <1>9 DEF LocksInv, ReqsOK
<1>11. HandleOf'[c] = k /\ \A d \in Running : HandleOf'[d] = HandleOf[d]
  BY <1>9 DEF HandleOf, Running
<1>12. Counted(tree', Running', HandleOf') BY <1>1, <1>5, <1>9, <1>11, LockCounted
<1>13. WellShaped(tree', Block) BY <1>1, <1>5, LockShape
<1>14. QED BY <1>10, <1>12, <1>13 DEF LocksInv

(* A walk on behalf of a request that must wait.                           *)
LEMMA RefuseLocks ==
  ASSUME LocksInv, NEW c \in Reqs, NEW prompt \in Prompts, Refuse(c, prompt)
  PROVE  LocksInv'
<1>1. tree' = Walk(tree, MatchKey(prompt)) /\ reqs' = reqs BY DEF Refuse
<1>2. prompt \in Seq(Alphabet) /\ Len(prompt) \in Nat \ {0} BY PromptsAssumption, EmptySeq
<1>3. MatchKey(prompt) \in Seq(Block) BY <1>2, FirstTokens DEF MatchKey, Block
<1> DEFINE w == Walk(tree, MatchKey(prompt))
<1>4. WellShaped(w, Block) /\ Counted(w, Running, HandleOf)
  BY <1>3, WalkShape, ExtendCounted DEF LocksInv
<1> HIDE DEF w
<1>5. Running' = Running /\ HandleOf' = HandleOf /\ tree' = w
  BY <1>1 DEF Running, HandleOf, w
<1>6. ReqsOK' BY <1>1 DEF LocksInv, ReqsOK, Running
<1>7. QED BY <1>4, <1>5, <1>6 DEF LocksInv

LEMMA EvictLocks ==
  ASSUME LocksInv, NEW c \in Reqs, Evict(c)
  PROVE  LocksInv'
<1>1. PICK n \in OldestLeaves(tree) : tree' = RemoveLeaf(tree, n)
  BY DEF Evict, EvictOne
<1>2. n \in FreeLeaves(tree) BY DEF OldestLeaves
<1>3. reqs' = reqs BY DEF Evict
<1>4. n \in Nodes(tree) /\ IsLeaf(tree, n) BY <1>2 DEF FreeLeaves
<1> DEFINE u == RemoveLeaf(tree, n)
<1>5. WellShaped(u, Block) /\ Counted(u, Running, HandleOf)
  BY <1>2, <1>4, RemoveLeafShape, RemoveLeafCounted DEF LocksInv
<1> HIDE DEF u
<1>6. Running' = Running /\ HandleOf' = HandleOf /\ tree' = u
  BY <1>1, <1>3 DEF Running, HandleOf, u
<1>7. ReqsOK' BY <1>3 DEF LocksInv, ReqsOK, Running
<1>8. QED BY <1>5, <1>6, <1>7 DEF LocksInv

(* A forward pass does not touch the tree or the handle.                   *)
LEMMA ForwardLocks ==
  ASSUME LocksInv, NEW c \in Reqs, NEW token \in Tokens, Forward(c, token)
  PROVE  LocksInv'
<1>1. /\ tree' = tree /\ reqs[c] # NoReq
      /\ reqs' = [reqs EXCEPT ![c].cached = reqs[c].device,
                              ![c].device = reqs[c].device + 1,
                              ![c].ids = Append(reqs[c].ids, token)]
  BY DEF Forward, AllocatePaged
<1>2. /\ reqs[c] \in Request /\ c \in Running /\ token \in Alphabet
      /\ reqs \in [Reqs -> Request \cup {NoReq}]
  BY <1>1 DEF LocksInv, ReqsOK, Running, Alphabet
<1> DEFINE r == reqs[c]
           new == [r EXCEPT !.cached = r.device, !.device = r.device + 1, !.ids = Append(r.ids, token)]
<1>3. reqs' = [reqs EXCEPT ![c] = new] BY <1>1, <1>2
<1>4. /\ r.ids \in Seq(Alphabet) /\ r.device \in Nat /\ r.device = Len(r.ids)
  BY <1>2 DEF LocksInv, ReqsOK, Request
<1>5. /\ Append(r.ids, token) \in Seq(Alphabet) /\ Len(Append(r.ids, token)) = r.device + 1
  BY <1>2, <1>4
<1>6. /\ new \in Request /\ new.handle = r.handle
      /\ new.cached < new.device /\ new.device = Len(new.ids)
  <2> DEFINE ids == Append(r.ids, token)
             d == r.device + 1
  <2>1. ids \in Seq(Alphabet) /\ Len(ids) = d /\ d \in Nat /\ r.device < d BY <1>4, <1>5
  <2>2. new = [r EXCEPT !.cached = r.device, !.device = d, !.ids = ids] OBVIOUS
  <2> HIDE DEF ids, d, new
  <2>3. /\ new \in Request /\ new.handle = r.handle
        /\ new.cached = r.device /\ new.device = d /\ new.ids = ids
    BY <1>2, <1>4, <2>1, <2>2 DEF Request
  <2>4. QED BY <2>1, <2>3
<1> HIDE DEF new
<1>7. /\ reqs' \in [Reqs -> Request \cup {NoReq}] /\ Running' = Running
      /\ reqs'[c] = new /\ \A d \in Running \ {c} : reqs'[d] = reqs[d]
  BY <1>2, <1>3, <1>6, ReqsAssumption DEF Running
<1>8. ReqsOK'
  <2>1. \A d \in Running' : reqs'[d].cached < reqs'[d].device /\ reqs'[d].device = Len(reqs'[d].ids)
    BY <1>6, <1>7 DEF LocksInv, ReqsOK
  <2>2. QED BY <1>7, <2>1 DEF ReqsOK
<1>9. HandleOf' = HandleOf
  <2>1. \A d \in Reqs : reqs'[d].handle = reqs[d].handle BY <1>3, <1>6, <1>2
  <2>2. QED BY <2>1 DEF HandleOf
<1>10. QED BY <1>1, <1>7, <1>8, <1>9 DEF LocksInv

(* cache_req: insert, unlock the old handle, and lock the new one or end.  *)
LEMMA UnlockedLocks ==
  ASSUME LocksInv, NEW c \in Running
  PROVE  LET u == UnlockHandle(Reinserted(reqs[c]), reqs[c].handle)
         IN  /\ WellShaped(u, Block) /\ Counted(u, Running \ {c}, HandleOf)
             /\ ReqKey(reqs[c]) \in Nodes(u) \cup {<<>>}
             /\ CacheReqAsserts(reqs[c])
<1>1. ReqKey(reqs[c]) \in Seq(Block) /\ c \in Reqs BY ReqKeyType
<1>2. HandleOf[c] = reqs[c].handle BY <1>1 DEF HandleOf
<1>3. QED BY <1>1, <1>2, CacheReqLocks DEF LocksInv

LEMMA CachePromptLocks ==
  ASSUME LocksInv, NEW c \in Reqs, CachePrompt(c)
  PROVE  LocksInv'
<1> DEFINE r == reqs[c]
           key == ReqKey(r)
           u == UnlockHandle(Reinserted(r), r.handle)
<1>1. /\ c \in Running /\ tree' = LockHandle(u, key)
      /\ reqs' = [reqs EXCEPT ![c].handle = key]
  BY DEF CachePrompt, Computed, CacheReq, CacheReqTree, Running
<1>2. /\ WellShaped(u, Block) /\ Counted(u, Running \ {c}, HandleOf) /\ key \in Nodes(u) \cup {<<>>}
  BY <1>1, UnlockedLocks
<1>3. key \in Seq(Block) /\ r \in Request BY <1>1, ReqKeyType
<1> HIDE DEF key, u
<1> DEFINE new == [r EXCEPT !.handle = key]
<1>4. reqs' = [reqs EXCEPT ![c] = new] BY <1>1
<1>5. /\ new \in Request /\ new.handle = key /\ new.cached = r.cached
      /\ new.device = r.device /\ new.ids = r.ids
  BY <1>3 DEF Request
<1> HIDE DEF new
<1>6. /\ reqs' \in [Reqs -> Request \cup {NoReq}] /\ Running' = Running
      /\ reqs'[c] = new /\ \A d \in Running \ {c} : reqs'[d] = reqs[d]
  BY <1>1, <1>4, <1>5, ReqsAssumption DEF LocksInv, ReqsOK, Running
<1>7. ReqsOK'
  <2>1. \A d \in Running' : reqs'[d].cached < reqs'[d].device /\ reqs'[d].device = Len(reqs'[d].ids)
    BY <1>1, <1>5, <1>6 DEF LocksInv, ReqsOK
  <2>2. QED BY <1>6, <2>1 DEF ReqsOK
<1>8. HandleOf'[c] = key /\ \A d \in Running \ {c} : HandleOf'[d] = HandleOf[d]
  BY <1>5, <1>6 DEF HandleOf, Running
<1>9. (Running \ {c}) \cup {c} = Running' BY <1>1, <1>6
<1>10. Counted(tree', Running', HandleOf')
  BY <1>1, <1>2, <1>8, <1>9, LockCounted
<1>11. WellShaped(tree', Block) BY <1>1, <1>2, LockShape
<1>12. QED BY <1>7, <1>10, <1>11 DEF LocksInv

LEMMA FinishLocks ==
  ASSUME LocksInv, NEW c \in Reqs, Finish(c)
  PROVE  LocksInv'
<1> DEFINE r == reqs[c]
           u == UnlockHandle(Reinserted(r), r.handle)
<1>1. c \in Running /\ tree' = u /\ reqs' = [reqs EXCEPT ![c] = NoReq]
  BY DEF Finish, Computed, CacheReq, CacheReqTree, Running
<1>2. WellShaped(u, Block) /\ Counted(u, Running \ {c}, HandleOf) BY <1>1, UnlockedLocks
<1> HIDE DEF u
<1>3. /\ reqs' \in [Reqs -> Request \cup {NoReq}] /\ Running' = Running \ {c}
      /\ \A d \in Running \ {c} : reqs'[d] = reqs[d]
  BY <1>1 DEF LocksInv, ReqsOK, Running
<1>4. ReqsOK' BY <1>3 DEF LocksInv, ReqsOK
<1>5. \A d \in Running' : HandleOf'[d] = HandleOf[d] BY <1>3 DEF HandleOf, Running
<1>6. Counted(tree', Running', HandleOf')
  <2>1. \A n \in Nodes(u) : Through(n, Running \ {c}, HandleOf) = Through(n, Running', HandleOf')
    BY <1>3, <1>5 DEF Through
  <2>2. QED BY <1>1, <1>2, <1>3, <1>5, <2>1 DEF Counted
<1>7. QED BY <1>1, <1>2, <1>4, <1>6 DEF LocksInv

LEMMA LocksStutter == ASSUME LocksInv, UNCHANGED vars PROVE LocksInv'
<1>1. tree' = tree /\ reqs' = reqs BY DEF vars
<1>2. Running' = Running /\ HandleOf' = HandleOf BY <1>1 DEF Running, HandleOf
<1>3. QED BY <1>1, <1>2 DEF LocksInv, ReqsOK

LEMMA LocksInvariant == Spec => []LocksInv
<1>1. LocksInv /\ [Next]_vars => LocksInv'
  <2> SUFFICES ASSUME LocksInv, [Next]_vars PROVE LocksInv' OBVIOUS
  <2>1. ASSUME NEW c \in Reqs, NEW prompt \in Prompts, NEW s \in Slot, Start(c, prompt, s)
        PROVE  LocksInv'
    BY <2>1, StartLocks
  <2>2. ASSUME NEW c \in Reqs, NEW prompt \in Prompts, Refuse(c, prompt) PROVE LocksInv'
    BY <2>2, RefuseLocks
  <2>3. ASSUME NEW c \in Reqs, Evict(c) PROVE LocksInv' BY <2>3, EvictLocks
  <2>4. ASSUME NEW c \in Reqs, NEW token \in Tokens, Forward(c, token) PROVE LocksInv'
    BY <2>4, ForwardLocks
  <2>5. ASSUME NEW c \in Reqs, CachePrompt(c) PROVE LocksInv' BY <2>5, CachePromptLocks
  <2>6. ASSUME NEW c \in Reqs, Finish(c) PROVE LocksInv' BY <2>6, FinishLocks
  <2>7. CASE UNCHANGED vars BY <2>7, LocksStutter
  <2>8. QED BY <2>1, <2>2, <2>3, <2>4, <2>5, <2>6, <2>7 DEF Next
<1>2. QED BY LocksInit, <1>1, PTL DEF Spec

----------------------------------------------------------------------------
(* The tree is always a radix tree: through every split, insertion and     *)
(* eviction, prefixes of cached keys stay cached and the nodes keep        *)
(* dividing the cached keys among them (radix_cache.py, _tree_walk,        *)
(* insert_prefix, evict).                                                  *)
THEOREM TreeShapeHolds == Spec => []TreeShape
<1>1. LocksInv => TreeShape
  BY DEF LocksInv, WellShaped, Tree, Shaped, TreeShape, Paths, Nodes, Covered
<1>2. QED BY LocksInvariant, <1>1, PTL

(* ref_count is exact for every number of requests: it is the number of    *)
(* running requests whose locked prefix goes through the node, and what    *)
(* they locked is never evicted (lock_handle, split_at, cache_req, evict). *)
THEOREM LocksExactHolds == Spec => []LocksExact
<1>1. LocksInv => LocksExact
  <2> SUFFICES ASSUME LocksInv PROVE LocksExact OBVIOUS
  <2>1. \A c \in Running : HandleOf[c] = reqs[c].handle BY DEF HandleOf, Running
  <2>2. \A n \in Nodes(tree) :
          Through(n, Running, HandleOf) = {c \in Running : IsPrefix(n, reqs[c].handle)}
    BY <2>1 DEF Through
  <2>3. QED BY <2>1, <2>2 DEF LocksInv, Counted, LocksExact
<1>2. QED BY LocksInvariant, <1>1, PTL

(* The assert of lock_handle (ref_count > 0 when a handle is unlocked)     *)
(* never fails when a running request is cached and released or goes on.   *)
THEOREM UnlockSucceedsHolds == Spec => []UnlockSucceeds
<1>1. LocksInv => UnlockSucceeds BY UnlockedLocks DEF UnlockSucceeds
<1>2. QED BY LocksInvariant, <1>1, PTL

----------------------------------------------------------------------------
(* The pages. Store is the abstract prefix store of CacheClients with its  *)
(* invariant; the invariant of the pages adds to the locks what the rows   *)
(* hold, and that the store keeps each page in one place.                  *)

Store == INSTANCE PrefixStoreProofs WITH
  Clients <- Reqs,
  Pages   <- Page,
  Nobody  <- NoReq,
  store   <- tree.page,
  free    <- ToSet(freePages),
  held    <- [c \in Reqs |-> IF reqs[c] = NoReq THEN NoReq ELSE reqs[c].handle],
  owned   <- [c \in Reqs |-> IF reqs[c] = NoReq THEN {} ELSE ToSet(Private(c))]

(* What the clients hold and own, as the store sees it.                    *)
HeldNow == [c \in Reqs |-> IF reqs[c] = NoReq THEN NoReq ELSE reqs[c].handle]
OwnedNow == [c \in Reqs |-> IF reqs[c] = NoReq THEN {} ELSE ToSet(Private(c))]

(* The rows of the running requests, the lists and the table.              *)
RowsInv ==
  /\ freePages \in Seq(Page) /\ IsInjective(freePages)
  /\ tree.page \in [Covered(tree) -> Page]
  /\ pageTable \in [Slot -> Seq(Page)]
  /\ \A c \in Running : RowOK(pageTable, reqs[c]) /\ IsPrefix(reqs[c].handle, ReqKey(reqs[c]))
  /\ \A c, d \in Running : reqs[c].slot = reqs[d].slot => c = d

(* The inductive invariant of the pages.                                   *)
PagesInv == LocksInv /\ RowsInv /\ Store!StoreInv

(* What a client owns is the part of its row that is its own.              *)
OwnedOK ==
  /\ \A c \in Running : /\ ToSet(Private(c)) = Owned(pageTable, reqs[c])
                         /\ IsInjective(Private(c)) /\ OwnedNow[c] = Owned(pageTable, reqs[c])
  /\ \A c \in Reqs \ Running : OwnedNow[c] = {}

(* The private part of a running request is what its row holds for it.     *)
LEMMA OwnedOfRequest == LocksInv /\ RowsInv => OwnedOK
<1> SUFFICES ASSUME LocksInv, RowsInv PROVE OwnedOK OBVIOUS
<1>1. ASSUME NEW c \in Running
      PROVE  ToSet(Private(c)) = Owned(pageTable, reqs[c]) /\ IsInjective(Private(c))
  <2>1. reqs[c] \in Request BY ReqKeyType
  <2>2. Len(reqs[c].handle) \in Nat /\ pageTable[reqs[c].slot] \in Seq(Page)
    BY <2>1 DEF Request, RowsInv
  <2>3. RowOK(pageTable, reqs[c]) BY DEF RowsInv
  <2>4. ListOf(Private(c), Page, Owned(pageTable, reqs[c])) BY <2>2, <2>3, OwnedList DEF Private
  <2>5. QED BY <2>4 DEF ListOf
<1>2. \A c \in Running : OwnedNow[c] = ToSet(Private(c)) BY DEF OwnedNow, Running
<1>3. \A c \in Reqs \ Running : OwnedNow[c] = {} BY DEF OwnedNow, Running
<1>4. QED BY <1>1, <1>2, <1>3 DEF OwnedOK

(* The same in the next state.                                             *)
LEMMA OwnedOfRequestNext == LocksInv' /\ RowsInv' => OwnedOK'
BY OwnedOfRequest, PTL

(* A running request can be cached at any time.                            *)
LEMMA RequestCacheable ==
  ASSUME LocksInv, RowsInv, NEW c \in Running
  PROVE  Cacheable(reqs[c], Block)
<1>1. ReqKey(reqs[c]) \in Seq(Block) /\ reqs[c] \in Request BY ReqKeyType
<1>2. /\ reqs[c].ids \in Seq(Alphabet) /\ reqs[c].cached \in Nat
      /\ reqs[c].cached <= Len(reqs[c].ids) /\ reqs[c].handle \in Seq(Block)
  BY <1>1 DEF LocksInv, ReqsOK, Request
<1>3. Len(ReqKey(reqs[c])) <= PagesFor(reqs[c].cached) BY <1>2, KeyFits DEF ReqKey
<1>4. reqs[c].handle \in Covered(tree) \cup {<<>>}
  <2>1. HandleOf[c] = reqs[c].handle BY DEF HandleOf, Running
  <2>2. HandleOf[c] \in Nodes(tree) \cup {<<>>} BY DEF LocksInv, Counted
  <2>3. Nodes(tree) \subseteq Covered(tree) BY DEF LocksInv, WellShaped, Tree
  <2>4. QED BY <2>1, <2>2, <2>3
<1>5. QED BY <1>1, <1>2, <1>3, <1>4 DEF Cacheable, RowsInv

(* What OnePlace says of the concrete state.                               *)
LEMMA PlacesApart ==
  ASSUME LocksInv, RowsInv, Store!StoreInv
  PROVE  /\ \A c \in Running : Owned(pageTable, reqs[c]) \cap ToSet(freePages) = {}
         /\ \A q \in Covered(tree) : tree.page[q] \notin ToSet(freePages)
         /\ IsInjective(tree.page)
<1>1. Store!OnePlace BY DEF Store!StoreInv
<1>2. /\ \A k, l \in Covered(tree) : tree.page[k] = tree.page[l] => k = l
      /\ \A k \in Covered(tree) : tree.page[k] \notin ToSet(freePages)
      /\ \A c \in Reqs : \A p \in OwnedNow[c] : p \notin ToSet(freePages)
  BY <1>1 DEF Store!OnePlace, Store!Keys, OwnedNow, Covered
<1>3. \A c \in Running : Owned(pageTable, reqs[c]) = OwnedNow[c] /\ c \in Reqs
  BY OwnedOfRequest DEF Running, OwnedOK
<1>4. QED BY <1>2, <1>3 DEF IsInjective, Covered

(* Initially every page is free and in no row.                             *)
LEMMA RowsInit == Init => RowsInv /\ Store!StoreInv
<1> SUFFICES ASSUME Init PROVE RowsInv /\ Store!StoreInv OBVIOUS
<1>1. Running = {} /\ \A c \in Reqs : reqs[c] = NoReq BY DEF Init, Running
<1>2. /\ freePages = [i \in 1..NumPages |-> i - 1] /\ tree.page = <<>>
      /\ pageTable = [s \in Slot |-> <<>>]
  BY DEF Init, CacheInit, EmptyTree
<1>3. \A i \in 1..NumPages : i - 1 \in Page BY NumPagesAssumption DEF Page
<1>4. freePages \in Seq(Page) /\ DOMAIN freePages = 1..NumPages BY <1>2, <1>3, NumPagesAssumption
<1>5. IsInjective(freePages) BY <1>2, NumPagesAssumption DEF IsInjective
<1>6. ToSet(freePages) = Page
  <2>1. \A p \in Page : p + 1 \in 1..NumPages /\ (p + 1) - 1 = p BY NumPagesAssumption DEF Page
  <2>2. QED BY <1>2, <1>3, <1>4, <2>1 DEF ToSet
<1>7. Covered(tree) = {} BY <1>2 DEF Covered
<1>8. RowsInv
  <2>1. tree.page \in [Covered(tree) -> Page] BY <1>2, <1>7
  <2>2. pageTable \in [Slot -> Seq(Page)] BY <1>2
  <2>3. QED BY <1>1, <1>4, <1>5, <2>1, <2>2 DEF RowsInv
<1>9. Store!Init
  <2>1. HeldNow = [c \in Reqs |-> NoReq] /\ OwnedNow = [c \in Reqs |-> {}]
    BY <1>1 DEF HeldNow, OwnedNow
  <2>2. QED BY <1>2, <1>6, <2>1 DEF Store!Init, HeldNow, OwnedNow
<1>10. QED BY <1>8, <1>9, Store!StoreInit

(* Store and Abstract are two instances of one module: their actions are   *)
(* the same.                                                               *)
LEMMA SameBegin == ASSUME NEW c \in Reqs, NEW k, Abstract!Begin(c, k) PROVE Store!Begin(c, k)
BY Zenon DEF Abstract!Begin, Store!Begin, Abstract!Above, Store!Above, Abstract!Keys, Store!Keys,
  Abstract!Active, Store!Active, Abstract!Prefixes, Store!Prefixes

LEMMA SameTake == Abstract!Take => Store!Take
BY Zenon DEF Abstract!Take, Store!Take, Abstract!Active, Store!Active

LEMMA SameSettle == ASSUME NEW c \in Reqs, NEW k, Abstract!Settle(c, k) PROVE Store!Settle(c, k)
BY Zenon DEF Abstract!Settle, Store!Settle, Abstract!Above, Store!Above, Abstract!Keys, Store!Keys,
  Abstract!Kept, Store!Kept, Abstract!Active, Store!Active, Abstract!Prefixes, Store!Prefixes,
  Abstract!IsPrefix, Store!IsPrefix

LEMMA SameDrop == Abstract!Drop => Store!Drop
BY Zenon DEF Abstract!Drop, Store!Drop, Abstract!Above, Store!Above, Abstract!Keys, Store!Keys,
  Abstract!Kept, Store!Kept, Abstract!Active, Store!Active, Abstract!Prefixes, Store!Prefixes

(* Start is a Begin of the prefix store.                                   *)
LEMMA StartRows ==
  ASSUME LocksInv, RowsInv, Store!StoreInv,
         NEW c \in Reqs, NEW prompt \in Prompts, NEW s \in Slot, Start(c, prompt, s)
  PROVE  /\ RowsInv'
         /\ OwnedNow' = OwnedNow
         /\ HeldNow' = [HeldNow EXCEPT ![c] = Matched(tree, MatchKey(prompt))]
         /\ tree'.page = tree.page
         /\ Matched(tree, MatchKey(prompt)) \in Covered(tree) \cup {<<>>}
         /\ Matched(tree, MatchKey(prompt)) \in Seq(Block)
<1> DEFINE key == MatchKey(prompt)
           w == Walk(tree, key)
           k == Matched(tree, key)
           req == [ids |-> prompt, cached |-> Len(k) * PageSize,
                   device |-> Len(prompt), handle |-> k, slot |-> s]
           most == SubSeq(prompt, 1, Len(prompt) - 1)
           row == Overwrite(pageTable[s], 0, PagesOf(w, k))
<1>1. /\ reqs[c] = NoReq /\ tree' = LockHandle(w, k) /\ reqs' = [reqs EXCEPT ![c] = req]
      /\ s \notin UsedSlots /\ pageTable' = [pageTable EXCEPT ![s] = row]
      /\ freePages' = freePages
  BY DEF Start
<1>2. /\ prompt \in Seq(Alphabet) /\ Len(prompt) \in Nat \ {0}
  BY PromptsAssumption, EmptySeq
<1>3. /\ key \in Seq(Block) /\ Len(key) * PageSize <= Len(prompt) - 1 /\ key = Key(most)
      /\ most \in Seq(Alphabet) /\ Len(most) = Len(prompt) - 1
  <2>1. Len(prompt) - 1 \in Nat /\ Len(prompt) - 1 <= Len(prompt) BY <1>2
  <2>2. /\ most \in Seq(Alphabet) /\ Len(most) = Len(prompt) - 1
        /\ Key(most) \in Seq(Block) /\ Len(Key(most)) * PageSize <= Len(prompt) - 1
    BY <1>2, <2>1, FirstTokens DEF Block
  <2>3. QED BY <2>2 DEF MatchKey
<1>4. row \in Seq(Page) /\ Len(k) <= Len(row)
  BY <1>3, AdmittedRow DEF LocksInv, RowsInv
<1> HIDE DEF key
<1>5. /\ k \in Seq(Block) /\ Len(k) \in Nat /\ Len(k) <= Len(key) /\ Len(key) \in Nat
      /\ IsPrefix(k, key) /\ k \in Covered(tree) \cup {<<>>}
  BY <1>3, MatchedIsLongest
<1>6. WellShaped(w, Block) /\ w.page = tree.page BY <1>3, WalkShape DEF LocksInv
<1> HIDE DEF w, k, row
<1>7. tree'.page = tree.page BY <1>1, <1>6, LockShape
<1> DEFINE n == Len(k) * PageSize
<1>8. /\ n \in Nat /\ PagesFor(n) = Len(k) /\ n <= Len(most)
  <2>1. n \in Nat /\ PagesFor(n) = Len(k) BY <1>5, PagesForWhole
  <2>2. n <= Len(key) * PageSize BY <1>5, PageSizeAssumption
  <2>3. Len(key) * PageSize \in Nat BY <1>5, PageSizeAssumption
  <2> HIDE DEF n, most
  <2>4. QED BY <1>2, <1>3, <2>1, <2>2, <2>3
<1>9. IsPrefix(k, ReqKey(req))
  <2>1. IsPrefix(k, Key(SubSeq(most, 1, n))) BY <1>3, <1>5, <1>8, KeyOfPrefix DEF Block
  <2>2. SubSeq(most, 1, n) = SubSeq(prompt, 1, n)
    <3> HIDE DEF n
    <3>1. SubSeq(most, 1, n) = SubSeq(prompt, 1, n) BY <1>2, <1>3, <1>8
    <3>2. QED BY <3>1
  <2>3. ReqKey(req) = Key(SubSeq(prompt, 1, n)) BY DEF ReqKey
  <2>4. QED BY <2>1, <2>2, <2>3
<1>10. req.slot = s /\ req.handle = k /\ req.cached = n OBVIOUS
<1> HIDE DEF req, n
<1>11. /\ Running' = Running \cup {c} /\ c \notin Running /\ req # NoReq
       /\ reqs'[c] = req /\ \A d \in Running : reqs'[d] = reqs[d]
  <2>1. LocksInv' BY StartLocks
  <2>2. req \in Request
    <3>1. Len(prompt) \in Nat /\ n \in Nat BY <1>2, <1>8
    <3>2. QED BY <1>2, <1>5, <3>1 DEF Request, req, n
  <2>3. QED BY <1>1, <2>2, ReqsAssumption DEF LocksInv, ReqsOK, Running
<1>12. \A d \in Running : reqs[d].slot # s /\ reqs[d].slot \in Slot
  BY <1>1 DEF UsedSlots, RowsInv, RowOK
<1>13. pageTable'[s] = row /\ \A d \in Running : pageTable'[reqs[d].slot] = pageTable[reqs[d].slot]
  BY <1>1, <1>12 DEF RowsInv
<1>14. RowOK(pageTable', req)
  <2>1. Own(req) = {} BY <1>5, <1>8, <1>10 DEF Own
  <2>2. QED BY <1>4, <1>5, <1>8, <1>10, <1>13, <2>1 DEF RowOK, Distinct
<1>15. RowsInv'
  <2>1. pageTable' \in [Slot -> Seq(Page)] BY <1>1, <1>4 DEF RowsInv
  <2>2. \A d \in Running : RowOK(pageTable', reqs[d])
    BY <1>13 DEF RowsInv, RowOK
  <2>3. \A d \in Running' : RowOK(pageTable', reqs'[d]) /\ IsPrefix(reqs'[d].handle, ReqKey(reqs'[d]))
    BY <1>9, <1>10, <1>11, <1>14, <2>2 DEF RowsInv
  <2>4. \A d, e \in Running' : reqs'[d].slot = reqs'[e].slot => d = e
    BY <1>10, <1>11, <1>12 DEF RowsInv
  <2>5. Covered(tree') = Covered(tree) BY <1>7 DEF Covered
  <2>6. \A d \in Running' : ReqKey(reqs'[d]) = ReqKey(reqs[d])' BY DEF ReqKey
  <2>7. QED BY <1>1, <1>7, <2>1, <2>3, <2>4, <2>5 DEF RowsInv, ReqKey
<1>16. OwnedNow' = OwnedNow
  <2>1. LocksInv' BY StartLocks
  <2>2. /\ \A d \in Running : OwnedNow[d] = Owned(pageTable, reqs[d])
        /\ \A d \in Reqs \ Running : OwnedNow[d] = {}
    BY OwnedOfRequest DEF OwnedOK
  <2>3. /\ \A d \in Running' : OwnedNow'[d] = Owned(pageTable', reqs'[d])
        /\ \A d \in Reqs \ Running' : OwnedNow'[d] = {}
    BY <1>15, <2>1, OwnedOfRequestNext DEF OwnedOK
  <2>4. Owned(pageTable', req) = {} BY <1>5, <1>8, <1>10 DEF Owned, Own, PagesAt
  <2>5. \A d \in Running : Owned(pageTable', reqs'[d]) = Owned(pageTable, reqs[d])
    BY <1>11, <1>13 DEF Owned
  <2>6. \A d \in Reqs : OwnedNow'[d] = OwnedNow[d]
    BY <1>11, <2>2, <2>3, <2>4, <2>5
  <2>7. QED BY <2>6 DEF OwnedNow
<1>17. HeldNow' = [HeldNow EXCEPT ![c] = k]
  BY <1>1, <1>10, <1>11 DEF HeldNow, LocksInv, ReqsOK
<1>18. QED BY <1>5, <1>7, <1>15, <1>16, <1>17 DEF k, key

----------------------------------------------------------------------------
(* Each operation keeps the invariant and is a step of the prefix store.   *)

(* The keys of a cached key are cached.                                    *)
LEMMA AboveIsKeys ==
  ASSUME NEW k
  PROVE  Abstract!Above(k) = KeysOf(k)
BY DEF Abstract!Above, KeysOf, Abstract!Prefixes, Prefixes

(* The clients of the store are the running requests.                      *)
LEMMA ActiveIsRunning ==
  ASSUME LocksInv
  PROVE  /\ Abstract!Active = Running
         /\ \A c \in Running : HeldNow[c] = reqs[c].handle
         /\ \A c \in Reqs \ Running : HeldNow[c] = NoReq
<1>1. ASSUME NEW c \in Running PROVE reqs[c].handle # NoReq
  <2>1. reqs[c] \in Request BY ReqKeyType
  <2>2. reqs[c].handle \in Seq(Block) BY <2>1 DEF Request
  <2>3. QED BY <2>2, ReqsAssumption
<1>2. \A c \in Running : HeldNow[c] = reqs[c].handle BY DEF HeldNow, Running
<1>3. \A c \in Reqs \ Running : HeldNow[c] = NoReq BY DEF HeldNow, Running
<1>4. Abstract!Active = {c \in Reqs : HeldNow[c] # NoReq} BY DEF Abstract!Active, HeldNow
<1>5. Running \subseteq Reqs BY DEF Running
<1>6. QED BY <1>1, <1>2, <1>3, <1>4, <1>5

(* A request that starts holds what it matched, and owns no page yet.      *)
LEMMA StartBegins ==
  ASSUME PagesInv, NEW c \in Reqs, NEW prompt \in Prompts, NEW s \in Slot, Start(c, prompt, s)
  PROVE  /\ RowsInv'
         /\ \E k \in Abstract!Keys \cup {<<>>} : Abstract!Begin(c, k)
<1>1. PICK k : k = Matched(tree, MatchKey(prompt)) OBVIOUS
<1>2. /\ RowsInv' /\ OwnedNow' = OwnedNow /\ HeldNow' = [HeldNow EXCEPT ![c] = k]
      /\ tree'.page = tree.page /\ k \in Covered(tree) \cup {<<>>} /\ k \in Seq(Block)
  BY <1>1, StartRows DEF PagesInv
<1>3. freePages' = freePages /\ c \notin Running BY DEF Start, Running
<1>4. k # NoReq BY <1>2, ReqsAssumption
<1>5. c \notin Abstract!Active BY <1>3, ActiveIsRunning DEF PagesInv
<1>6. Abstract!Above(k) \subseteq Abstract!Keys
  BY <1>2, AboveIsKeys, CachedAbove DEF PagesInv, LocksInv, Abstract!Keys, Covered
<1>7. ToSet(freePages)' = ToSet(freePages) BY <1>3
<1>8. Abstract!Begin(c, k)
  BY <1>2, <1>4, <1>5, <1>6, <1>7 DEF Abstract!Begin, HeldNow, OwnedNow
<1>9. k \in Abstract!Keys \cup {<<>>} BY <1>2 DEF Abstract!Keys, Covered
<1>10. QED BY <1>2, <1>8, <1>9

(* Start keeps the invariant and is a Begin.                               *)
LEMMA StartPages ==
  ASSUME PagesInv, NEW c \in Reqs, NEW prompt \in Prompts, NEW s \in Slot, Start(c, prompt, s)
  PROVE  PagesInv' /\ \E k \in Abstract!Keys \cup {<<>>} : Abstract!Begin(c, k)
<1>1. LocksInv' BY StartLocks DEF PagesInv
<1>2. RowsInv' BY StartBegins
<1>3. PICK k \in Abstract!Keys \cup {<<>>} : Abstract!Begin(c, k) BY StartBegins
<1>4. Store!Begin(c, k) BY <1>3, SameBegin
<1>5. Store!StoreInv' BY <1>4, Store!StoreBegin DEF PagesInv
<1>6. QED BY <1>1, <1>2, <1>3, <1>5 DEF PagesInv

(* A walk moves no page.                                                   *)
LEMMA RefusePages ==
  ASSUME PagesInv, NEW c \in Reqs, NEW prompt \in Prompts, Refuse(c, prompt)
  PROVE  PagesInv' /\ UNCHANGED Abstract!vars
<1>1. LocksInv' BY RefuseLocks DEF PagesInv
<1>2. /\ tree' = Walk(tree, MatchKey(prompt)) /\ reqs' = reqs
      /\ freePages' = freePages /\ pageTable' = pageTable
  BY DEF Refuse
<1>3. prompt \in Seq(Alphabet) /\ Len(prompt) \in Nat \ {0} BY PromptsAssumption, EmptySeq
<1>4. MatchKey(prompt) \in Seq(Block) BY <1>3, FirstTokens DEF MatchKey, Block
<1>5. tree'.page = tree.page BY <1>2, <1>4, WalkShape DEF PagesInv, LocksInv
<1>6. OwnedNow' = OwnedNow /\ HeldNow' = HeldNow BY <1>2 DEF OwnedNow, HeldNow, Private
<1>7. UNCHANGED Abstract!vars BY <1>2, <1>5, <1>6 DEF Abstract!vars, OwnedNow, HeldNow
<1>8. UNCHANGED Store!vars BY <1>2, <1>5, <1>6 DEF Store!vars, OwnedNow, HeldNow
<1>9. Store!StoreInv' BY <1>8, Store!StoreStutters DEF PagesInv
<1>10. RowsInv' BY <1>2, <1>5 DEF PagesInv, RowsInv, Running, Covered, ReqKey
<1>11. QED BY <1>1, <1>7, <1>9, <1>10 DEF PagesInv

(* An eviction is a Drop: it takes a leaf that nobody holds.               *)
LEMMA EvictDrops ==
  ASSUME PagesInv, NEW c \in Reqs, Evict(c)
  PROVE  PagesInv' /\ Abstract!Drop
<1>1. LocksInv' BY EvictLocks DEF PagesInv
<1>2. EvictOne(<<reqs[c]>>) /\ reqs' = reqs /\ pageTable' = pageTable
  BY DEF Evict, EvictOne
<1>3. /\ WellShaped(tree, Block) /\ freePages \in Seq(Page) /\ IsInjective(freePages)
      /\ tree.page \in [Covered(tree) -> Page] /\ IsInjective(tree.page)
      /\ \A q \in Covered(tree) : tree.page[q] \notin ToSet(freePages)
  BY PlacesApart DEF PagesInv, LocksInv, RowsInv
<1>4. /\ Covered(tree)' \subseteq Covered(tree)
      /\ tree'.page = [q \in Covered(tree)' |-> tree.page[q]]
      /\ freePages' \in Seq(Page)
      /\ ToSet(freePages') =
           ToSet(freePages) \cup {tree.page[q] : q \in Covered(tree) \ Covered(tree)'}
      /\ IsInjective(freePages')
  BY <1>2, <1>3, EvictPages
<1>5. OwnedNow' = OwnedNow /\ HeldNow' = HeldNow BY <1>2 DEF OwnedNow, HeldNow, Private
<1>6. \A k \in Covered(tree)' : Abstract!Above(k) \subseteq Covered(tree)'
  BY <1>1, CachedAbove, AboveIsKeys DEF LocksInv, Covered
<1>7. \A d \in Abstract!Active : Abstract!Above(HeldNow[d]) \subseteq Covered(tree)'
  <2>1. TAKE d \in Abstract!Active
  <2>2. d \in Running /\ HeldNow[d] = reqs[d].handle BY ActiveIsRunning DEF PagesInv
  <2>3. Counted(tree', Running', HandleOf') /\ WellShaped(tree', Block) BY <1>1 DEF LocksInv
  <2>4. Running' = Running /\ HandleOf' = HandleOf BY <1>2 DEF Running, HandleOf
  <2>5. HandleOf[d] = HeldNow[d] BY <2>2 DEF HandleOf, Running
  <2>6. HeldNow[d] \in Covered(tree') \cup {<<>>}
    BY <2>2, <2>3, <2>4, <2>5 DEF Counted, WellShaped, Tree
  <2>7. QED BY <2>3, <2>6, CachedAbove, AboveIsKeys DEF Covered
<1>8. Abstract!Drop
  <2>1. DOMAIN tree'.page \subseteq DOMAIN tree.page BY <1>4 DEF Covered
  <2>2. \A k \in DOMAIN tree.page \cap DOMAIN tree'.page : tree'.page[k] = tree.page[k]
    BY <1>4 DEF Covered
  <2>3. ToSet(freePages)' =
          ToSet(freePages) \cup {tree.page[k] : k \in DOMAIN tree.page \ DOMAIN tree'.page}
    BY <1>4 DEF Covered
  <2>4. \A k \in DOMAIN tree'.page : Abstract!Above(k) \subseteq DOMAIN tree'.page
    BY <1>6 DEF Covered
  <2>5. \A d \in Abstract!Active : Abstract!Above(HeldNow[d]) \subseteq DOMAIN tree'.page
    BY <1>7 DEF Covered
  <2>6. QED BY <1>5, <2>1, <2>2, <2>3, <2>4, <2>5
    DEF Abstract!Drop, Abstract!Keys, Abstract!Kept, HeldNow, OwnedNow
<1>9. Store!StoreInv' BY <1>8, SameDrop, Store!StoreDrop DEF PagesInv
<1>10. RowsInv'
  <2>1. tree'.page \in [Covered(tree)' -> Page] BY <1>3, <1>4
  <2>2. Running' = Running BY <1>2 DEF Running
  <2>3. QED BY <1>2, <1>4, <2>1, <2>2 DEF PagesInv, RowsInv, ReqKey
<1>11. QED BY <1>1, <1>8, <1>9, <1>10 DEF PagesInv

(* A forward pass extends one row by pages that were free.                 *)
LEMMA ForwardRows ==
  ASSUME PagesInv, NEW c \in Reqs, NEW token \in Tokens, Forward(c, token)
  PROVE  /\ RowsInv' /\ HeldNow' = HeldNow /\ tree'.page = tree.page
         /\ \E pages : /\ pages \subseteq ToSet(freePages)
                       /\ ToSet(freePages') = ToSet(freePages) \ pages
                       /\ OwnedNow'[c] = OwnedNow[c] \cup pages
         /\ \A d \in Reqs \ {c} : OwnedNow'[d] = OwnedNow[d]
         /\ c \in Running
<1> DEFINE r == reqs[c]
           rs == <<reqs[c]>>
           new == [r EXCEPT !.cached = r.device, !.device = r.device + 1, !.ids = Append(r.ids, token)]
<1>1. /\ reqs[c] # NoReq /\ AllocatePaged(rs)
      /\ reqs' = [reqs EXCEPT ![c].cached = reqs[c].device,
                              ![c].device = reqs[c].device + 1,
                              ![c].ids = Append(reqs[c].ids, token)]
  BY DEF Forward
<1>2. /\ LocksInv /\ RowsInv /\ Store!StoreInv BY DEF PagesInv
<1>3. /\ c \in Running /\ r \in Request /\ reqs \in [Reqs -> Request \cup {NoReq}]
  BY <1>1, <1>2 DEF LocksInv, ReqsOK, Running
<1>4. /\ r.cached \in Nat /\ r.device \in Nat /\ r.cached <= r.device /\ r.slot \in Slot
      /\ r.ids \in Seq(Alphabet) /\ r.device = Len(r.ids) /\ Len(r.handle) \in Nat
      /\ r.cached < r.device
  BY <1>2, <1>3 DEF LocksInv, ReqsOK, Request
<1>5. RowOK(pageTable, r) /\ IsPrefix(r.handle, ReqKey(r)) BY <1>2, <1>3 DEF RowsInv
<1>6. /\ rs \in Seq(Request) /\ Len(rs) = 1 /\ rs[1] = r BY <1>3
<1>7. RowsApart(rs) BY <1>4, <1>5, <1>6 DEF RowsApart, RowOK
<1>8. /\ freePages \in Seq(Page) /\ IsInjective(freePages) /\ pageTable \in [Slot -> Seq(Page)]
  BY <1>2 DEF RowsInv
<1> HIDE DEF r, rs
<1>9. PICK S : Cut(S, rs) BY <1>1, <1>6, <1>7, <1>8, AllocateCuts
<1>10. PICK pages : pages = Handed(S, 1) OBVIOUS
<1>11. /\ Grown(r, pages, Page)
  <2>1. 1 \in 1..Len(rs) BY <1>6
  <2>2. Grown(rs[1], Handed(S, 1), Page) BY <1>6, <1>7, <1>8, <1>9, <2>1, CutGrows
  <2>3. QED BY <1>6, <1>10, <2>2
<1>12. /\ freePages' \in Seq(Page) /\ IsInjective(freePages')
       /\ pages \subseteq ToSet(freePages) /\ ToSet(freePages') = ToSet(freePages) \ pages
  <2>1. /\ freePages' \in Seq(Page) /\ IsInjective(freePages')
        /\ \A i \in 1..Len(rs) : Handed(S, i) \subseteq ToSet(freePages)
        /\ ToSet(freePages') = ToSet(freePages) \ HandedAll(S, Len(rs))
    BY <1>6, <1>8, <1>9, CutParts
  <2>2. 1..Len(rs) = {1} BY <1>6
  <2>3. HandedAll(S, Len(rs)) = pages BY <1>10, <2>2 DEF HandedAll
  <2>4. pages \subseteq ToSet(freePages) BY <1>10, <2>1, <2>2
  <2>5. QED BY <2>1, <2>3, <2>4
<1>13. /\ tree' = tree /\ pageTable' = [s \in Slot |-> pageTable'[s]]
       /\ pageTable'[r.slot] \in Seq(Page)
       /\ \A s \in Slot : s # r.slot => pageTable'[s] = pageTable[s]
  BY <1>6, <1>9, <1>11 DEF Cut, Grown
<1>14. pageTable' \in [Slot -> Seq(Page)] BY <1>8, <1>13
<1>15. /\ new.cached = r.device /\ new.slot = r.slot /\ new.handle = r.handle
       /\ new.ids = Append(r.ids, token) /\ new # NoReq
  <2>1. token \in Alphabet BY DEF Alphabet
  <2> DEFINE ids == Append(r.ids, token)
             dev == r.device + 1
  <2>4. ids \in Seq(Alphabet) /\ dev \in Nat BY <1>4, <2>1
  <2>5. new = [r EXCEPT !.cached = r.device, !.device = dev, !.ids = ids] OBVIOUS
  <2> HIDE DEF ids, dev, new
  <2>2. /\ new \in Request /\ new.cached = r.device /\ new.slot = r.slot
        /\ new.handle = r.handle /\ new.ids = ids
    BY <1>3, <1>4, <2>4, <2>5 DEF Request
  <2>3. QED BY <2>2, ReqsAssumption DEF ids
<1>16. reqs' = [reqs EXCEPT ![c] = new] BY <1>1, <1>3 DEF r, Request
<1> HIDE DEF new
<1>17. /\ Running' = Running /\ reqs'[c] = new /\ \A d \in Running \ {c} : reqs'[d] = reqs[d]
  BY <1>3, <1>15, <1>16 DEF Running
<1>18. Owned(pageTable, r) \cap ToSet(freePages) = {} BY <1>2, <1>3, PlacesApart DEF r
<1>19. /\ RowOK(pageTable', new) /\ Owned(pageTable', new) = Owned(pageTable, r) \cup pages
  <2>1. /\ RowOK(pageTable, r) /\ Len(r.handle) \in Nat /\ r.device \in Nat /\ r.cached <= r.device
        /\ Grown(r, pages, Page) /\ IsInjective(freePages) /\ pages \subseteq ToSet(freePages)
        /\ Owned(pageTable, r) \cap ToSet(freePages) = {}
        /\ new.slot = r.slot /\ new.handle = r.handle /\ new.cached = r.device
    BY <1>4, <1>5, <1>8, <1>11, <1>12, <1>15, <1>18
  <2>2. QED BY <2>1, RowGrows
<1>20. IsPrefix(new.handle, ReqKey(new))
  <2>1. token \in Alphabet BY DEF Alphabet
  <2>2. SubSeq(Append(r.ids, token), 1, r.device) = r.ids BY <1>4, <2>1
  <2>3. ReqKey(new) = Key(r.ids) BY <1>15, <2>2 DEF ReqKey
  <2>4. r.cached \in 0..Len(r.ids) BY <1>4
  <2>5. SubSeq(r.ids, 1, r.cached) \in Seq(Alphabet) /\ IsPrefix(SubSeq(r.ids, 1, r.cached), r.ids)
    BY <1>4, <2>4, FirstPart
  <2>6. IsPrefix(ReqKey(r), Key(r.ids)) BY <1>4, <2>5, KeyExtends DEF ReqKey
  <2>7. r.handle \in Seq(Block) /\ ReqKey(r) \in Seq(Block) /\ Key(r.ids) \in Seq(Block)
    BY <1>2, <1>3, <1>4, ReqKeyType, KeyType DEF r, Block, Request
  <2>8. IsPrefix(r.handle, Key(r.ids)) BY <1>5, <2>6, <2>7, PrefixTransitive
  <2>9. QED BY <1>15, <2>3, <2>8
<1>21. \A d \in Running \ {c} : /\ reqs[d].slot # r.slot /\ reqs[d].slot \in Slot
                                /\ pageTable'[reqs[d].slot] = pageTable[reqs[d].slot]
  BY <1>2, <1>3, <1>13 DEF RowsInv, RowOK, r
<1>22. \A d \in Running \ {c} : RowOK(pageTable', reqs[d]) /\ Owned(pageTable', reqs[d]) = Owned(pageTable, reqs[d])
  BY <1>2, <1>21 DEF RowsInv, RowOK, Owned
<1>23. RowsInv'
  <2>1. \A d \in Running' : RowOK(pageTable', reqs'[d]) /\ IsPrefix(reqs'[d].handle, ReqKey(reqs'[d]))
    BY <1>2, <1>17, <1>19, <1>20, <1>22 DEF RowsInv
  <2>2. \A d, e \in Running' : reqs'[d].slot = reqs'[e].slot => d = e
    BY <1>2, <1>15, <1>17, <1>21 DEF RowsInv
  <2>3. tree'.page \in [Covered(tree)' -> Page] BY <1>2, <1>13 DEF RowsInv
  <2>4. QED BY <1>12, <1>14, <2>1, <2>2, <2>3 DEF RowsInv, ReqKey
<1>24. LocksInv' BY <1>2, ForwardLocks
<1>25. /\ \A d \in Running : OwnedNow[d] = Owned(pageTable, reqs[d])
       /\ \A d \in Reqs \ Running : OwnedNow[d] = {}
       /\ \A d \in Running' : OwnedNow'[d] = Owned(pageTable', reqs'[d])
       /\ \A d \in Reqs \ Running' : OwnedNow'[d] = {}
  BY <1>2, <1>23, <1>24, OwnedOfRequest, OwnedOfRequestNext DEF OwnedOK
<1>26. OwnedNow'[c] = OwnedNow[c] \cup pages BY <1>3, <1>17, <1>19, <1>25 DEF r
<1>27. \A d \in Reqs \ {c} : OwnedNow'[d] = OwnedNow[d] BY <1>17, <1>22, <1>25
<1>28. HeldNow' = HeldNow
  <2>1. \A d \in Reqs : reqs'[d] = NoReq <=> reqs[d] = NoReq BY <1>1, <1>3, <1>15, <1>16
  <2>2. \A d \in Reqs : reqs'[d].handle = reqs[d].handle BY <1>3, <1>15, <1>16 DEF r
  <2>3. QED BY <2>1, <2>2 DEF HeldNow
<1>29. QED BY <1>3, <1>12, <1>13, <1>23, <1>26, <1>27, <1>28

(* A forward pass is a Take.                                               *)
LEMMA ForwardPages ==
  ASSUME PagesInv, NEW c \in Reqs, NEW token \in Tokens, Forward(c, token)
  PROVE  PagesInv' /\ Abstract!Take
<1>1. /\ RowsInv' /\ HeldNow' = HeldNow /\ tree'.page = tree.page /\ c \in Running
      /\ \A d \in Reqs \ {c} : OwnedNow'[d] = OwnedNow[d]
  BY ForwardRows
<1>2. PICK pages : /\ pages \subseteq ToSet(freePages)
                   /\ ToSet(freePages') = ToSet(freePages) \ pages
                   /\ OwnedNow'[c] = OwnedNow[c] \cup pages
  BY ForwardRows
<1>3. \A d \in Reqs : OwnedNow[d] \cap ToSet(freePages) = {}
  <2>1. OwnedOK BY OwnedOfRequest DEF PagesInv
  <2>2. QED BY <2>1, PlacesApart DEF PagesInv, OwnedOK
<1>4. ToSet(freePages') = ToSet(freePages) \ UNION {OwnedNow'[d] : d \in Reqs}
  BY <1>1, <1>2, <1>3
<1>5. \A d \in Reqs \ Abstract!Active : OwnedNow'[d] = OwnedNow[d]
  BY <1>1, ActiveIsRunning DEF PagesInv
<1>6. \A d \in Reqs : OwnedNow[d] \subseteq OwnedNow'[d] /\ OwnedNow'[d] \ OwnedNow[d] \subseteq ToSet(freePages)
  BY <1>1, <1>2
<1>7. \A d, e \in Reqs : d # e => (OwnedNow'[d] \ OwnedNow[d]) \cap (OwnedNow'[e] \ OwnedNow[e]) = {}
  BY <1>1
<1>8. OwnedNow' = [d \in Reqs |-> OwnedNow'[d]] BY DEF OwnedNow
<1>9. Abstract!Take
  BY <1>1, <1>4, <1>5, <1>6, <1>7, <1>8 DEF Abstract!Take, HeldNow, OwnedNow
<1>10. LocksInv' BY ForwardLocks DEF PagesInv
<1>11. Store!StoreInv' BY <1>9, SameTake, Store!StoreTake DEF PagesInv
<1>12. QED BY <1>1, <1>9, <1>10, <1>11 DEF PagesInv

(* cache_req is a Settle, when the request goes on and when it ends.       *)
LEMMA CacheReqSettles ==
  ASSUME PagesInv, NEW c \in Running, NEW finished \in BOOLEAN, CacheReq(reqs[c], finished),
         OwnedNow' = [OwnedNow EXCEPT ![c] = IF finished THEN {} ELSE Remainder(reqs[c])],
         HeldNow' = [HeldNow EXCEPT ![c] = IF finished THEN NoReq ELSE ReqKey(reqs[c])]
  PROVE  \E k \in DOMAIN tree'.page \cup {<<>>} : Abstract!Settle(c, k)
<1>1. PICK k : k = ReqKey(reqs[c]) OBVIOUS
<1>2. PICK r : r = reqs[c] OBVIOUS
<1>3. PICK own : own = Owned(pageTable, r) OBVIOUS
<1>4. PICK added : added = Added(r) OBVIOUS
<1>5. PICK left : left = IF finished THEN {} ELSE Remainder(r) OBVIOUS
<1>6. /\ LocksInv /\ RowsInv /\ Store!StoreInv BY DEF PagesInv
<1>7. /\ c \in Reqs /\ k \in Seq(Block) /\ Cacheable(r, Block) /\ ReqKey(r) = k
  BY <1>1, <1>2, <1>6, ReqKeyType, RequestCacheable
<1>8. /\ WellShaped(tree, Block) /\ freePages \in Seq(Page) /\ pageTable \in [Slot -> Seq(Page)]
      /\ tree.page \in [Covered(tree) -> Page]
  BY <1>6 DEF LocksInv, RowsInv
<1>9. /\ added \subseteq own /\ left \subseteq own \ added
      /\ ToSet(freePages') = ToSet(freePages) \cup (own \ (added \cup left))
  <2>1. CacheReq(r, finished) BY <1>2
  <2>2. LET kept == Added(r) \cup IF finished THEN {} ELSE Remainder(r)
        IN  /\ Added(r) \subseteq Owned(pageTable, r)
            /\ Remainder(r) \subseteq Owned(pageTable, r) \ Added(r)
            /\ ToSet(freePages') = ToSet(freePages) \cup (Owned(pageTable, r) \ kept)
    BY <1>7, <1>8, <2>1, CacheReqFrees
  <2>3. QED BY <1>3, <1>4, <1>5, <2>2
<1>10. /\ DOMAIN tree'.page = DOMAIN tree.page \cup KeysOf(k)
       /\ \A q \in DOMAIN tree.page : tree'.page[q] = tree.page[q]
       /\ {tree'.page[q] : q \in KeysOf(k) \ DOMAIN tree.page} = added
       /\ \A q, s \in KeysOf(k) \ DOMAIN tree.page : tree'.page[q] = tree'.page[s] => q = s
  <2>1. CacheReq(r, finished) BY <1>2
  <2>2. Stores(r, Page) BY <1>7, <1>8, <2>1, CacheReqStores
  <2>3. QED BY <1>4, <1>7, <2>2 DEF Stores, Covered
<1>11. OwnedNow[c] = own /\ HeldNow[c] = r.handle /\ c \in Abstract!Active
  BY <1>2, <1>3, <1>6, OwnedOfRequest, ActiveIsRunning DEF OwnedOK
<1>12. OwnedNow' = [OwnedNow EXCEPT ![c] = left] /\ OwnedNow'[c] = left
  BY <1>2, <1>5, <1>7 DEF OwnedNow
<1>13. \/ HeldNow' = [HeldNow EXCEPT ![c] = k] /\ k # NoReq
       \/ HeldNow' = [HeldNow EXCEPT ![c] = NoReq] /\ OwnedNow'[c] = {}
  BY <1>1, <1>5, <1>7, <1>12, ReqsAssumption
<1>14. Abstract!IsPrefix(HeldNow[c], k)
  BY <1>7, <1>11 DEF Cacheable, IsPrefix, Abstract!IsPrefix
<1>15. Abstract!Settle(c, k)
  <2>1. \A q \in DOMAIN tree.page \cap DOMAIN tree'.page : tree'.page[q] = tree.page[q] BY <1>10
  <2>2. ToSet(freePages)' = ToSet(freePages) \cup (OwnedNow[c] \ (added \cup OwnedNow'[c]))
    BY <1>9, <1>11, <1>12
  <2>3. OwnedNow'[c] \subseteq OwnedNow[c] \ added /\ added \subseteq OwnedNow[c]
    BY <1>9, <1>11, <1>12
  <2>4. OwnedNow' = [OwnedNow EXCEPT ![c] = OwnedNow'[c]] BY <1>12
  <2>5. Abstract!Above(k) = KeysOf(k) BY AboveIsKeys
  <2>6. QED BY <1>10, <1>11, <1>13, <1>14, <2>1, <2>2, <2>3, <2>4, <2>5
    DEF Abstract!Settle, Abstract!Keys, Abstract!Kept, HeldNow, OwnedNow
<1>16. k \in DOMAIN tree'.page \cup {<<>>}
  <2>1. /\ KeysOf(k) = {SubSeq(k, 1, i) : i \in 1..Len(k)} /\ SubSeq(k, 1, Len(k)) = k
    BY <1>7, KeysOfKey, SubSeqFull
  <2>2. k # <<>> => Len(k) \in 1..Len(k) BY <1>7, EmptySeq
  <2>3. k # <<>> => k \in KeysOf(k) BY <2>1, <2>2
  <2>4. QED BY <1>10, <2>3
<1>17. QED BY <1>15, <1>16

(* cache_req leaves the other rows, and the lists, in order.               *)
LEMMA CacheReqRows ==
  ASSUME PagesInv, NEW c \in Running, NEW finished \in BOOLEAN, CacheReq(reqs[c], finished)
  PROVE  /\ freePages' \in Seq(Page) /\ IsInjective(freePages')
         /\ tree'.page \in [Covered(tree)' -> Page]
         /\ pageTable' = pageTable /\ Cacheable(reqs[c], Block)
<1>1. PICK r : r = reqs[c] OBVIOUS
<1>2. /\ LocksInv /\ RowsInv /\ Store!StoreInv BY DEF PagesInv
<1>3. Cacheable(r, Block) BY <1>1, <1>2, RequestCacheable
<1>4. /\ WellShaped(tree, Block) /\ freePages \in Seq(Page) /\ pageTable \in [Slot -> Seq(Page)]
      /\ tree.page \in [Covered(tree) -> Page] /\ IsInjective(freePages)
  BY <1>2 DEF LocksInv, RowsInv
<1>5. CacheReq(r, finished) BY <1>1
<1>6. ToSet(freePages) \cap Owned(pageTable, r) = {} BY <1>1, <1>2, PlacesApart
<1>7. freePages' \in Seq(Page) /\ IsInjective(freePages')
  BY <1>3, <1>4, <1>5, <1>6, CacheReqFrees
<1>8. Stores(r, Page) BY <1>3, <1>4, <1>5, CacheReqStores
<1>9. QED BY <1>1, <1>3, <1>5, <1>7, <1>8 DEF Stores, CacheReq

(* A request that is cached and goes on holds its new key.                 *)
LEMMA CachePromptPages ==
  ASSUME PagesInv, NEW c \in Reqs, CachePrompt(c)
  PROVE  PagesInv' /\ \E k \in DOMAIN tree'.page \cup {<<>>} : Abstract!Settle(c, k)
<1> DEFINE r == reqs[c]
           key == ReqKey(reqs[c])
           new == [r EXCEPT !.handle = key]
<1>1. /\ c \in Running /\ CacheReq(reqs[c], FALSE)
      /\ reqs' = [reqs EXCEPT ![c].handle = key]
  BY DEF CachePrompt, Computed, Running
<1>2. LocksInv /\ RowsInv BY DEF PagesInv
<1>3. key \in Seq(Block) /\ r \in Request BY <1>1, <1>2, ReqKeyType
<1>4. /\ freePages' \in Seq(Page) /\ IsInjective(freePages')
      /\ tree'.page \in [Covered(tree)' -> Page]
      /\ pageTable' = pageTable /\ Cacheable(r, Block)
  BY <1>1, CacheReqRows
<1> HIDE DEF key
<1>5. /\ new \in Request /\ new.handle = key /\ new.cached = r.cached /\ new.slot = r.slot
      /\ new.device = r.device /\ new.ids = r.ids
  BY <1>3 DEF Request
<1>6. reqs' = [reqs EXCEPT ![c] = new] BY <1>1
<1> HIDE DEF new
<1>7. /\ Running' = Running /\ reqs'[c] = new /\ \A d \in Running \ {c} : reqs'[d] = reqs[d]
  BY <1>1, <1>2, <1>5, <1>6, ReqsAssumption DEF LocksInv, ReqsOK, Running
<1>8. RowOK(pageTable', new) /\ Owned(pageTable', new) = Remainder(r)
  <2>1. WellShaped(tree, Block) BY <1>2 DEF LocksInv
  <2>2. new.handle = ReqKey(r) BY <1>5 DEF key
  <2>3. QED BY <1>4, <1>5, <2>1, <2>2, RowSettles
<1>9. IsPrefix(new.handle, ReqKey(new))
  <2>1. ReqKey(new) = key BY <1>5 DEF ReqKey, key
  <2>2. QED BY <1>3, <1>5, <2>1, PrefixReflexive
<1>10. RowsInv'
  <2>1. \A d \in Running' : RowOK(pageTable', reqs'[d]) /\ IsPrefix(reqs'[d].handle, ReqKey(reqs'[d]))
    BY <1>2, <1>4, <1>7, <1>8, <1>9 DEF RowsInv
  <2>2. \A d, e \in Running' : reqs'[d].slot = reqs'[e].slot => d = e
    BY <1>1, <1>2, <1>5, <1>7 DEF RowsInv
  <2>3. pageTable' \in [Slot -> Seq(Page)] BY <1>2, <1>4 DEF RowsInv
  <2>4. QED BY <1>4, <2>1, <2>2, <2>3 DEF RowsInv, ReqKey
<1>11. LocksInv' BY <1>2, CachePromptLocks
<1>12. /\ \A d \in Running : OwnedNow[d] = Owned(pageTable, reqs[d])
       /\ \A d \in Reqs \ Running : OwnedNow[d] = {}
       /\ \A d \in Running' : OwnedNow'[d] = Owned(pageTable', reqs'[d])
       /\ \A d \in Reqs \ Running' : OwnedNow'[d] = {}
  BY <1>2, <1>10, <1>11, OwnedOfRequest, OwnedOfRequestNext DEF OwnedOK
<1>13. OwnedNow' = [OwnedNow EXCEPT ![c] = Remainder(r)]
  <2>1. \A d \in Reqs : OwnedNow'[d] = IF d = c THEN Remainder(r) ELSE OwnedNow[d]
    BY <1>1, <1>4, <1>7, <1>8, <1>12
  <2>2. QED BY <2>1 DEF OwnedNow
<1>14. HeldNow' = [HeldNow EXCEPT ![c] = key]
  <2>1. \A d \in Reqs : HeldNow'[d] = IF d = c THEN key ELSE HeldNow[d]
    BY <1>1, <1>5, <1>7 DEF HeldNow, Running
  <2>2. QED BY <2>1 DEF HeldNow
<1>15. PICK k \in DOMAIN tree'.page \cup {<<>>} : Abstract!Settle(c, k)
  <2>1. /\ OwnedNow' = [OwnedNow EXCEPT ![c] = IF FALSE THEN {} ELSE Remainder(reqs[c])]
        /\ HeldNow' = [HeldNow EXCEPT ![c] = IF FALSE THEN NoReq ELSE ReqKey(reqs[c])]
    BY <1>13, <1>14 DEF key
  <2>2. QED BY <1>1, <2>1, CacheReqSettles
<1>16. Store!StoreInv'
  <2>1. Store!Settle(c, k) BY <1>15, SameSettle
  <2>2. QED BY <2>1, Store!StoreSettle DEF PagesInv
<1>17. QED BY <1>10, <1>11, <1>15, <1>16 DEF PagesInv

(* A request that ends holds nothing and owns nothing.                     *)
LEMMA FinishPages ==
  ASSUME PagesInv, NEW c \in Reqs, Finish(c)
  PROVE  PagesInv' /\ \E k \in DOMAIN tree'.page \cup {<<>>} : Abstract!Settle(c, k)
<1>1. /\ c \in Running /\ CacheReq(reqs[c], TRUE) /\ reqs' = [reqs EXCEPT ![c] = NoReq]
  BY DEF Finish, Computed, Running
<1>2. LocksInv /\ RowsInv BY DEF PagesInv
<1>3. /\ freePages' \in Seq(Page) /\ IsInjective(freePages')
      /\ tree'.page \in [Covered(tree)' -> Page]
      /\ pageTable' = pageTable
  BY <1>1, CacheReqRows
<1>4. /\ Running' = Running \ {c} /\ reqs'[c] = NoReq /\ \A d \in Running \ {c} : reqs'[d] = reqs[d]
  BY <1>1, <1>2 DEF LocksInv, ReqsOK, Running
<1>5. RowsInv'
  <2>1. \A d \in Running' : RowOK(pageTable', reqs'[d]) /\ IsPrefix(reqs'[d].handle, ReqKey(reqs'[d]))
    BY <1>2, <1>3, <1>4 DEF RowsInv
  <2>2. \A d, e \in Running' : reqs'[d].slot = reqs'[e].slot => d = e
    BY <1>2, <1>4 DEF RowsInv
  <2>3. pageTable' \in [Slot -> Seq(Page)] BY <1>2, <1>3 DEF RowsInv
  <2>4. QED BY <1>3, <2>1, <2>2, <2>3 DEF RowsInv, ReqKey
<1>6. LocksInv' BY <1>2, FinishLocks
<1>7. OwnedNow' = [OwnedNow EXCEPT ![c] = {}]
  <2>1. \A d \in Reqs : OwnedNow'[d] = IF d = c THEN {} ELSE OwnedNow[d]
    BY <1>1, <1>3, <1>4 DEF OwnedNow, Private, Running
  <2>2. QED BY <2>1 DEF OwnedNow
<1>8. HeldNow' = [HeldNow EXCEPT ![c] = NoReq]
  <2>1. \A d \in Reqs : HeldNow'[d] = IF d = c THEN NoReq ELSE HeldNow[d]
    BY <1>1, <1>4 DEF HeldNow, Running
  <2>2. QED BY <2>1 DEF HeldNow
<1>9. PICK k \in DOMAIN tree'.page \cup {<<>>} : Abstract!Settle(c, k)
  <2>1. /\ OwnedNow' = [OwnedNow EXCEPT ![c] = IF TRUE THEN {} ELSE Remainder(reqs[c])]
        /\ HeldNow' = [HeldNow EXCEPT ![c] = IF TRUE THEN NoReq ELSE ReqKey(reqs[c])]
    BY <1>7, <1>8
  <2>2. QED BY <1>1, <2>1, CacheReqSettles
<1>10. Store!StoreInv'
  <2>1. Store!Settle(c, k) BY <1>9, SameSettle
  <2>2. QED BY <2>1, Store!StoreSettle DEF PagesInv
<1>11. QED BY <1>5, <1>6, <1>9, <1>10 DEF PagesInv

(* A step that changes nothing changes nothing of the store.               *)
LEMMA PagesStutter == ASSUME PagesInv, UNCHANGED vars PROVE PagesInv' /\ UNCHANGED Abstract!vars
<1>1. /\ tree' = tree /\ reqs' = reqs /\ freePages' = freePages /\ pageTable' = pageTable
  BY DEF vars
<1>2. LocksInv' BY LocksStutter DEF PagesInv
<1>3. OwnedNow' = OwnedNow /\ HeldNow' = HeldNow BY <1>1 DEF OwnedNow, HeldNow, Private
<1>4. UNCHANGED Store!vars BY <1>1, <1>3 DEF Store!vars, OwnedNow, HeldNow
<1>5. UNCHANGED Abstract!vars BY <1>1, <1>3 DEF Abstract!vars, OwnedNow, HeldNow
<1>6. Store!StoreInv' BY <1>4, Store!StoreStutters DEF PagesInv
<1>7. RowsInv' BY <1>1 DEF PagesInv, RowsInv, Running, Covered, ReqKey
<1>8. QED BY <1>2, <1>5, <1>6, <1>7 DEF PagesInv

(* Every step keeps the invariant and is a step of the store, or a         *)
(* stutter.                                                                *)
LEMMA PagesStep == PagesInv /\ [Next]_vars => PagesInv' /\ [Abstract!Next]_(Abstract!vars)
<1> SUFFICES ASSUME PagesInv, [Next]_vars PROVE PagesInv' /\ [Abstract!Next]_(Abstract!vars)
  OBVIOUS
<1>1. ASSUME NEW c \in Reqs, NEW prompt \in Prompts, NEW s \in Slot, Start(c, prompt, s)
      PROVE  PagesInv' /\ Abstract!Next
  BY <1>1, StartPages DEF Abstract!Next
<1>2. ASSUME NEW c \in Reqs, NEW prompt \in Prompts, Refuse(c, prompt)
      PROVE  PagesInv' /\ UNCHANGED Abstract!vars
  BY <1>2, RefusePages
<1>3. ASSUME NEW c \in Reqs, Evict(c) PROVE PagesInv' /\ Abstract!Next
  BY <1>3, EvictDrops DEF Abstract!Next
<1>4. ASSUME NEW c \in Reqs, NEW token \in Tokens, Forward(c, token) PROVE PagesInv' /\ Abstract!Next
  BY <1>4, ForwardPages DEF Abstract!Next
<1>5. ASSUME NEW c \in Reqs, CachePrompt(c) PROVE PagesInv' /\ Abstract!Next
  BY <1>5, CachePromptPages DEF Abstract!Next
<1>6. ASSUME NEW c \in Reqs, Finish(c) PROVE PagesInv' /\ Abstract!Next
  BY <1>6, FinishPages DEF Abstract!Next
<1>7. CASE UNCHANGED vars BY <1>7, PagesStutter
<1>8. QED BY <1>1, <1>2, <1>3, <1>4, <1>5, <1>6, <1>7 DEF Next

(* So the invariant of the pages holds in every state.                     *)
LEMMA PagesInvariant == Spec => []PagesInv
<1>1. Init => PagesInv BY LocksInit, RowsInit DEF PagesInv
<1>2. QED BY <1>1, PagesStep, PTL DEF Spec

(* The first state is the first state of the store.                        *)
LEMMA AbstractInit == Init => Abstract!Init
<1> SUFFICES ASSUME Init PROVE Abstract!Init OBVIOUS
<1>1. PagesInv BY LocksInit, RowsInit DEF PagesInv
<1>2. \A c \in Reqs : reqs[c] = NoReq BY DEF Init
<1>3. HeldNow = [c \in Reqs |-> NoReq] /\ OwnedNow = [c \in Reqs |-> {}]
  BY <1>2 DEF HeldNow, OwnedNow
<1>4. tree.page = <<>> BY DEF Init, CacheInit, EmptyTree
<1>5. ToSet(freePages) = Page
  <2>1. freePages = [i \in 1..NumPages |-> i - 1] BY DEF Init, CacheInit
  <2>2. \A p \in Page : p + 1 \in 1..NumPages /\ (p + 1) - 1 = p BY NumPagesAssumption DEF Page
  <2>3. \A i \in 1..NumPages : i - 1 \in Page BY NumPagesAssumption DEF Page
  <2>4. QED BY <2>1, <2>2, <2>3 DEF ToSet
<1>6. QED BY <1>3, <1>4, <1>5 DEF Abstract!Init, HeldNow, OwnedNow

(* The cache manager implements the prefix store, for any number of        *)
(* requests, pages, rows and tokens: match, lock, allocate, cache and      *)
(* evict each are one step of it or change nothing it can see.             *)
THEOREM ImplementsHolds == Spec => ImplementsPrefixStore
<1>1. PagesInv /\ [Next]_vars => [Abstract!Next]_(Abstract!vars) BY PagesStep
<1>2. QED BY AbstractInit, PagesInvariant, <1>1, PTL DEF Spec, ImplementsPrefixStore, Abstract!Spec

(* No page is lost or held twice, for any number of requests, pages and    *)
(* rows: each page is once in the free list, or cached under one key, or   *)
(* once in the private part of one running request, through duplicates,    *)
(* partly filled pages, evictions and ends (cache_req, _allocate, _free).  *)
THEOREM PagesPartitionHolds == Spec => []PagesPartition
<1>1. ASSUME PagesInv PROVE PagesPartition
  <2> DEFINE private == [c \in Running |-> Private(c)]
             parts == [c \in Running |-> ToSet(Private(c))]
             own == UNION Range(parts)
  <2>1. /\ ToSet(freePages) \cup {tree.page[q] : q \in Covered(tree)}
             \cup UNION {OwnedNow[c] : c \in Reqs} = Page
        /\ \A c \in Reqs : \A p \in OwnedNow[c] :
             p \notin ToSet(freePages) /\ \A q \in Covered(tree) : tree.page[q] # p
        /\ \A c, d \in Reqs : c # d => OwnedNow[c] \cap OwnedNow[d] = {}
    <3>1. Store!OnePlace BY <1>1 DEF PagesInv, Store!StoreInv
    <3>2. QED BY <3>1 DEF Store!OnePlace, Store!Keys, OwnedNow, Covered
  <2>2. /\ IsInjective(freePages) /\ IsInjective(tree.page)
        /\ \A q \in Covered(tree) : tree.page[q] \notin ToSet(freePages)
    BY <1>1, PlacesApart DEF PagesInv, RowsInv
  <2>3. Range(tree.page) = {tree.page[q] : q \in Covered(tree)} BY DEF Range, Covered
  <2>4. /\ \A c \in Running : parts[c] = OwnedNow[c] /\ c \in Reqs /\ IsInjective(private[c])
        /\ \A c \in Reqs \ Running : OwnedNow[c] = {}
    BY <1>1, OwnedOfRequest DEF PagesInv, OwnedOK, Running
  <2>5. own = UNION {OwnedNow[c] : c \in Reqs}
    <3>1. own = UNION {parts[c] : c \in Running} BY DEF Range
    <3>2. QED BY <2>4, <3>1
  <2>6. [c \in DOMAIN private |-> ToSet(private[c])] = parts /\ DOMAIN private = Running OBVIOUS
  <2> HIDE DEF private, parts, own
  <2>7. EachPageOnce(private)
    <3>1. own \cap (ToSet(freePages) \cup Range(tree.page)) = {} BY <2>1, <2>3, <2>5
    <3>2. ToSet(freePages) \cap Range(tree.page) = {} BY <2>2, <2>3
    <3>3. ToSet(freePages) \cup Range(tree.page) \cup own = Page BY <2>1, <2>3, <2>5
    <3>4. \A c, d \in Running : c # d => parts[c] \cap parts[d] = {} BY <2>1, <2>4
    <3>5. QED BY <2>2, <2>4, <2>6, <3>1, <3>2, <3>3, <3>4 DEF EachPageOnce, own
  <2>8. QED BY <2>7 DEF PagesPartition, private
<1>2. QED BY PagesInvariant, <1>1, PTL

----------------------------------------------------------------------------
(* The sizes and the types of the tree, in every state.                    *)
TreeInv == Sized(tree) /\ Typed(tree)

LEMMA TreeInit == Init => TreeInv
<1> SUFFICES ASSUME Init PROVE TreeInv OBVIOUS
<1>1. /\ Nodes(tree) = {} /\ Covered(tree) = {}
      /\ tree.ref = <<>> /\ tree.ts = <<>> /\ tree.span = <<>>
      /\ tree.evictable = 0 /\ tree.protected = 0
  BY DEF Init, CacheInit, EmptyTree, Nodes, Covered
<1>2. FreeKeys(tree) = {} /\ HeldKeys(tree) = {} BY <1>1 DEF FreeKeys, HeldKeys
<1>3. Sized(tree) BY <1>1, <1>2, FS_EmptySet DEF Sized
<1>4. Typed(tree) BY <1>1, FS_EmptySet DEF Typed
<1>5. QED BY <1>3, <1>4 DEF TreeInv

(* The prompts are looked up by keys over the blocks.                      *)
LEMMA PromptKey == ASSUME NEW prompt \in Prompts PROVE MatchKey(prompt) \in Seq(Block)
<1>1. prompt \in Seq(Alphabet) /\ Len(prompt) \in Nat \ {0} BY PromptsAssumption, EmptySeq
<1>2. QED BY <1>1, FirstTokens DEF MatchKey, Block

(* What cache_req needs to know of a running request.                      *)
LEMMA RequestReady ==
  ASSUME PagesInv, NEW c \in Running
  PROVE  /\ WellShaped(tree, Block) /\ Counted(tree, Running, HandleOf)
         /\ reqs[c].handle = HandleOf[c] /\ ReqKey(reqs[c]) \in Seq(Block)
         /\ reqs[c].handle \in Seq(Block) /\ IsPrefix(reqs[c].handle, ReqKey(reqs[c]))
         /\ Cacheable(reqs[c], Block)
<1>1. LocksInv /\ RowsInv BY DEF PagesInv
<1>2. Cacheable(reqs[c], Block) BY <1>1, RequestCacheable
<1>3. HandleOf[c] = reqs[c].handle BY DEF HandleOf, Running
<1>4. QED BY <1>1, <1>2, <1>3 DEF Cacheable, LocksInv

LEMMA TreeStep == PagesInv /\ TreeInv /\ [Next]_vars => TreeInv'
<1> SUFFICES ASSUME PagesInv, TreeInv, [Next]_vars PROVE TreeInv' OBVIOUS
<1>0. WellShaped(tree, Block) /\ Sized(tree) /\ Typed(tree) BY DEF PagesInv, LocksInv, TreeInv
<1>1. ASSUME NEW c \in Reqs, NEW prompt \in Prompts, NEW s \in Slot, Start(c, prompt, s)
      PROVE  TreeInv'
  <2> DEFINE w == Walk(tree, MatchKey(prompt))
  <2>1. tree' = LockHandle(w, Matched(tree, MatchKey(prompt))) BY <1>1 DEF Start
  <2>2. WellShaped(w, Block) /\ Sized(w) /\ Typed(w)
    BY <1>0, PromptKey, WalkShape, WalkSized, WalkTyped
  <2> HIDE DEF w
  <2>3. QED BY <2>1, <2>2, LockSized, LockTyped DEF TreeInv
<1>2. ASSUME NEW c \in Reqs, NEW prompt \in Prompts, Refuse(c, prompt) PROVE TreeInv'
  BY <1>0, <1>2, PromptKey, WalkSized, WalkTyped DEF Refuse, TreeInv
<1>3. ASSUME NEW c \in Reqs, Evict(c) PROVE TreeInv'
  <2>1. PICK n \in FreeLeaves(tree) : tree' = RemoveLeaf(tree, n)
    BY <1>3 DEF Evict, EvictOne, OldestLeaves
  <2>2. n \in Nodes(tree) BY DEF FreeLeaves
  <2>3. QED BY <1>0, <2>1, <2>2, RemoveLeafSized, RemoveLeafTyped DEF TreeInv
<1>4. ASSUME NEW c \in Reqs, NEW token \in Tokens, Forward(c, token) PROVE TreeInv'
  BY <1>4 DEF Forward, AllocatePaged, TreeInv
<1>5. ASSUME NEW c \in Running, NEW finished \in BOOLEAN, CacheReq(reqs[c], finished)
      PROVE  TreeInv'
  <2>1. tree' = CacheReqTree(reqs[c], finished) BY <1>5 DEF CacheReq
  <2>2. PICK r : r = reqs[c] OBVIOUS
  <2>3. /\ Counted(tree, Running, HandleOf) /\ r.handle = HandleOf[c] /\ ReqKey(r) \in Seq(Block)
    BY <2>2, RequestReady
  <2>4. Sized(CacheReqTree(r, finished)) /\ Typed(CacheReqTree(r, finished))
    BY <1>0, <2>3, CacheReqSizes
  <2>5. QED BY <2>1, <2>2, <2>4 DEF TreeInv
<1>6. ASSUME NEW c \in Reqs, CachePrompt(c) PROVE TreeInv'
  BY <1>5, <1>6 DEF CachePrompt, Computed, Running
<1>7. ASSUME NEW c \in Reqs, Finish(c) PROVE TreeInv'
  BY <1>5, <1>7 DEF Finish, Computed, Running
<1>8. CASE UNCHANGED vars BY <1>8 DEF vars, TreeInv
<1>9. QED BY <1>1, <1>2, <1>3, <1>4, <1>6, <1>7, <1>8 DEF Next

LEMMA TreeInvariant == Spec => [](PagesInv /\ TreeInv)
<1>1. Init => TreeInv BY TreeInit
<1>2. QED BY <1>1, TreeStep, PagesInvariant, PTL DEF Spec

(* Everything keeps its type, and a request never has more computed tokens *)
(* than tokens, nor more pages in use than its row holds.                  *)
THEOREM TypeOKHolds == Spec => []TypeOK
<1>1. PagesInv /\ TreeInv => TypeOK
  <2> SUFFICES ASSUME PagesInv, TreeInv PROVE TypeOK OBVIOUS
  <2>1. Paths = Covered(tree) BY DEF PagesInv, LocksInv, WellShaped, Tree, Paths
  <2>2. \A c \in Running : PagesFor(reqs[c].cached) <= Len(pageTable[reqs[c].slot])
    BY DEF PagesInv, RowsInv, RowOK
  <2>3. QED BY <2>1, <2>2 DEF TypeOK, PagesInv, LocksInv, ReqsOK, RowsInv, TreeInv, Typed
<1>2. QED BY <1>1, TreeInvariant, PTL

(* evictable_size and protected_size, moved by lock_handle, insert_prefix  *)
(* and evict a node at a time, always equal what a walk over the tree      *)
(* would count.                                                            *)
THEOREM SizesExactHolds == Spec => []SizesExact
<1>1. PagesInv /\ TreeInv => SizesExact
  BY SizedByWalk DEF PagesInv, LocksInv, TreeInv, SizesExact
<1>2. QED BY <1>1, TreeInvariant, PTL

----------------------------------------------------------------------------
(* The pages that the running requests may still ask for.                  *)

(* What a running request may still ask for.                               *)
Needs == [c \in Running |-> PagesFor(MaxLen) - PagesFor(reqs[c].cached)]
NeedOf(c) == IF reqs[c] = NoReq THEN 0 ELSE PagesFor(MaxLen) - PagesFor(reqs[c].cached)

(* No request grows beyond the bound.                                      *)
Bounded == /\ ReqsOK
           /\ \A c \in Running : reqs[c].device <= MaxLen

(* What the requests may still ask for is a number of pages each.          *)
LEMMA NeedsType ==
  ASSUME Bounded
  PROVE  /\ Needs \in [Running -> 0..PagesFor(MaxLen)] /\ PagesFor(MaxLen) \in Nat
         /\ IsFiniteSet(Running)
<1>1. MaxLen \in Nat BY MaxLenAssumption
<1>2. PagesFor(MaxLen) \in Nat BY <1>1, PagesForTokens
<1>3. IsFiniteSet(Running) BY ReqsAssumption, FS_Subset DEF Running
<1>4. ASSUME NEW c \in Running PROVE PagesFor(MaxLen) - PagesFor(reqs[c].cached) \in 0..PagesFor(MaxLen)
  <2>1. reqs[c] \in Request BY DEF Bounded, ReqsOK, Running
  <2>2. /\ reqs[c].cached \in Nat /\ reqs[c].device \in Nat
        /\ reqs[c].cached < reqs[c].device /\ reqs[c].device <= MaxLen
    BY <2>1 DEF Bounded, ReqsOK, Request
  <2>3. PICK n \in Nat : n = reqs[c].cached BY <2>2
  <2>4. n <= MaxLen BY <1>1, <2>2, <2>3
  <2>5. PagesFor(n) \in Nat /\ PagesFor(n) <= PagesFor(MaxLen)
    BY <1>1, <2>4, PagesForTokens, PagesForOrder
  <2>6. QED BY <1>2, <2>3, <2>5
<1>5. QED BY <1>2, <1>3, <1>4 DEF Needs

(* Reserved is the number of these units.                                  *)
LEMMA ReservedUnits == Bounded => Reserved = Cardinality(Units(Needs, Running))
<1> SUFFICES ASSUME Bounded PROVE Reserved = Cardinality(Units(Needs, Running)) OBVIOUS
<1> DEFINE S == Running
           v == Needs
           g == [s \in SUBSET S |-> Cardinality(Units(v, s))]
           Is(h) == h = [s \in SUBSET S |->
                           IF s = {} THEN 0
                           ELSE (PagesFor(MaxLen) - PagesFor(reqs[CHOOSE x \in s : TRUE].cached))
                                + h[s \ {CHOOSE x \in s : TRUE}]]
           i == CHOOSE h : Is(h)
<1>1. /\ v \in [S -> 0..PagesFor(MaxLen)] /\ PagesFor(MaxLen) \in Nat /\ IsFiniteSet(S)
  BY NeedsType
<1>2. Summing(g, v, S)
  <2>1. g[{}] = 0
    <3>1. Units(v, {}) = {} BY DEF Units
    <3>2. QED BY <3>1, FS_EmptySet
  <2>2. ASSUME NEW s \in SUBSET S, NEW x \in s PROVE g[s] = v[x] + g[s \ {x}]
    <3>1. Cardinality(Units(v, s)) = v[x] + Cardinality(Units(v, s \ {x}))
      <4> HIDE DEF S, v
      <4>1. QED BY <1>1, UnitsOfElement
    <3>2. QED BY <3>1
  <2> HIDE DEF v, S
  <2>3. QED BY <2>1, <2>2 DEF Summing
<1>3. ASSUME NEW h PROVE ChosenFirst(h, v, S) <=> Is(h)
  <2>1. \A s \in SUBSET S : s # {} =>
          v[CHOOSE x \in s : TRUE]
            = PagesFor(MaxLen) - PagesFor(reqs[CHOOSE x \in s : TRUE].cached)
    BY DEF Needs
  <2> HIDE DEF v
  <2>2. [s \in SUBSET S |->
           IF s = {} THEN 0 ELSE v[CHOOSE x \in s : TRUE] + h[s \ {CHOOSE x \in s : TRUE}]]
        = [s \in SUBSET S |->
             IF s = {} THEN 0
             ELSE (PagesFor(MaxLen) - PagesFor(reqs[CHOOSE x \in s : TRUE].cached))
                  + h[s \ {CHOOSE x \in s : TRUE}]]
    BY <2>1
  <2>3. QED BY <2>2 DEF ChosenFirst
<1>4. Reserved = i[S] BY Zenon DEF Reserved, MapThenSumSet, MapThenFoldSet
<1>5. ChosenFirst(g, v, S)
  <2> HIDE DEF g, v, S
  <2>1. QED BY <1>1, <1>2, FoldIsSum
<1>6. Is(i)
  <2>1. \E h : Is(h)
    <3> HIDE DEF Is
    <3>1. Is(g) BY <1>3, <1>5
    <3>2. QED BY <3>1
  <2>2. QED BY <2>1, Zenon
<1>7. i[S] = g[S]
  <2> HIDE DEF i, g, v, Is, S
  <2>1. ChosenFirst(i, v, S) BY <1>3, <1>6
  <2>2. QED BY <1>1, <1>2, <2>1, FoldIsSum
<1>8. g[S] = Cardinality(Units(v, S)) OBVIOUS
<1> HIDE DEF i, g
<1>9. QED BY <1>4, <1>7, <1>8

(* Both, and the same in the next state.                                   *)
ReservedOK == /\ Reserved = Cardinality(Units(Needs, Running))
              /\ Needs \in [Running -> 0..PagesFor(MaxLen)]
              /\ IsFiniteSet(Running)

LEMMA ReservedOfNeeds == Bounded => ReservedOK
BY ReservedUnits, NeedsType DEF ReservedOK

LEMMA ReservedOfNeedsNext == Bounded' => ReservedOK'
BY ReservedOfNeeds, PTL

(* A step of one request changes the reservation by what changes of its    *)
(* own.                                                                    *)
LEMMA ReservedStep ==
  ASSUME Bounded, Bounded', NEW c \in Reqs, \A d \in Reqs \ {c} : reqs'[d] = reqs[d]
  PROVE  /\ Reserved \in Nat /\ Reserved' \in Nat /\ NeedOf(c) \in Nat /\ NeedOf(c)' \in Nat
         /\ Reserved' + NeedOf(c) = Reserved + NeedOf(c)'
<1>1. PICK S : S = Running OBVIOUS
<1>2. PICK T : T = Running' OBVIOUS
<1>3. PICK v : v = Needs OBVIOUS
<1>4. PICK w : w = Needs' OBVIOUS
<1>5. PICK n \in Nat : n = PagesFor(MaxLen) BY NeedsType
<1>6. v \in [S -> 0..n] /\ IsFiniteSet(S) /\ Reserved = Cardinality(Units(v, S))
  BY <1>1, <1>3, <1>5, ReservedOfNeeds DEF ReservedOK
<1>7. w \in [T -> 0..n] /\ IsFiniteSet(T) /\ Reserved' = Cardinality(Units(w, T))
  BY <1>2, <1>4, <1>5, ReservedOfNeedsNext DEF ReservedOK
<1>8. S \ {c} = T \ {c} /\ \A d \in S \ {c} : v[d] = w[d]
  BY <1>1, <1>2, <1>3, <1>4 DEF Running, Needs
<1>9. Units(v, S \ {c}) = Units(w, T \ {c}) BY <1>8, UnitsAgree
<1>10. PICK rest : rest = Cardinality(Units(v, S \ {c})) OBVIOUS
<1>11. /\ rest \in Nat
       /\ c \in S => v[c] \in Nat /\ Reserved = rest + v[c]
       /\ c \notin S => Reserved = rest
  <2>1. v \in [S -> 0..n] /\ IsFiniteSet(S) BY <1>6
  <2>2. /\ Cardinality(Units(v, S \ {c})) \in Nat
        /\ c \in S => v[c] \in Nat /\ Cardinality(Units(v, S)) = Cardinality(Units(v, S \ {c})) + v[c]
        /\ c \notin S => Cardinality(Units(v, S)) = Cardinality(Units(v, S \ {c}))
    BY <2>1, UnitsSplit
  <2>3. QED BY <1>6, <1>10, <2>2
<1>12. /\ c \in T => w[c] \in Nat /\ Reserved' = rest + w[c]
       /\ c \notin T => Reserved' = rest
  <2>1. w \in [T -> 0..n] /\ IsFiniteSet(T) BY <1>7
  <2>2. /\ c \in T => w[c] \in Nat /\ Cardinality(Units(w, T)) = Cardinality(Units(w, T \ {c})) + w[c]
        /\ c \notin T => Cardinality(Units(w, T)) = Cardinality(Units(w, T \ {c}))
    BY <2>1, UnitsSplit
  <2>3. QED BY <1>7, <1>9, <1>10, <2>2
<1>13. /\ c \in S => NeedOf(c) = v[c]
       /\ c \notin S => NeedOf(c) = 0
  BY <1>1, <1>3 DEF NeedOf, Needs, Running
<1>14. /\ c \in T => NeedOf(c)' = w[c]
       /\ c \notin T => NeedOf(c)' = 0
  BY <1>2, <1>4 DEF NeedOf, Needs, Running
<1>15. QED
  <2>1. PICK a : a = NeedOf(c) OBVIOUS
  <2>2. PICK b : b = NeedOf(c)' OBVIOUS
  <2>3. PICK x : x = Reserved OBVIOUS
  <2>4. PICK y : y = Reserved' OBVIOUS
  <2>5. a \in Nat /\ x \in Nat /\ x = rest + a BY <1>11, <1>13, <2>1, <2>3
  <2>6. b \in Nat /\ y \in Nat /\ y = rest + b BY <1>11, <1>12, <1>14, <2>2, <2>4
  <2>7. y + a = x + b BY <1>11, <2>5, <2>6
  <2>8. QED BY <2>1, <2>2, <2>3, <2>4, <2>5, <2>6, <2>7

----------------------------------------------------------------------------
(* The reservation is kept: the pages the running requests may still ask   *)
(* for are free or can be evicted.                                         *)
Fits == Reserved <= tree.evictable + Len(freePages)
ReserveInv == PagesInv /\ TreeInv /\ Bounded /\ Fits

(* The pool is counted in natural numbers.                                 *)
LEMMA PoolType ==
  ASSUME PagesInv, TreeInv
  PROVE  tree.evictable \in Nat /\ Len(freePages) \in Nat
<1>1. FreeKeys(tree) \in SUBSET Covered(tree) BY DEF FreeKeys
<1>2. IsFiniteSet(Covered(tree)) /\ tree.evictable = Cardinality(FreeKeys(tree))
  BY DEF TreeInv, Sized
<1>3. tree.evictable \in Nat BY <1>1, <1>2, FS_Subset, FS_CardinalityType
<1>4. Len(freePages) \in Nat BY DEF PagesInv, RowsInv
<1>5. QED BY <1>3, <1>4

(* The same of the next state.                                            *)
LEMMA PoolTypeNext ==
  ASSUME PagesInv', TreeInv'
  PROVE  tree'.evictable \in Nat /\ Len(freePages') \in Nat
<1>1. (PagesInv /\ TreeInv => tree.evictable \in Nat /\ Len(freePages) \in Nat)' BY PoolType, PTL
<1>2. QED BY <1>1

(* A step that gives the pool at least what it adds to the reservation of  *)
(* its request keeps it.                                                   *)
LEMMA FitsStep ==
  ASSUME ReserveInv, PagesInv', TreeInv', Bounded',
         NEW c \in Reqs, \A d \in Reqs \ {c} : reqs'[d] = reqs[d],
         tree'.evictable + Len(freePages') + NeedOf(c)
           >= tree.evictable + Len(freePages) + NeedOf(c)'
  PROVE  Fits'
<1>1. PICK x : x = tree.evictable + Len(freePages) OBVIOUS
<1>2. PICK y : y = tree'.evictable + Len(freePages') OBVIOUS
<1>3. x \in Nat /\ y \in Nat BY <1>1, <1>2, PoolType, PoolTypeNext DEF ReserveInv
<1>4. PICK a : a = NeedOf(c) OBVIOUS
<1>5. PICK b : b = NeedOf(c)' OBVIOUS
<1>6. Bounded /\ Bounded' BY DEF ReserveInv
<1>7. /\ Reserved \in Nat /\ Reserved' \in Nat /\ a \in Nat /\ b \in Nat
      /\ Reserved' + a = Reserved + b
  BY <1>4, <1>5, <1>6, ReservedStep
<1>8. Reserved <= x BY <1>1 DEF ReserveInv, Fits
<1>9. y + a >= x + b BY <1>1, <1>2, <1>4, <1>5
<1>10. Reserved' <= y
  <2>1. PICK m : m = Reserved OBVIOUS
  <2>2. PICK n : n = Reserved' OBVIOUS
  <2>3. m \in Nat /\ n \in Nat /\ n + a = m + b /\ m <= x BY <1>7, <1>8, <2>1, <2>2
  <2>4. n <= y BY <1>3, <1>7, <1>9, <2>3
  <2>5. QED BY <2>2, <2>4
<1>11. QED BY <1>2, <1>10 DEF Fits

(* Every step keeps the requests within the bound.                         *)
LEMMA BoundedStep == PagesInv /\ Bounded /\ PagesInv' /\ [Next]_vars => Bounded'
<1> SUFFICES ASSUME PagesInv, Bounded, PagesInv', [Next]_vars PROVE Bounded' OBVIOUS
<1>0. ReqsOK /\ ReqsOK' /\ \A d \in Running : reqs[d].device <= MaxLen
  BY DEF PagesInv, LocksInv, Bounded
<1>1. ASSUME NEW c \in Reqs, reqs'[c] # NoReq => reqs'[c].device <= MaxLen,
             \A d \in Reqs \ {c} : reqs'[d] = reqs[d]
      PROVE  Bounded'
  BY <1>0, <1>1 DEF Bounded, Running
<1>2. ASSUME NEW c \in Reqs, NEW prompt \in Prompts, NEW s \in Slot, Start(c, prompt, s)
      PROVE  Bounded'
  <2>1. PICK h : /\ reqs' = [reqs EXCEPT ![c] =
                               [ids |-> prompt, cached |-> Len(h) * PageSize,
                                device |-> Len(prompt), handle |-> h, slot |-> s]]
    BY <1>2 DEF Start
  <2>2. reqs'[c].device = Len(prompt) /\ \A d \in Reqs \ {c} : reqs'[d] = reqs[d]
    BY <1>0, <2>1 DEF ReqsOK
  <2>3. QED BY <1>1, <2>2, MaxLenAssumption
<1>3. ASSUME NEW c \in Reqs, NEW token \in Tokens, Forward(c, token) PROVE Bounded'
  <2>1. /\ reqs[c] # NoReq /\ Len(reqs[c].ids) < MaxLen
        /\ reqs' = [reqs EXCEPT ![c].cached = reqs[c].device,
                                ![c].device = reqs[c].device + 1,
                                ![c].ids = Append(reqs[c].ids, token)]
    BY <1>3 DEF Forward
  <2>2. reqs[c].device = Len(reqs[c].ids) /\ reqs[c] \in Request
    BY <1>0, <2>1 DEF ReqsOK, Running
  <2>3. reqs'[c].device = reqs[c].device + 1 /\ \A d \in Reqs \ {c} : reqs'[d] = reqs[d]
    BY <1>0, <2>1, <2>2 DEF ReqsOK, Request
  <2>4. PICK n \in Nat : n = reqs[c].device BY <2>2 DEF Request
  <2>5. n + 1 <= MaxLen BY <2>1, <2>2, <2>4, MaxLenAssumption
  <2>6. QED BY <1>1, <2>3, <2>4, <2>5
<1>4. ASSUME NEW c \in Reqs, CachePrompt(c) PROVE Bounded'
  <2>1. reqs[c] # NoReq /\ reqs' = [reqs EXCEPT ![c].handle = ReqKey(reqs[c])]
    BY <1>4 DEF CachePrompt, Computed
  <2>2. c \in Running /\ reqs[c] \in Request BY <1>0, <2>1 DEF ReqsOK, Running
  <2>3. reqs'[c].device = reqs[c].device /\ \A d \in Reqs \ {c} : reqs'[d] = reqs[d]
    BY <1>0, <2>1, <2>2 DEF ReqsOK, Request
  <2>4. QED BY <1>0, <1>1, <2>2, <2>3
<1>5. ASSUME NEW c \in Reqs, Finish(c) PROVE Bounded'
  <2>1. reqs'[c] = NoReq /\ \A d \in Reqs \ {c} : reqs'[d] = reqs[d]
    BY <1>0, <1>5 DEF Finish, ReqsOK
  <2>2. QED BY <1>1, <2>1
<1>6. CASE reqs' = reqs BY <1>0, <1>6 DEF Bounded, Running
<1>7. QED BY <1>2, <1>3, <1>4, <1>5, <1>6 DEF Next, Refuse, Evict, vars

(* A request is admitted with the pages it may ask for.                    *)
LEMMA StartFits ==
  ASSUME ReserveInv, PagesInv', TreeInv', Bounded',
         NEW c \in Reqs, NEW prompt \in Prompts, NEW s \in Slot, Start(c, prompt, s)
  PROVE  Fits'
<1>1. PICK h : h = Matched(tree, MatchKey(prompt)) OBVIOUS
<1>2. /\ reqs[c] = NoReq
      /\ Reserved + PagesFor(MaxLen) - Len(h) <= tree'.evictable + Len(freePages)
      /\ reqs' = [reqs EXCEPT ![c] = [ids |-> prompt, cached |-> Len(h) * PageSize,
                                      device |-> Len(prompt), handle |-> h, slot |-> s]]
      /\ freePages' = freePages
  BY <1>1 DEF Start
<1>3. ReqsOK /\ ReqsOK' /\ Bounded BY DEF ReserveInv, PagesInv, LocksInv, Bounded
<1>4. reqs'[c].cached = Len(h) * PageSize /\ \A d \in Reqs \ {c} : reqs'[d] = reqs[d]
  BY <1>2, <1>3 DEF ReqsOK
<1>5. reqs'[c] # NoReq
  <2>1. reqs'[c] = [ids |-> prompt, cached |-> Len(h) * PageSize,
                    device |-> Len(prompt), handle |-> h, slot |-> s]
    BY <1>2, <1>3 DEF ReqsOK
  <2>2. h \in Seq(Block)
    <3>1. MatchKey(prompt) \in Seq(Block) BY PromptKey
    <3>2. QED BY <1>1, <3>1, MatchedIsLongest
  <2>3. prompt \in Seq(Alphabet) BY PromptsAssumption
  <2>4. Len(h) * PageSize \in Nat BY <2>2, PagesForWhole
  <2>5. reqs'[c] \in Request BY <2>1, <2>2, <2>3, <2>4 DEF Request
  <2>6. QED BY <2>5, ReqsAssumption
<1>6. Len(h) \in Nat
  <2>1. MatchKey(prompt) \in Seq(Block) BY PromptKey
  <2>2. h \in Seq(Block) BY <1>1, <2>1, MatchedIsLongest
  <2>3. QED BY <2>2
<1>7. NeedOf(c) = 0 BY <1>2 DEF NeedOf
<1>8. NeedOf(c)' = PagesFor(MaxLen) - Len(h)
  <2>1. PagesFor(Len(h) * PageSize) = Len(h) BY <1>6, PagesForWhole
  <2>2. QED BY <1>4, <1>5, <2>1 DEF NeedOf
<1>9. /\ Reserved \in Nat /\ Reserved' \in Nat /\ Reserved' + NeedOf(c) = Reserved + NeedOf(c)'
  BY <1>3, <1>4, ReservedStep
<1>10. PICK m : m = Reserved OBVIOUS
<1>11. PICK n : n = Reserved' OBVIOUS
<1>12. PICK k \in Nat : k = PagesFor(MaxLen) BY <1>3, NeedsType
<1>13. PICK y : y = tree'.evictable + Len(freePages') OBVIOUS
<1>14. y \in Nat BY <1>13, PoolTypeNext
<1>15. n = m + (k - Len(h)) BY <1>7, <1>8, <1>9, <1>10, <1>11, <1>12
<1>16. m + k - Len(h) <= y BY <1>2, <1>10, <1>12, <1>13
<1>17. n <= y BY <1>6, <1>9, <1>10, <1>11, <1>14, <1>15, <1>16
<1>18. QED BY <1>11, <1>13, <1>17 DEF Fits

(* A walk that splits nodes leaves the pool as it is.                      *)
LEMMA RefuseFits ==
  ASSUME ReserveInv, PagesInv', TreeInv', Bounded',
         NEW c \in Reqs, NEW prompt \in Prompts, Refuse(c, prompt)
  PROVE  Fits'
<1>1. /\ tree' = Walk(tree, MatchKey(prompt)) /\ freePages' = freePages /\ reqs' = reqs
  BY DEF Refuse
<1>2. WellShaped(tree, Block) /\ Sized(tree) BY DEF ReserveInv, PagesInv, LocksInv, TreeInv
<1>3. tree'.evictable = tree.evictable BY <1>1, <1>2, PromptKey, WalkSized
<1>4. NeedOf(c)' = NeedOf(c) BY <1>1 DEF NeedOf
<1>5. PICK b : b = NeedOf(c) OBVIOUS
<1>6. b \in Nat BY <1>1, <1>5, ReservedStep DEF ReserveInv
<1>7. PICK x : x = tree.evictable + Len(freePages) OBVIOUS
<1>8. x \in Nat BY <1>7, PoolType DEF ReserveInv
<1>9. tree'.evictable + Len(freePages') + NeedOf(c)
        >= tree.evictable + Len(freePages) + NeedOf(c)'
  <2>1. x + b >= x + b BY <1>6, <1>8
  <2>2. QED BY <1>1, <1>3, <1>4, <1>5, <1>7, <2>1
<1>10. QED BY <1>1, <1>9, FitsStep

(* What is evicted is free.                                                *)
LEMMA EvictFits ==
  ASSUME ReserveInv, PagesInv', TreeInv', Bounded', NEW c \in Reqs, Evict(c)
  PROVE  Fits'
<1>1. EvictOne(<<reqs[c]>>) /\ reqs' = reqs BY DEF Evict
<1>2. /\ WellShaped(tree, Block) /\ Sized(tree) /\ freePages \in Seq(Page)
      /\ tree.page \in [Covered(tree) -> Page]
  BY DEF ReserveInv, PagesInv, LocksInv, RowsInv, TreeInv
<1>3. PICK k \in Nat : /\ tree'.evictable = tree.evictable - k
                       /\ Len(freePages') = Len(freePages) + k
  BY <1>1, <1>2, EvictPool
<1>4. NeedOf(c)' = NeedOf(c) BY <1>1 DEF NeedOf
<1>5. PICK b : b = NeedOf(c) OBVIOUS
<1>6. b \in Nat BY <1>1, <1>5, ReservedStep DEF ReserveInv
<1>7. tree.evictable \in Nat /\ Len(freePages) \in Nat BY PoolType DEF ReserveInv
<1>8. tree'.evictable + Len(freePages') + b >= tree.evictable + Len(freePages) + b
  BY <1>3, <1>6, <1>7
<1>9. tree'.evictable + Len(freePages') + NeedOf(c)
        >= tree.evictable + Len(freePages) + NeedOf(c)'
  BY <1>4, <1>5, <1>8
<1>10. QED BY <1>1, <1>9, FitsStep

(* What a forward pass takes, its request needs no more.                   *)
LEMMA ForwardFits ==
  ASSUME ReserveInv, PagesInv', TreeInv', Bounded', NEW c \in Reqs, NEW token \in Tokens,
         Forward(c, token)
  PROVE  Fits'
<1>1. /\ reqs[c] # NoReq /\ AllocatePaged(<<reqs[c]>>)
      /\ reqs' = [reqs EXCEPT ![c].cached = reqs[c].device,
                              ![c].device = reqs[c].device + 1,
                              ![c].ids = Append(reqs[c].ids, token)]
  BY DEF Forward
<1>2. PICK r : r = reqs[c] OBVIOUS
<1>3. ReqsOK /\ freePages \in Seq(Page) BY DEF ReserveInv, PagesInv, LocksInv, RowsInv
<1>4. c \in Running /\ r \in Request /\ r.cached < r.device BY <1>1, <1>2, <1>3 DEF ReqsOK, Running
<1>5. r.cached \in Nat /\ r.device \in Nat /\ r.cached <= r.device BY <1>4 DEF Request
<1>6. /\ reqs'[c] # NoReq /\ reqs'[c].cached = r.device
      /\ \A d \in Reqs \ {c} : reqs'[d] = reqs[d]
  <2>1. reqs' = [reqs EXCEPT ![c] = [r EXCEPT !.cached = r.device, !.device = r.device + 1,
                                             !.ids = Append(r.ids, token)]]
    BY <1>1, <1>2
  <2>2. reqs'[c] = [r EXCEPT !.cached = r.device, !.device = r.device + 1,
                             !.ids = Append(r.ids, token)]
    BY <1>3, <2>1 DEF ReqsOK
  <2>3. reqs'[c].cached = r.device BY <1>4, <2>2 DEF Request
  <2>4. r.ids \in Seq(Alphabet) /\ r.device + 1 \in Nat BY <1>4, <1>5 DEF Request
  <2>5. token \in Alphabet BY DEF Alphabet
  <2>6. Append(r.ids, token) \in Seq(Alphabet) BY <2>4, <2>5
  <2>7. reqs'[c] \in Request BY <1>4, <1>5, <2>2, <2>4, <2>6 DEF Request
  <2>8. reqs'[c] # NoReq BY <2>7, ReqsAssumption
  <2>9. QED BY <1>3, <2>1, <2>3, <2>8 DEF ReqsOK
<1>7. PICK a \in Nat : a = PagesFor(r.cached) BY <1>5, PagesForTokens
<1>8. PICK b \in Nat : b = PagesFor(r.device) BY <1>5, PagesForTokens
<1>9. a <= b BY <1>5, <1>7, <1>8, PagesForOrder
<1>10. TotalLacking(<<r>>) = b - a
  <2> DEFINE single == <<r>>
  <2>0. single \in Seq(Request) BY <1>4
  <2>1. PICK rs \in Seq(Request) : rs = <<r>> BY <2>0
  <2>2. Len(rs) = 1 /\ rs[1] = r BY <2>1
  <2>3. PagesLacking(rs[1]) = b - a BY <1>7, <1>8, <2>2 DEF PagesLacking
  <2>4. \A i \in 1..Len(rs) : PagesLacking(rs[i]) \in Nat BY <1>9, <2>2, <2>3
  <2>5. PICK S : RunningTotal(S, rs) /\ TotalLacking(rs) = S[Len(rs)]
    BY <2>4, TotalsOfPrefixes
  <2>6. S[0] = 0 /\ S[1] = S[1 - 1] + PagesLacking(rs[1])
    BY <2>2, <2>5 DEF RunningTotal
  <2>7. S[1] = b - a BY <2>3, <2>6
  <2>8. QED BY <2>1, <2>2, <2>5, <2>7
<1>11. /\ freePages' = SubSeq(freePages, (b - a) + 1, Len(freePages)) /\ b - a <= Len(freePages)
       /\ tree' = tree
  <2>1. /\ freePages' = SubSeq(freePages, TotalLacking(<<r>>) + 1, Len(freePages))
        /\ ~(TotalLacking(<<r>>) > Len(freePages)) /\ tree' = tree
    BY <1>1, <1>2 DEF AllocatePaged, MustEvict
  <2>2. Len(freePages) \in Nat BY <1>3
  <2>3. QED BY <1>9, <1>10, <2>1, <2>2
<1>12. Len(freePages') = Len(freePages) - (b - a)
  <2>1. PICK k \in Nat : k = b - a BY <1>9
  <2>2. Len(freePages) \in Nat BY <1>3
  <2>3. Len(SubSeq(freePages, k + 1, Len(freePages))) = Len(freePages) - k
    BY <1>3, <1>11, <2>1, <2>2, PartOfRow
  <2>4. QED BY <1>11, <2>1, <2>3
<1>13. PICK p \in Nat : p = PagesFor(MaxLen) BY NeedsType DEF ReserveInv
<1>14. NeedOf(c) = p - a BY <1>1, <1>2, <1>7, <1>13 DEF NeedOf
<1>15. NeedOf(c)' = p - b BY <1>6, <1>8, <1>13 DEF NeedOf
<1>16. tree.evictable \in Nat /\ Len(freePages) \in Nat BY PoolType DEF ReserveInv
<1>17. tree'.evictable + Len(freePages') + NeedOf(c)
         >= tree.evictable + Len(freePages) + NeedOf(c)'
  BY <1>9, <1>11, <1>12, <1>14, <1>15, <1>16
<1>18. QED BY <1>6, <1>17, FitsStep

(* What cache_req does to the pool, for a running request.                 *)
LEMMA CacheReqPool ==
  ASSUME ReserveInv, NEW c \in Running, NEW finished \in BOOLEAN, CacheReq(reqs[c], finished)
  PROVE  \E h \in Nat, m \in Nat, k \in Nat, p \in Nat :
           /\ h <= m /\ m <= k /\ k <= p /\ p = PagesFor(reqs[c].cached)
           /\ Len(freePages') = Len(freePages) + (m - h) + IF finished THEN p - k ELSE 0
           /\ tree'.evictable + (IF finished THEN 0 ELSE k - h) >= tree.evictable + (k - m)
<1>1. PICK r : r = reqs[c] OBVIOUS
<1>2. /\ PagesInv /\ Sized(tree) /\ Typed(tree)
      /\ freePages \in Seq(Page) /\ pageTable \in [Slot -> Seq(Page)]
  BY DEF ReserveInv, TreeInv, PagesInv, RowsInv
<1>3. /\ WellShaped(tree, Block) /\ Counted(tree, Running, HandleOf)
      /\ r.handle = HandleOf[c] /\ ReqKey(r) \in Seq(Block)
      /\ r.handle \in Seq(Block) /\ IsPrefix(r.handle, ReqKey(r))
      /\ Cacheable(r, Block)
  BY <1>1, <1>2, RequestReady
<1>4. CacheReq(r, finished) BY <1>1
<1>5. PoolMoves(r, finished) BY <1>2, <1>3, <1>4, PoolOfRequest
<1>6. QED BY <1>1, <1>5 DEF PoolMoves

(* The pages that move into the new prefix leave no request short.         *)
LEMMA CachePromptFits ==
  ASSUME ReserveInv, PagesInv', TreeInv', Bounded', NEW c \in Reqs, CachePrompt(c)
  PROVE  Fits'
<1>1. /\ reqs[c] # NoReq /\ CacheReq(reqs[c], FALSE)
      /\ reqs' = [reqs EXCEPT ![c].handle = ReqKey(reqs[c])]
  BY DEF CachePrompt, Computed
<1>2. ReqsOK BY DEF ReserveInv, PagesInv, LocksInv
<1>3. c \in Running /\ reqs[c] \in Request BY <1>1, <1>2 DEF ReqsOK, Running
<1>4. PICK h \in Nat, m \in Nat, k \in Nat, p \in Nat :
        /\ h <= m /\ m <= k
        /\ Len(freePages') = Len(freePages) + (m - h) + IF FALSE THEN p - k ELSE 0
        /\ tree'.evictable + (IF FALSE THEN 0 ELSE k - h) >= tree.evictable + (k - m)
  BY <1>1, <1>3, CacheReqPool
<1>5. /\ reqs'[c].cached = reqs[c].cached /\ \A d \in Reqs \ {c} : reqs'[d] = reqs[d]
  BY <1>1, <1>2, <1>3 DEF ReqsOK, Request
<1>6. reqs'[c] # NoReq
  <2>1. ReqKey(reqs[c]) \in Seq(Block) BY <1>3, RequestReady DEF ReserveInv
  <2>2. reqs'[c] = [reqs[c] EXCEPT !.handle = ReqKey(reqs[c])] BY <1>1, <1>2 DEF ReqsOK
  <2>3. reqs'[c] \in Request BY <1>3, <2>1, <2>2 DEF Request
  <2>4. QED BY <2>3, ReqsAssumption
<1>7. NeedOf(c)' = NeedOf(c) BY <1>1, <1>5, <1>6 DEF NeedOf
<1>8. PICK b : b = NeedOf(c) OBVIOUS
<1>9. b \in Nat
  <2>1. Bounded /\ Bounded' BY DEF ReserveInv
  <2>2. QED BY <1>5, <1>8, <2>1, ReservedStep
<1>10. /\ tree.evictable \in Nat /\ Len(freePages) \in Nat
       /\ tree'.evictable \in Nat /\ Len(freePages') \in Nat
  BY PoolType, PoolTypeNext DEF ReserveInv
<1>11. PICK x \in Nat, y \in Nat, u \in Nat, w \in Nat :
         /\ x = tree.evictable /\ y = Len(freePages) /\ u = tree'.evictable /\ w = Len(freePages')
  BY <1>10
<1>12. w = y + (m - h) /\ u + (k - h) >= x + (k - m) BY <1>4, <1>11
<1>13. u + w + b >= x + y + b BY <1>4, <1>9, <1>12
<1>14. tree'.evictable + Len(freePages') + NeedOf(c)
         >= tree.evictable + Len(freePages) + NeedOf(c)'
  BY <1>7, <1>8, <1>11, <1>13
<1>15. QED BY <1>5, <1>14, FitsStep

(* A request that ends gives all it held back to the pool.                 *)
LEMMA FinishFits ==
  ASSUME ReserveInv, PagesInv', TreeInv', Bounded', NEW c \in Reqs, Finish(c)
  PROVE  Fits'
<1>1. /\ reqs[c] # NoReq /\ CacheReq(reqs[c], TRUE) /\ reqs' = [reqs EXCEPT ![c] = NoReq]
  BY DEF Finish, Computed
<1>2. ReqsOK BY DEF ReserveInv, PagesInv, LocksInv
<1>3. c \in Running BY <1>1 DEF Running
<1>4. PICK h \in Nat, m \in Nat, k \in Nat, p \in Nat :
        /\ h <= m /\ m <= k /\ k <= p
        /\ Len(freePages') = Len(freePages) + (m - h) + IF TRUE THEN p - k ELSE 0
        /\ tree'.evictable + (IF TRUE THEN 0 ELSE k - h) >= tree.evictable + (k - m)
  BY <1>1, <1>3, CacheReqPool
<1>5. reqs'[c] = NoReq /\ \A d \in Reqs \ {c} : reqs'[d] = reqs[d] BY <1>1, <1>2 DEF ReqsOK
<1>6. NeedOf(c)' = 0 BY <1>5 DEF NeedOf
<1>7. PICK b : b = NeedOf(c) OBVIOUS
<1>8. b \in Nat
  <2>1. Bounded /\ Bounded' BY DEF ReserveInv
  <2>2. QED BY <1>5, <1>7, <2>1, ReservedStep
<1>9. /\ tree.evictable \in Nat /\ Len(freePages) \in Nat
      /\ tree'.evictable \in Nat /\ Len(freePages') \in Nat
  BY PoolType, PoolTypeNext DEF ReserveInv
<1>10. PICK x \in Nat, y \in Nat, u \in Nat, w \in Nat :
         /\ x = tree.evictable /\ y = Len(freePages) /\ u = tree'.evictable /\ w = Len(freePages')
  BY <1>9
<1>11. w = y + (m - h) + (p - k) /\ u + 0 >= x + (k - m) BY <1>4, <1>10
<1>12. u + w + b >= x + y + 0 BY <1>4, <1>8, <1>11
<1>13. tree'.evictable + Len(freePages') + NeedOf(c)
         >= tree.evictable + Len(freePages) + NeedOf(c)'
  BY <1>6, <1>7, <1>10, <1>12
<1>14. QED BY <1>5, <1>13, FitsStep

(* The reservation is kept first and by every step, so in every state.     *)
LEMMA ReserveInit == Init => Bounded /\ Fits
<1> SUFFICES ASSUME Init PROVE Bounded /\ Fits OBVIOUS
<1>1. PagesInv /\ TreeInv BY LocksInit, RowsInit, TreeInit DEF PagesInv
<1>2. Running = {} BY DEF Init, Running
<1>3. Bounded BY <1>1, <1>2 DEF Bounded, PagesInv, LocksInv
<1>4. Reserved = 0
  <2>1. Reserved = Cardinality(Units(Needs, Running)) BY <1>3, ReservedUnits
  <2>2. Units(Needs, Running) = {} BY <1>2 DEF Units
  <2>3. QED BY <2>1, <2>2, FS_EmptySet
<1>5. tree.evictable \in Nat /\ Len(freePages) \in Nat BY <1>1, PoolType
<1>6. QED BY <1>3, <1>4, <1>5 DEF Fits

LEMMA ReserveStep == ReserveInv /\ PagesInv' /\ TreeInv' /\ [Next]_vars => Bounded' /\ Fits'
<1> SUFFICES ASSUME ReserveInv, PagesInv', TreeInv', [Next]_vars PROVE Bounded' /\ Fits'
  OBVIOUS
<1>1. Bounded' BY BoundedStep DEF ReserveInv
<1>2. CASE UNCHANGED vars
  <2>1. /\ reqs' = reqs /\ tree' = tree /\ freePages' = freePages BY <1>2 DEF vars
  <2>2. Reserved' = Reserved
    <3>1. /\ Reserved = Cardinality(Units(Needs, Running))
          /\ Reserved' = Cardinality(Units(Needs', Running'))
      BY <1>1, ReservedOfNeeds, ReservedOfNeedsNext DEF ReservedOK, ReserveInv
    <3>2. Running' = Running /\ Needs' = Needs BY <2>1 DEF Running, Needs
    <3>3. QED BY <3>1, <3>2
  <2>3. QED BY <1>1, <2>1, <2>2 DEF ReserveInv, Fits
<1>3. QED
  BY <1>1, <1>2, StartFits, RefuseFits, EvictFits, ForwardFits, CachePromptFits, FinishFits
     DEF Next

LEMMA ReserveInvariant == Spec => []ReserveInv
<1>1. Init => Bounded /\ Fits BY ReserveInit
<1>2. PagesInv /\ TreeInv /\ Bounded /\ Fits /\ PagesInv' /\ TreeInv' /\ [Next]_vars
        => Bounded' /\ Fits'
  BY ReserveStep DEF ReserveInv
<1>3. Spec => [](PagesInv /\ TreeInv /\ Bounded /\ Fits)
  BY <1>1, <1>2, TreeInvariant, PTL DEF Spec
<1>4. PagesInv /\ TreeInv /\ Bounded /\ Fits => ReserveInv BY DEF ReserveInv
<1>5. QED BY <1>3, <1>4, PTL

(* The asserts of evict never fail for a client that keeps within its      *)
(* reservation: a counter above zero means that a leaf nobody holds        *)
(* exists, and the pages a request lacks are free or can be evicted,       *)
(* whatever was matched, split, inserted, evicted or freed before          *)
(* (evict of the radix cache, _allocate).                                  *)
THEOREM EvictionSucceedsHolds == Spec => []EvictionSucceeds
<1>1. ReserveInv => EvictionSucceeds
  <2> SUFFICES ASSUME ReserveInv PROVE EvictionSucceeds OBVIOUS
  <2>1. tree.evictable > 0 => FreeLeaves(tree) # {}
    BY FreeLeafExists DEF ReserveInv, PagesInv, LocksInv, TreeInv
  <2>2. ASSUME NEW c \in Running PROVE PagesLacking(reqs[c]) <= tree.evictable + Len(freePages)
    <3>1. Bounded /\ Fits BY DEF ReserveInv
    <3>2. /\ reqs[c] # NoReq /\ c \in Reqs
          /\ reqs[c].cached \in Nat /\ reqs[c].device \in Nat /\ reqs[c].device <= MaxLen
      BY <3>1 DEF Bounded, ReqsOK, Running, Request
    <3>3. PICK S : S = Running OBVIOUS
    <3>4. PICK v : v = Needs OBVIOUS
    <3>5. PICK p \in Nat : p = PagesFor(MaxLen) BY <3>1, NeedsType
    <3>6. v \in [S -> 0..p] /\ IsFiniteSet(S) /\ Reserved = Cardinality(Units(v, S))
      BY <3>1, <3>3, <3>4, <3>5, ReservedOfNeeds DEF ReservedOK
    <3>7. /\ Cardinality(Units(v, S \ {c})) \in Nat /\ v[c] \in Nat
          /\ Cardinality(Units(v, S)) = Cardinality(Units(v, S \ {c})) + v[c]
      <4>1. v \in [S -> 0..p] /\ IsFiniteSet(S) /\ c \in S BY <3>3, <3>6
      <4>2. QED BY <4>1, UnitsSplit
    <3>8. PICK a : a = PagesFor(reqs[c].cached) OBVIOUS
    <3>9. PICK b \in Nat : b = PagesFor(reqs[c].device) BY <3>2, PagesForTokens
    <3>10. a \in Nat BY <3>2, <3>8, PagesForTokens
    <3>11. b <= p BY <3>2, <3>5, <3>9, MaxLenAssumption, PagesForOrder
    <3>12. v[c] = p - a BY <3>4, <3>5, <3>8 DEF Needs
    <3>13. PICK x : x = tree.evictable + Len(freePages) OBVIOUS
    <3>14. x \in Nat BY <3>13, PoolType DEF ReserveInv
    <3>15. Reserved <= x BY <3>1, <3>13 DEF Fits
    <3>16. PICK n \in Nat : n = Cardinality(Units(v, S \ {c})) BY <3>7
    <3>17. n + (p - a) <= x BY <3>6, <3>7, <3>12, <3>15, <3>16
    <3>18. b - a <= x BY <3>10, <3>11, <3>14, <3>17
    <3>19. QED BY <3>8, <3>9, <3>13, <3>18 DEF PagesLacking
  <2>3. QED BY <2>1, <2>2 DEF EvictionSucceeds
<1>2. QED BY <1>1, ReserveInvariant, PTL
=============================================================================
