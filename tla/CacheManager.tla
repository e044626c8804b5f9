----------------------------- MODULE CacheManager -----------------------------
(***************************************************************************)
(* scheduler/cache.py: the pages of the KV cache and who holds them, on    *)
(* top of the prefix cache (kvcache/).  The module declares the state of   *)
(* the manager and gives its operations as actions over a request; the     *)
(* modules CacheClients and Scheduler add the requests.                    *)
(*                                                                         *)
(* A request is a record with (at least) the fields of core.Req:           *)
(*   ids     input_ids, the tokens the host knows                          *)
(*   cached  cached_len;   device   device_len     (both in tokens)        *)
(*   handle  cache_handle, the key of a node                               *)
(*   slot    table_idx, its row of the page table                          *)
(***************************************************************************)
EXTENDS RadixTree

CONSTANTS
  PageSize,    \* page_size, tokens per page
  NumPages,    \* num_pages of the KV cache
  NumSlots,    \* max_running_reqs, rows of the page table
  Radix        \* TRUE: cache type "radix"; FALSE: "naive"

ASSUME PageSizeAssumption == PageSize \in Nat \ {0}
ASSUME NumPagesAssumption == NumPages \in Nat \ {0}
ASSUME NumSlotsAssumption == NumSlots \in Nat \ {0}
ASSUME RadixAssumption == Radix \in BOOLEAN

VARIABLES
  tree,        \* prefix_cache
  freePages,   \* free_slots, in the order of the tensor; a page is its number
  pageTable    \* pageTable[s]: the pages of row s, as far as it was ever written

cacheVars == <<tree, freePages, pageTable>>

Page == 0..(NumPages - 1)
Slot == 0..(NumSlots - 1)

CacheInit == /\ tree = EmptyTree
             /\ freePages = [i \in 1..NumPages |-> i - 1]
             /\ pageTable = [s \in Slot |-> <<>>]

PagesFor(tokens) == (tokens + PageSize - 1) \div PageSize    \* div_ceil

(* The key of a token sequence: its whole pages, the rest is cut off       *)
(* (align_down, and key_fn never equals a shorter tuple).  The naive cache *)
(* never matches or inserts anything: there every key is empty.            *)
Key(tokens) ==
  IF Radix
  THEN [i \in 1..(Len(tokens) \div PageSize) |->
          SubSeq(tokens, (i - 1) * PageSize + 1, i * PageSize)]
  ELSE <<>>

AvailableSize(t) == (t.evictable + Len(freePages)) * PageSize

(* Mutant of MatchKey: the last token of the prompt is looked up as well.  *)
WholePromptKey(prompt) == Key(prompt)

(* match_req looks up all the prompt but its last token.                   *)
MatchKey(prompt) == Key(SubSeq(prompt, 1, Len(prompt) - 1))

(* The pages a forward pass of a request still lacks.                      *)
PagesLacking(r) == PagesFor(r.device) - PagesFor(r.cached)
TotalLacking(rs) == FoldLeft(LAMBDA acc, r : acc + PagesLacking(r), 0, rs)

(* _allocate evicts only when the free pages do not suffice; it needs      *)
(* evictable pages enough, and its asserts fail otherwise.                 *)
MustEvict(rs) == TotalLacking(rs) > Len(freePages)
CanEvict(rs) == /\ TotalLacking(rs) - Len(freePages) <= tree.evictable
                /\ FreeLeaves(tree) # {}

EvictOne(rs) ==
  /\ MustEvict(rs) /\ CanEvict(rs)
  /\ \E n \in OldestLeaves(tree) :
       /\ tree' = RemoveLeaf(tree, n)
       /\ freePages' = freePages \o NodePages(tree, n)
  /\ UNCHANGED pageTable

(* Writing to a row leaves what stands behind: rows are never cleared.     *)
Overwrite(row, first, new) ==
  SubSeq(row, 1, first) \o new \o SubSeq(row, first + Len(new) + 1, Len(row))

(* allocate_paged: the requests take pages from the front, in order.       *)
AllocatePaged(rs) ==
  LET from(i) == TotalLacking(SubSeq(rs, 1, i - 1))
      pagesOf(i) == SubSeq(freePages, from(i) + 1, from(i) + PagesLacking(rs[i]))
      rowOf(s) == {i \in 1..Len(rs) : rs[i].slot = s}
  IN /\ ~MustEvict(rs)
     /\ freePages' = SubSeq(freePages, TotalLacking(rs) + 1, Len(freePages))
     /\ pageTable' = [s \in Slot |->
          IF rowOf(s) = {} THEN pageTable[s]
          ELSE LET i == Max(rowOf(s))
               IN Overwrite(pageTable[s], PagesFor(rs[i].cached), pagesOf(i))]
     /\ UNCHANGED tree

----------------------------------------------------------------------------
(* cache_req(req, finished): what [0, cached_len) holds goes into the      *)
(* prefix cache, the old handle is unlocked, and the pages of the part     *)
(* that was already cached are freed, with the unaligned tail if the       *)
(* request has finished; otherwise the request holds the new handle.       *)
ReqKey(r) == Key(SubSeq(r.ids, 1, r.cached))

Reinserted(r) == Insert(tree, ReqKey(r), pageTable[r.slot])

CacheReqTree(r, finished) ==
  LET unlocked == UnlockHandle(Reinserted(r), r.handle)
  IN IF finished THEN unlocked ELSE LockHandle(unlocked, ReqKey(r))

(* Mutants of FreedPages: the tail is given back although the request goes *)
(* on; the tail is not given back when it ends.                            *)
TailFreedEarly(r, finished) ==
  SubSeq(pageTable[r.slot], Len(r.handle) + 1, MatchLen(tree, ReqKey(r)))
    \o SubSeq(pageTable[r.slot], Len(ReqKey(r)) + 1, PagesFor(r.cached))
TailKept(r, finished) ==
  SubSeq(pageTable[r.slot], Len(r.handle) + 1, MatchLen(tree, ReqKey(r)))

FreedPages(r, finished) ==
  LET row == pageTable[r.slot]
      duplicated == SubSeq(row, Len(r.handle) + 1, MatchLen(tree, ReqKey(r)))
      tail == SubSeq(row, Len(ReqKey(r)) + 1, PagesFor(r.cached))
  IN IF finished THEN duplicated \o tail ELSE duplicated

CacheReqAsserts(r) == UnlockAsserts(Reinserted(r), r.handle)

CacheReq(r, finished) ==
  /\ CacheReqAsserts(r)
  /\ tree' = CacheReqTree(r, finished)
  /\ freePages' = freePages \o FreedPages(r, finished)
  /\ UNCHANGED pageTable

----------------------------------------------------------------------------
(* No page is lost and none is in two places: each one is once in the free *)
(* list, cached under one key, or once in the private part of one request, *)
(* where private[c] are the pages that request c has to itself.            *)
EachPageOnce(private) ==
  LET parts == [c \in DOMAIN private |-> ToSet(private[c])]
      own == UNION Range(parts)
      cached == Range(tree.page)
  IN /\ ToSet(freePages) \cup cached \cup own = Page
     /\ ToSet(freePages) \cap cached = {}
     /\ (ToSet(freePages) \cup cached) \cap own = {}
     /\ \A c, d \in DOMAIN private : c # d => parts[c] \cap parts[d] = {}
     /\ IsInjective(freePages) /\ IsInjective(tree.page)
     /\ \A c \in DOMAIN private : IsInjective(private[c])
=============================================================================
