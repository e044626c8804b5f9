------------------------------ MODULE Scheduler ------------------------------
(***************************************************************************)
(* The scheduler process: scheduler/scheduler.py with its prefill, decode, *)
(* table and cache managers, and the part of engine.forward_batch and      *)
(* core.Req that moves a request forward.                                  *)
(*                                                                         *)
(* One iteration of normal_loop / overlap_loop is cut at the points where  *)
(* it makes a choice: messages ("receive"), the prefill admission loop     *)
(* ("admit"), page allocation and the forward pass ("allocate"), and the   *)
(* results of a batch ("process").  The process has one thread, so nothing *)
(* else happens in between; an assert that fails ends it ("out of pages",  *)
(* "unlock failed").                                                       *)
(***************************************************************************)
EXTENDS CacheManager

CONSTANTS
  Uids, Prompt, MaxTokens,   \* the requests: prompt and max_tokens of each
  Vocab, Eos,                \* the tokens the model can sample; eos_token_id
  MaxSeqLen,                 \* engine.max_seq_len
  PrefillBudget,             \* prefill_budget (max_extend_tokens)
  ShortOutput,               \* short_output_threshold
  CanAbort,                  \* the requests whose client may abort
  Overlap,                   \* overlap_loop, or normal_loop
  P2,                        \* MINISGL_P2_OVERLAP_ENABLE
  P2Governor,                \* MINISGL_P2_GOVERNOR_ENABLE
  DecodeRunSteps,            \* P2_DECODE_RUN_STEPS_BEFORE_PREFILL
  SliceBudget,               \* P2 prefill slice, after its cap
  None

ASSUME ModeAssumption == Overlap \in BOOLEAN /\ P2 \in BOOLEAN /\ P2Governor \in BOOLEAN
(* The tokens of keys, and core.Req as the scheduler sees it.              *)
Token == Vocab \cup UNION {ToSet(Prompt[u]) : u \in Uids}
Block == Seq(Token)
Request == [ids : Seq(Token), slot : Slot, handle : Seq(Block),
            cached : Nat, device : Nat, maxDevice : Nat]

ASSUME RequestAssumption ==
  /\ CanAbort \subseteq Uids
  /\ \A u \in Uids : Prompt[u] \in Seq(Token) \ {<<>>} /\ MaxTokens[u] \in Nat \ {0}
ASSUME NoneAssumption == None \notin Request \cup Seq(Block)
ASSUME BudgetAssumption ==
  /\ MaxSeqLen \in Nat
  /\ PrefillBudget \in Nat \ {0} /\ SliceBudget \in Nat \ {0} /\ DecodeRunSteps \in Nat \ {0}

VARIABLES
  pc,
  arrived,     \* the requests that were received
  aborted,     \* the requests whose abort was received
  pending,     \* prefill_manager.pending_list
  running,     \* decode_manager.running_reqs
  reqs,        \* the Req last created for each uid
  freeSlots,   \* table_manager._free_slots
  adder,       \* PrefillAdder: token_budget, reserved_size; and chunked_list
  batch,       \* the batch of this iteration, or None
  inflight,    \* last_data of overlap_loop, or None
  cursor,      \* position in the batch that is processed
  finishedReqs, newFinished,
  streak,      \* _p2_decode_streak, counted up to DecodeRunSteps
  replies,     \* replies[u]: what send_result sent for u
  holds        \* history: the requests between table allocate and free

schedVars == <<pc, arrived, aborted, pending, running, reqs, freeSlots, adder, batch,
               inflight, cursor, finishedReqs, newFinished, streak, replies, holds>>
vars == <<schedVars, cacheVars>>

----------------------------------------------------------------------------
(* _process_one_msg clamps max_tokens to what max_seq_len leaves.          *)
TooLong(u) == Len(Prompt[u]) >= MaxSeqLen
OutputLen(u) == Min({MaxTokens[u], MaxSeqLen - Len(Prompt[u])})

RemainLen(r) == r.maxDevice - r.device
(* Mutant of CanDecode: one token too many.                                *)
CanDecodeOneMore(r) == RemainLen(r) >= 0
CanDecode(r) == RemainLen(r) > 0

(* Mutant of InflightTokens: admission forgets the running requests.       *)
NothingReserved == 0

(* inflight_tokens: what the running requests may still ask for.           *)
InflightTokens ==
  MapThenSumSet(LAMBDA u : RemainLen(reqs[u]) + PageSize - 1, running)

(* The sort key of _reorder_pending: urgent, then short, then oldest.      *)
SortKey(e) == <<IF e.urgent THEN 0 ELSE 1,
                IF OutputLen(e.uid) <= ShortOutput THEN 0 ELSE 1,
                e.enq>>
Before(e, f) == LET k == SortKey(e)  l == SortKey(f)
                IN \E i \in 1..3 : k[i] < l[i] /\ \A j \in 1..(i - 1) : k[j] = l[j]
Reordered ==
  {[i \in DOMAIN pending |-> pending[order[i]]] :
     order \in {f \in Bijection(DOMAIN pending, DOMAIN pending) :
                \A i, j \in DOMAIN pending : i < j => Before(pending[f[i]], pending[f[j]])}}

NoAdder == [budget |-> 0, reserved |-> 0, chunks |-> <<>>]
NoBatch == [phase |-> "none", reqs |-> <<>>]
Entry(u, isChunk) == [uid |-> u, chunked |-> isChunk]
BatchReqs == [i \in 1..Len(batch.reqs) |-> reqs[batch.reqs[i].uid]]

Init ==
  /\ CacheInit
  /\ pc = "receive" /\ arrived = {} /\ aborted = {}
  /\ pending = <<>> /\ running = {}
  /\ reqs = [u \in Uids |-> None]
  /\ freeSlots = [i \in 1..NumSlots |-> i - 1]
  /\ adder = NoAdder
  /\ batch = NoBatch /\ inflight = NoBatch /\ cursor = 1
  /\ finishedReqs = {} /\ newFinished = {}
  /\ streak = 0
  /\ replies = [u \in Uids |-> <<>>]
  /\ holds = {}

(* Mutant of FreeReqResources: the row of the page table is not returned.  *)
FreePagesOnly(r, u) ==
  /\ UNCHANGED freeSlots
  /\ CacheReq(r, TRUE)
  /\ holds' = holds \ {u}

(* _free_req_resources(req).                                               *)
FreeReqResources(r, u) ==
  /\ freeSlots' = Append(freeSlots, r.slot)
  /\ CacheReq(r, TRUE)
  /\ holds' = holds \ {u}

----------------------------------------------------------------------------
(* receive_msg and _process_one_msg.                                       *)
Idle == pending = <<>> /\ running = {} /\ inflight = NoBatch

ReceiveUser(u) ==
  /\ pc = "receive" /\ u \notin arrived
  /\ arrived' = arrived \cup {u}
  /\ pending' = IF TooLong(u) THEN pending
                ELSE Append(pending, [uid |-> u, urgent |-> FALSE, chunked |-> FALSE,
                                      enq |-> Cardinality(arrived)])
  /\ UNCHANGED <<pc, aborted, running, reqs, freeSlots, adder, batch, inflight, cursor,
                 finishedReqs, newFinished, streak, replies, holds, cacheVars>>

(* Mutant of RemoveReq: the request stays in running_reqs.                 *)
KeepReq(u) == UNCHANGED running

(* decode_manager: remove_req, and the removal in abort_req.               *)
RemoveReq(u) == running' = running \ {u}

(* Where a request waits in the pending list: at one place, if at all.     *)
Waiting(u) == {i \in DOMAIN pending : pending[i].uid = u}
AbortFrees(u) == u \in running \/ \E i \in Waiting(u) : pending[i].chunked

ReceiveAbort(u) ==
  /\ pc = "receive" /\ u \in (arrived \cap CanAbort) \ aborted
  /\ aborted' = aborted \cup {u}
  /\ pending' = IF Waiting(u) = {} THEN pending ELSE RemoveAt(pending, Min(Waiting(u)))
  /\ RemoveReq(u)
  /\ IF AbortFrees(u)
     THEN FreeReqResources(reqs[u], u)
     ELSE UNCHANGED <<freeSlots, holds, cacheVars>>
  /\ UNCHANGED <<pc, arrived, reqs, adder, batch, inflight, cursor, finishedReqs,
                 newFinished, streak, replies>>

(* max_wait_ms passes for the oldest pending request that is not urgent.   *)
BecomeUrgent ==
  /\ pc = "receive"
  /\ \E i \in 1..Len(pending) :
       /\ ~pending[i].urgent
       /\ \A j \in 1..Len(pending) : ~pending[j].urgent => pending[i].enq <= pending[j].enq
       /\ pending' = [pending EXCEPT ![i].urgent = TRUE]
  /\ UNCHANGED <<pc, arrived, aborted, running, reqs, freeSlots, adder, batch, inflight,
                 cursor, finishedReqs, newFinished, streak, replies, holds, cacheVars>>

----------------------------------------------------------------------------
(* decode_manager.schedule_next_batch, in an order that depends on clocks; *)
(* with nothing to decode the iteration only processes its last batch.     *)
ScheduleDecode ==
  IF running = {}
  THEN batch' = NoBatch /\ pc' = "process" /\ UNCHANGED streak
  ELSE /\ \E order \in SetToSeqs(running) :
            batch' = [phase |-> "decode",
                      reqs |-> [i \in 1..Len(order) |-> Entry(order[i], FALSE)]]
       /\ streak' = IF P2 THEN Min({streak + 1, DecodeRunSteps}) ELSE streak
       /\ pc' = "allocate"

(* _schedule_next_batch: prefill first; under P2, with requests to decode, *)
(* only a slice after DecodeRunSteps decodes and when the governor agrees. *)
Sliced == P2 /\ running # {}

StartPrefill ==
  /\ pc = "receive" /\ pending # <<>>
  /\ Sliced => streak >= DecodeRunSteps
  /\ pending' \in Reordered
  /\ adder' = [budget |-> IF Sliced THEN SliceBudget ELSE PrefillBudget,
               reserved |-> InflightTokens, chunks |-> <<>>]
  /\ batch' = [phase |-> "prefill", reqs |-> <<>>]
  /\ pc' = "admit"
  /\ UNCHANGED <<arrived, aborted, running, reqs, freeSlots, inflight, cursor, finishedReqs,
                 newFinished, streak, replies, holds, cacheVars>>

SkipPrefill ==
  /\ pc = "receive" /\ ~Idle
  /\ pending = <<>> \/ (Sliced /\ (streak < DecodeRunSteps \/ P2Governor))
  /\ ScheduleDecode
  /\ UNCHANGED <<arrived, aborted, pending, running, reqs, freeSlots, adder, inflight, cursor,
                 finishedReqs, newFinished, replies, holds, cacheVars>>

----------------------------------------------------------------------------
(* schedule_next_batch of the prefill manager: the pending requests from   *)
(* the front, until one does not fit.                                      *)
Position == Len(batch.reqs) + 1
More == Position <= Len(pending) /\ adder.budget > 0
Candidate == pending[Position]

(* _add_one_req: the next chunk of a prompt that is cached up to `cached`. *)
AddOneReq(u, handle, slot, cached) ==
  LET remain == Len(Prompt[u]) - cached
      chunk == Min({adder.budget, remain})
      waits == [Candidate EXCEPT !.chunked = (chunk < remain)]
  IN /\ adder' = [budget |-> adder.budget - chunk,
                  reserved |-> adder.reserved + remain + OutputLen(u),
                  chunks |-> IF chunk < remain THEN Append(adder.chunks, waits)
                             ELSE adder.chunks]
     /\ reqs' = [reqs EXCEPT ![u] =
          [ids |-> SubSeq(Prompt[u], 1, cached + chunk), slot |-> slot, handle |-> handle,
           cached |-> cached, device |-> cached + chunk,
           maxDevice |-> cached + chunk + OutputLen(u)]]
     /\ pending' = [pending EXCEPT ![Position] = waits]
     /\ batch' = [batch EXCEPT !.reqs = Append(@, Entry(u, chunk < remain))]

(* A prompt already begun continues with what it holds, unchecked.         *)
AdmitChunk ==
  /\ pc = "admit" /\ More /\ Candidate.chunked
  /\ LET r == reqs[Candidate.uid] IN AddOneReq(Candidate.uid, r.handle, r.slot, r.cached)
  /\ UNCHANGED <<pc, arrived, aborted, running, freeSlots, inflight, cursor, finishedReqs,
                 newFinished, streak, replies, holds, cacheVars>>

(* _try_allocate_one.  The second of its two tests, after the lock, is the *)
(* stronger one; a request that fails it is unlocked again.                *)
Tried == Walk(tree, MatchKey(Prompt[Candidate.uid]))
TriedHandle == Matched(tree, MatchKey(Prompt[Candidate.uid]))
Fits ==
  LET u == Candidate.uid
      estimated == Len(Prompt[u]) - Len(TriedHandle) * PageSize + OutputLen(u)
  IN estimated + adder.reserved <= AvailableSize(LockHandle(Tried, TriedHandle))

AdmitNew ==
  /\ pc = "admit" /\ More /\ ~Candidate.chunked
  /\ freeSlots # <<>> /\ Fits
  /\ tree' = LockHandle(Tried, TriedHandle)
  /\ freeSlots' = Front(freeSlots)
  /\ pageTable' = [pageTable EXCEPT ![Last(freeSlots)] = Overwrite(@, 0, PagesOf(Tried, TriedHandle))]
  /\ AddOneReq(Candidate.uid, TriedHandle, Last(freeSlots), Len(TriedHandle) * PageSize)
  /\ holds' = holds \cup {Candidate.uid}
  /\ UNCHANGED <<pc, arrived, aborted, running, inflight, cursor, finishedReqs, newFinished,
                 streak, replies, freePages>>

(* The loop ends: no candidate, no budget, no slot, or a request that does *)
(* not fit (whose match has touched and split the tree all the same).      *)
NoSlot == More /\ ~Candidate.chunked /\ freeSlots = <<>>
Refused == More /\ ~Candidate.chunked /\ freeSlots # <<>> /\ ~Fits

StopAdmitting ==
  /\ pc = "admit"
  /\ ~More \/ NoSlot \/ Refused
  /\ tree' = IF Refused THEN Tried ELSE tree
  /\ IF batch.reqs = <<>>
     THEN ScheduleDecode /\ UNCHANGED pending
     ELSE /\ pending' = adder.chunks \o SubSeq(pending, Position, Len(pending))
          /\ streak' = 0
          /\ pc' = "allocate"
          /\ UNCHANGED batch
  /\ UNCHANGED <<arrived, aborted, running, reqs, freeSlots, adder, inflight, cursor,
                 finishedReqs, newFinished, replies, holds, freePages, pageTable>>

----------------------------------------------------------------------------
(* _prepare_batch allocates the pages of the batch, evicting if it must,   *)
(* then _forward runs it: complete_one for each request, and filter_reqs   *)
(* after a decode.                                                         *)
EvictForBatch ==
  /\ pc = "allocate"
  /\ EvictOne(BatchReqs)
  /\ UNCHANGED schedVars

Advanced(r) == [r EXCEPT !.cached = r.device, !.device = r.device + 1]
InBatch(b) == {b.reqs[i].uid : i \in 1..Len(b.reqs)}

Forward ==
  /\ pc = "allocate"
  /\ AllocatePaged(BatchReqs)
  /\ reqs' = [u \in Uids |-> IF u \in InBatch(batch) THEN Advanced(reqs[u]) ELSE reqs[u]]
  /\ running' = IF batch.phase = "decode"
                THEN {u \in running \cup InBatch(batch) : CanDecode(reqs'[u])}
                ELSE running
  /\ pc' = "process"
  /\ UNCHANGED <<arrived, aborted, pending, freeSlots, adder, batch, inflight, cursor,
                 finishedReqs, newFinished, streak, replies, holds>>

----------------------------------------------------------------------------
(* _process_last_data: of the batch just run, or with overlap of the one   *)
(* before it.                                                              *)
Results == IF Overlap THEN inflight ELSE batch
Current == Results.reqs[cursor]

SkipChunk ==
  /\ pc = "process" /\ cursor <= Len(Results.reqs) /\ Current.chunked
  /\ cursor' = cursor + 1
  /\ UNCHANGED <<pc, arrived, aborted, pending, running, reqs, freeSlots, adder, batch,
                 inflight, finishedReqs, newFinished, streak, replies, holds, cacheVars>>

Appended(token) == LET r == reqs[Current.uid] IN [r EXCEPT !.ids = Append(r.ids, token)]
Finished(token) == ~CanDecode(reqs[Current.uid]) \/ token = Eos

(* Mutant of FirstFinish: the second finish of a request is not skipped.   *)
AnyFinish(token) == Finished(token)

FirstFinish(token) == Finished(token) /\ Current.uid \notin finishedReqs

(* When a request is freed that holds nothing any more, its row is free    *)
(* twice and two requests can write to it.  The model does not follow them *)
(* from there: it stops in the state that shows it.                        *)
ProcessReq(token) ==
  LET u == Current.uid
      r == Appended(token)
  IN /\ pc = "process" /\ cursor <= Len(Results.reqs) /\ ~Current.chunked
     /\ replies' = [replies EXCEPT ![u] =
                      Append(@, [eos |-> token = Eos, finished |-> Finished(token)])]
     /\ \/ /\ FirstFinish(token)
           /\ pc' = IF u \in holds THEN pc ELSE "freed twice"
           /\ RemoveReq(u)
           /\ FreeReqResources(r, u)
           /\ newFinished' = newFinished \cup {u}
           /\ reqs' = [reqs EXCEPT ![u] = r]
        \/ /\ ~FirstFinish(token) /\ Results.phase = "prefill"
           /\ running' = running \cup {u}
           /\ CacheReq(r, FALSE)
           /\ reqs' = [reqs EXCEPT ![u] = [r EXCEPT !.handle = ReqKey(r)]]
           /\ UNCHANGED <<pc, freeSlots, holds, newFinished>>
        \/ /\ ~FirstFinish(token) /\ Results.phase # "prefill"
           /\ reqs' = [reqs EXCEPT ![u] = r]
           /\ UNCHANGED <<pc, running, freeSlots, holds, newFinished, cacheVars>>
     /\ cursor' = cursor + 1
     /\ UNCHANGED <<arrived, aborted, pending, adder, batch, inflight, finishedReqs, streak>>

(* Mutant of RememberFinished: what finished is forgotten at once.         *)
ForgetFinished == finishedReqs' = {}

(* finished_reqs is what the last batch that was processed has finished.   *)
RememberFinished == finishedReqs' = IF Results = NoBatch THEN finishedReqs ELSE newFinished

(* The end of an iteration.  A Req that neither a batch nor a list refers  *)
(* to any more is garbage.                                                 *)
EndIteration ==
  /\ pc = "process" /\ cursor > Len(Results.reqs)
  /\ RememberFinished
  /\ newFinished' = {}
  /\ inflight' = IF Overlap THEN batch ELSE NoBatch
  /\ batch' = NoBatch
  /\ reqs' = [u \in Uids |-> IF u \in holds \cup InBatch(inflight') THEN reqs[u] ELSE None]
  /\ adder' = NoAdder
  /\ cursor' = 1
  /\ pc' = "receive"
  /\ UNCHANGED <<arrived, aborted, pending, running, freeSlots, streak, replies, holds, cacheVars>>

----------------------------------------------------------------------------
(* The asserts end the process: those of evict and _allocate, and the one  *)
(* of lock_handle when a result releases or moves a lock.                  *)
Crash(assert) ==
  /\ pc' = assert
  /\ UNCHANGED <<arrived, aborted, pending, running, reqs, freeSlots, adder, batch, inflight,
                 cursor, finishedReqs, newFinished, streak, replies, holds, cacheVars>>

EvictFails == /\ pc = "allocate" /\ MustEvict(BatchReqs) /\ ~CanEvict(BatchReqs)
              /\ Crash("out of pages")

ProcessFails(token) ==
  /\ pc = "process" /\ cursor <= Len(Results.reqs) /\ ~Current.chunked
  /\ FirstFinish(token) \/ Results.phase = "prefill"
  /\ ~CacheReqAsserts(Appended(token))
  /\ Crash("unlock failed")

Loop == \/ StartPrefill \/ SkipPrefill \/ AdmitChunk \/ AdmitNew \/ StopAdmitting
        \/ EvictForBatch \/ EvictFails \/ Forward
        \/ SkipChunk \/ EndIteration
        \/ \E token \in Vocab : ProcessReq(token) \/ ProcessFails(token)

Environment == \/ \E u \in Uids : ReceiveUser(u) \/ ReceiveAbort(u)
               \/ BecomeUrgent

Next == Loop \/ Environment
Spec == Init /\ [][Next]_vars

(* run_forever never stops by itself: unless it is blocked for a message   *)
(* or dead, it goes on to the next phase or the next result.  (No phase    *)
(* goes on for ever, so this says that every started iteration ends.)      *)
(* Time passes: a request that keeps waiting becomes urgent.               *)
Stopped == {"out of pages", "unlock failed", "freed twice"}
LoopReady == pc \notin Stopped /\ ~(pc = "receive" /\ Idle)
LoopMoves == /\ LoopReady
             /\ pc' \in {"receive", "admit", "allocate", "process"} \cup Stopped
             /\ cursor' \in 1..(Cardinality(Uids) + 1)
FairSpec == Spec /\ WF_<<pc, cursor>>(LoopMoves) /\ SF_pending(BecomeUrgent)

----------------------------------------------------------------------------
Paths == DOMAIN tree.span
Private(u) == SubSeq(pageTable[reqs[u].slot], Len(reqs[u].handle) + 1, PagesFor(reqs[u].cached))

TypeOK ==
  /\ pc \in {"receive", "admit", "allocate", "process"} \cup Stopped
  /\ aborted \subseteq arrived /\ arrived \subseteq Uids
  /\ running \subseteq Uids /\ holds \subseteq Uids
  /\ freePages \in Seq(Page) /\ pageTable \in [Slot -> Seq(Page)]
  /\ freeSlots \in Seq(Slot)
  /\ \A u \in holds : /\ reqs[u] \in Request
                      /\ reqs[u].cached < reqs[u].device /\ reqs[u].device <= reqs[u].maxDevice
  /\ \A i \in 1..Len(pending) : pending[i].uid \in arrived /\ pending[i].uid \notin running

(* Each page is exactly once in the free list, in the cache under one key, *)
(* or in the private part of one request, through admission, chunks,       *)
(* duplicates, aborts and the end of requests (cache_req, _allocate).      *)
PagesPartition == EachPageOnce([u \in holds |-> Private(u)])

(* Each row of the page table is free once or held by one request          *)
(* (table_manager.allocate and free, _free_req_resources).                 *)
SlotsPartition ==
  /\ Len(freeSlots) + Cardinality(holds) = NumSlots
  /\ ToSet(freeSlots) \cup {reqs[u].slot : u \in holds} = Slot

(* ref_count counts the requests that hold a prefix through the node, and  *)
(* no held prefix has left the tree.                                       *)
LocksExact ==
  /\ \A u \in holds : reqs[u].handle \in Nodes(tree) \cup {<<>>}
  /\ \A n \in Nodes(tree) : tree.ref[n] = Cardinality({u \in holds : IsPrefix(n, reqs[u].handle)})

(* What prefill admission is for: no assert of _allocate, evict or         *)
(* lock_handle ever fails, so the scheduler process never dies of them.    *)
NeverCrashes == pc \notin {"out of pages", "unlock failed"}

(* run_when_idle calls check_integrity, which must find every page free or *)
(* cached; at that point nothing may be held either.                       *)
IdleIntegrity ==
  pc = "receive" /\ Idle =>
    /\ holds = {}
    /\ Len(freePages) + tree.evictable + tree.protected = NumPages
    /\ tree.protected = 0 /\ Len(freeSlots) = NumSlots

(* The replies of a request are one stream: nothing follows its finished   *)
(* reply, and it ends at EOS or with exactly its max_tokens.               *)
RepliesEnd ==
  \A u \in Uids : \A i \in 1..Len(replies[u]) :
    replies[u][i].finished => /\ i = Len(replies[u])
                              /\ replies[u][i].eos \/ i = OutputLen(u)

(* No request gets more replies than the tokens it may have, one that is   *)
(* dropped for its length none (max_tokens, max_device_len).               *)
NoExcess == \A u \in Uids : Len(replies[u]) <= IF TooLong(u) THEN 0 ELSE OutputLen(u)

(* finished_reqs remembers one batch: that is enough, for a request that   *)
(* was freed is never in a batch still to be processed without being in it.*)
FinishedRemembered ==
  pc = "receive" =>
    \A i \in 1..Len(inflight.reqs) :
      ~inflight.reqs[i].chunked /\ inflight.reqs[i].uid \notin holds
        => inflight.reqs[i].uid \in finishedReqs

(* The overlapped loop frees twice, or fails the assert of an unlock, only *)
(* while it processes results of a request whose abort was received and    *)
(* that holds nothing: finished_reqs guards the other ends.                *)
FaultsAreAborts ==
  pc \in {"unlock failed", "freed twice"} => \E u \in aborted \cap InBatch(Results) : u \notin holds

(* An abort takes effect at once and for good: the request holds nothing   *)
(* from then on, and gets no reply any more.                               *)
AbortEnds == [][/\ \A u \in aborted' : u \notin holds'
                /\ \A u \in aborted : replies'[u] = replies[u]]_vars

(* Every request that is not dropped or aborted is answered to its end.    *)
Ended(u) == \E i \in 1..Len(replies[u]) : replies[u][i].finished
AllAnswered == \A u \in Uids : u \in arrived ~> Ended(u) \/ TooLong(u) \/ u \in aborted

----------------------------------------------------------------------------
(* The scheduler and its cache manager implement the prefix store: what    *)
(* CacheClients shows for requests in any order holds for batches, chunks, *)
(* admission and aborts too.                                               *)
Abstract == INSTANCE PrefixStore WITH
  Clients <- Uids,
  Pages   <- Page,
  Nobody  <- None,
  store   <- tree.page,
  free    <- ToSet(freePages),
  held    <- [u \in Uids |-> IF u \in holds THEN reqs[u].handle ELSE None],
  owned   <- [u \in Uids |-> IF u \in holds THEN ToSet(Private(u)) ELSE {}]

ImplementsPrefixStore == Abstract!Spec
=============================================================================
