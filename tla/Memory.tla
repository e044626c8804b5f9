------------------------------- MODULE Memory -------------------------------
(***************************************************************************)
(* What the device computes for the batches of Scheduler: the token pool   *)
(* of the table manager, the KV cache, the layout of a batch that the      *)
(* scheduler, the graph runner and the attention back ends prepare, and    *)
(* the tokens that are sampled.                                            *)
(*                                                                         *)
(* The numbers of a tensor are abstracted to the tokens they depend on: the*)
(* key and value stored for a token are the sequence of tokens they were   *)
(* computed from, and so is the row of logits a token is sampled from.  A  *)
(* computation that mixes up two sequences yields Garbage.                 *)
(*                                                                         *)
(* The module declares the memory and gives what each operation does to    *)
(* it; Serving puts them into the actions of Scheduler.                    *)
(***************************************************************************)
EXTENDS Scheduler

CONSTANTS
  Backend,      \* attention backend of each phase: "fa", "fi" or "trtllm"
  GraphSizes,   \* graph_bs_list, the batch sizes with a CUDA graph
  TableWidth    \* columns of page_table and of token_pool

ASSUME BackendAssumption ==
  /\ Backend \in [{"prefill", "decode"} -> {"fa", "fi", "trtllm"}]
  /\ PageSize = 1 \/ "fi" \notin Range(Backend)
ASSUME GraphAssumption == GraphSizes \subseteq Nat \ {0}
ASSUME TableWidthAssumption == TableWidth \in Nat /\ TableWidth >= MaxSeqLen

VARIABLES
  pool,        \* token_pool
  kv,          \* what each location of the KV cache was computed from
  sampled,     \* the results of batch: next_tokens and what they follow from
  lastSampled, \* the results of inflight
  late,        \* writes of the last batch to the pool, still to land
  spoilt       \* history: a row was overwritten, or a page that it reads was freed

memVars == <<pool, kv, sampled, lastSampled, late, spoilt>>

Garbage == <<>>

(* The dummy request has a row and a page of its own, both behind the last.*)
DummyReq == [slot |-> NumSlots, cached |-> 0, device |-> 1]

(* Mutant of DummyLocation: the cache has no page beyond num_pages.        *)
LastLocation == (NumPages - 1) * PageSize

DummyLocation == NumPages * PageSize
Location == 0..((NumPages + 1) * PageSize - 1)

MemInit ==
  /\ pool = [s \in Slot \cup {NumSlots} |-> [p \in 1..TableWidth |-> 0]]
  /\ kv = [l \in Location |-> Garbage]
  /\ sampled = <<>> /\ lastSampled = <<>>
  /\ late = {} /\ spoilt = FALSE

----------------------------------------------------------------------------
(* The requests of a batch as the device sees them: pad_batch fills a      *)
(* decode up to the next size that has a graph.                            *)
GraphMax == Max(GraphSizes \cup {0})
CanUseGraph == batch.phase = "decode" /\ Len(batch.reqs) <= GraphMax
PaddedSize == IF CanUseGraph THEN Min({n \in GraphSizes : n >= Len(batch.reqs)})
              ELSE Len(batch.reqs)
Padding == [i \in 1..(PaddedSize - Len(batch.reqs)) |-> DummyReq]

(* Mutant of PaddedReqs: the padding comes first.                          *)
PaddedInFront == Padding \o BatchReqs
PaddedReqs == BatchReqs \o Padding

ExtendLen(r) == r.device - r.cached

(* One value for each new token of each request, in the order of the batch.*)
Flat(rs, Value(_, _)) ==
  FlattenSeq([i \in DOMAIN rs |->
                [k \in 1..ExtendLen(rs[i]) |-> Value(rs[i], rs[i].cached + k - 1)]])

Positions(rs) == Flat(rs, LAMBDA r, p : p)
InputRows(rs) == Flat(rs, LAMBDA r, p : r.slot)

(* The entry of the page table for a token: rows hold the pages, expanded  *)
(* to locations (_page_to_token); what was never written is zero.          *)
TableEntry(table, row, p) ==
  IF row = NumSlots THEN DummyLocation
  ELSE IF p \div PageSize >= Len(table[row]) THEN 0
  ELSE table[row][p \div PageSize + 1] * PageSize + (p % PageSize)

(* Mutant of WritePosition: computed from what was cached before.          *)
BehindCached(r, isChunk) == IF CanDecode(r) /\ ~isChunk THEN r.cached + 1 ELSE TableWidth - 1

(* Where the sampled token of a request goes: behind its last one, or into *)
(* the last column (-1) when nothing will read it.                         *)
WritePosition(r, isChunk) == IF CanDecode(r) /\ ~isChunk THEN r.device ELSE TableWidth - 1

----------------------------------------------------------------------------
(* prepare_metadata of the attention back ends.                            *)
Cumulated(lengths) == [i \in 0..Len(lengths) |-> FoldLeft(+, 0, SubSeq(lengths, 1, i))]
SeqlensQ(rs) == [i \in DOMAIN rs |-> ExtendLen(rs[i])]
SeqlensK(rs) == [i \in DOMAIN rs |-> rs[i].device]

CuSeqlensQ(rs) ==
  IF \A i \in DOMAIN rs : ExtendLen(rs[i]) = 1 THEN [i \in 0..Len(rs) |-> i]
  ELSE IF \A i \in DOMAIN rs : rs[i].cached = 0 THEN Cumulated(SeqlensK(rs))
  ELSE Cumulated(SeqlensQ(rs))

(* Where the kernel finds the keys of request i: FlashInfer in one ragged  *)
(* list of locations, the other two in a table with the pages of each row. *)
RaggedKeys(rs) ==
  LET indices == FlattenSeq([i \in DOMAIN rs |->
                   [q \in 1..rs[i].device |-> TableEntry(pageTable', rs[i].slot, q - 1)]])
      cuK == Cumulated(SeqlensK(rs))
  IN [i \in DOMAIN rs |-> SubSeq(indices, cuK[i - 1] + 1, cuK[i])]
PagedKeys(rs) ==
  LET page(i, b) == TableEntry(pageTable', rs[i].slot, b * PageSize) \div PageSize
  IN [i \in DOMAIN rs |-> [q \in 1..rs[i].device |->
        page(i, (q - 1) \div PageSize) * PageSize + ((q - 1) % PageSize)]]

(* The queries of a request are its last positions: the kernels with one   *)
(* list of queries split it by cu_seqlens_q, the decode kernels of         *)
(* FlashInfer and TensorRT-LLM have one query for each request.            *)
VarlenQuery(rs, f) ==
  LET cuQ == CuSeqlensQ(rs)
      i == CHOOSE j \in DOMAIN rs : cuQ[j - 1] < f /\ f <= cuQ[j]
  IN [req |-> i, pos |-> rs[i].device - (cuQ[i] - f) - 1]
DecodeQuery(rs, f) == [req |-> f, pos |-> rs[f].device - 1]

(* The rows that LMHead takes: the last one of each request of a prefill.  *)
LastIndices(cuQ) == [i \in DOMAIN batch.reqs |-> IF batch.phase = "prefill" THEN cuQ[i] ELSE i]

BackendOf(phase) == Backend[phase]

(* A batch as _prepare_batch leaves it.                                    *)
Prepared ==
  LET rs == PaddedReqs
      backend == BackendOf(batch.phase)
  IN [positions |-> Positions(rs),
      rows      |-> InputRows(rs),
      outLoc    |-> Flat(rs, LAMBDA r, p : TableEntry(pageTable', r.slot, p)),
      keys      |-> IF backend = "fi" THEN RaggedKeys(rs) ELSE PagedKeys(rs),
      query     |-> [f \in DOMAIN Positions(rs) |->
                       IF batch.phase = "decode" /\ backend # "fa" THEN DecodeQuery(rs, f)
                       ELSE VarlenQuery(rs, f)],
      last      |-> LastIndices(CuSeqlensQ(rs))]

(* The forward pass, token by token: its key and value are stored at       *)
(* out_loc, and attention reads those of the positions up to its own.      *)
(* `from` is what the logits of each token were computed from.             *)
AttendTo(mem, b, f, token) ==
  LET keys == b.keys[b.query[f].req]
      pos == b.query[f].pos
      before == IF pos = 0 THEN <<>> ELSE mem[keys[pos]]
  IN IF /\ pos = b.positions[f] /\ keys[pos + 1] = b.outLoc[f]
        /\ \A g \in DOMAIN b.outLoc \ {f} : b.outLoc[g] # b.outLoc[f]
        /\ Len(before) = pos /\ \A p \in 1..pos : mem[keys[p]] = SubSeq(before, 1, p)
     THEN Append(before, token)
     ELSE Garbage

StoreKv(mem, loc, content) == [mem EXCEPT ![loc] = content]

Computed(b, inputIds) ==
  FoldLeftDomain(LAMBDA acc, f :
      LET content == AttendTo(acc.kv, b, f, inputIds[f])
      IN [kv |-> StoreKv(acc.kv, b.outLoc[f], content), from |-> Append(acc.from, content)],
    [kv |-> kv, from |-> <<>>], inputIds)

(* _forward: the input ids are taken from the pool, in the stream where    *)
(* the writes of the batch before it have landed; the sampled tokens are   *)
(* written back, with overlap some time later.                             *)
Landed(row, writes) ==
  [p \in 1..TableWidth |-> IF \E w \in writes : w.pos = p - 1
                           THEN (CHOOSE w \in writes : w.pos = p - 1).token ELSE row[p]]
AllLanded(rows, writes) == [s \in DOMAIN rows |-> Landed(rows[s], {w \in writes : w.row = s})]

RunBatch ==
  LET b == Prepared
      before == AllLanded(pool, late)
      after == Computed(b, [f \in DOMAIN b.rows |-> before[b.rows[f]][b.positions[f] + 1]])
  IN \E tokens \in [DOMAIN batch.reqs -> Vocab] :
       LET writes == {[row |-> BatchReqs[i].slot, token |-> tokens[i],
                       pos |-> WritePosition(BatchReqs[i], batch.reqs[i].chunked)]
                      : i \in DOMAIN batch.reqs}
       IN /\ kv' = after.kv
          /\ sampled' = [i \in DOMAIN batch.reqs |-> [token |-> tokens[i], from |-> after.from[b.last[i]]]]
          /\ pool' = IF Overlap THEN before
                     ELSE AllLanded(before, writes)
          /\ late' = IF Overlap THEN writes ELSE {}
          /\ UNCHANGED <<lastSampled, spoilt>>

(* Admission copies what it adds of a prompt to the row.  With overlap the *)
(* copy runs beside the last batch, whose results may land before it or    *)
(* after it, on top of the prompt.                                         *)
CopyPrompt(u, first) ==
  LET r == reqs'[u]
      clash == {w \in late : w.row = r.slot /\ first <= w.pos /\ w.pos < r.device}
  IN /\ pool' = [pool EXCEPT ![r.slot] = Overwrite(@, first, SubSeq(Prompt[u], first + 1, r.device))]
     /\ \/ late' = late \ clash /\ UNCHANGED spoilt
        \/ clash # {} /\ UNCHANGED late /\ spoilt' = TRUE
     /\ UNCHANGED <<kv, sampled, lastSampled>>

NextIteration ==
  /\ lastSampled' = IF Overlap THEN sampled ELSE <<>>
  /\ sampled' = <<>>
  /\ UNCHANGED <<pool, kv, late, spoilt>>

(* cache_req gives away the pages of a row that another request has cached *)
(* meanwhile; a request that goes on still reads them.                     *)
GivesAway(token) ==
  LET r == Appended(token)
  IN Results.phase = "prefill" /\ ~FirstFinish(token) /\ FreedPages(r, FALSE) # <<>>

(* The samples that are processed, next to Results.                        *)
Samples == IF Overlap THEN lastSampled ELSE sampled
=============================================================================
