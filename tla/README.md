# TLA+ verification of mini-sglang

This directory holds a TLA+ model of mini-sglang (`src/python/minisgl`): the start of
the server, the way of a request through its processes, the scheduler with its cache, the
memory its batches read and write, and the layers on several ranks; TLC configurations
that check it on small instances, and TLAPS proofs. File names below are relative to `src/python/minisgl`.

Run a check with `tlc -config <X>.cfg <Module>`, a proof with `tlapm <Module>.tla`.

## 1. The system

A server is a set of processes joined by ZeroMQ queues:

    clients -> API server -> tokenizer(s) -> scheduler, one per TP rank
       ^            ^                                |
       |            +------- detokenizer <-----------+

| component | state | operations | interacts with |
|---|---|---|---|
| prefix cache, radix (`kvcache/radix_cache.py`) | the tree; `ref_count`, `timestamp` of its nodes; `evictable_size`, `protected_size` | `match_prefix`, `insert_prefix`, `lock_handle`, `evict`, `split_at` | called by the cache manager |
| prefix cache, naive (`kvcache/naive_cache.py`) | none | the same, trivial | as above |
| cache manager (`scheduler/cache.py`) | `free_slots` (pages), rows of the page table | `match_req`, `lock`, `unlock`, `allocate_paged`, `cache_req`, `check_integrity` | prefill manager (admission), scheduler (batches, results) |
| table manager (`scheduler/table.py`) | stack of free rows, token pool | `allocate`, `free`; the pool is written by admission and by results | prefill manager, scheduler |
| prefill manager (`scheduler/prefill.py`, `utils.py`) | `pending_list` and its unfinished chunks | `add_one_req`, `schedule_next_batch`, `abort_req` | the managers above |
| decode manager (`scheduler/decode.py`) | `running_reqs` | `filter_reqs`, `remove_req`, `abort_req`, `inflight_tokens`, `schedule_next_batch` | scheduler; its estimate goes to prefill |
| scheduler loop (`scheduler/scheduler.py`) | `finished_reqs`, decode streak, the batch in flight | `normal_loop`, `overlap_loop`, `_process_one_msg`, `_schedule_next_batch`, `_forward`, `_process_last_data` | everything above, engine, queues |
| requests and batches (`core.py`) | `cached_len`, `device_len`, `max_device_len`, `input_ids` | `complete_one`, `append_host`, `can_decode` | shared by the managers and the engine |
| engine, CUDA graphs, sampler (`engine/`) | KV tensors, page count, graphs | `__init__` with its collectives, `pad_batch`, `forward_batch` | scheduler; the engines of the other ranks |
| attention back ends (`attention/`) | metadata of a batch | `prepare_metadata`, `forward` | engine; the page table |
| scheduler I/O, ranks (`scheduler/io.py`, `utils/mp.py`) | queues | receive, broadcast, reply | tokenizers; the other ranks |
| API server (`server/api_server.py`) | `ack_map`, `event_map`, uid counter | `new_user`, `listen`, `wait_for_ack`, streams, `abort_user` | clients, tokenizer |
| tokenizer and detokenizer (`tokenizer/`) | `decode_map` | tokenize, detokenize, abort | API server, scheduler |
| metrics collector (`metrics/collector.py`) | counters, windows, per-request times | `request_*`, `set_*`, `get_snapshot` | called by the scheduler |
| offline LLM (`llm/llm.py`) | request queue, results | a scheduler without queues | is a scheduler |
| expert-parallel MoE (`moe/ep.py`) | dispatch buffers | `forward` with collectives | the other ranks |
| launcher (`server/launch.py`, `args.py`) | child processes | start-up handshake | all processes |
| weights and layers (`models/weight.py`, `layers/`, `models/`) | the shards of each rank | `load_weight`, `load_state_dict`, `forward` with its collectives | engine, the other ranks |
| kernels (`kernel/`) | none | key comparison, storing into the KV pool | cache, attention |

What is hard here:

* *Overlap.* `overlap_loop` processes the result of batch *n - 1* after it has
  scheduled and launched batch *n*. Everything the host reads of a request
  (`can_decode`, `running_reqs`, `finished_reqs`) has moved on meanwhile, and an
  abort can arrive in between.
* *Ownership of pages.* A page moves between the free list, the private part of a
  request and the shared tree; a prefix found shared at the end makes some private
  pages duplicates. Nothing is checked until the server is idle.
* *Reference counts in a tree that changes shape.* Nodes are split under the feet
  of the requests that hold them.
* *Admission by estimate.* Prefill promises pages it does not reserve; if the
  estimate is short, an assert kills the scheduler much later.
* *Liveness of a priority queue with chunked prompts*, and of the decode-first
  policy.
* *Disconnects and aborts* that race with replies, across four processes.
* *Two streams.* The engine reads tokens from a pool that the previous batch is still
  writing and that admission copies prompts into.
* *Indirection.* A token goes through a row, a page, a location, cumulated lengths and a
  padded batch, computed in four files by four back ends.
* *Agreement without a protocol.* Ranks decide everything on their own - how many pages,
  which batch, which collective - and a difference shows as a collective that hangs.

What makes each component correct:

| component | correctness |
|---|---|
| radix tree | it stays a radix tree; counts are exact; the sizes are exact; no unlock fails; an evictable page can be evicted |
| cache manager | each page is in one place; a held prefix stays cached at its pages; everything a request owned comes back |
| table, prefill, decode managers | each row free once or held once; no over-commitment; a chunked prompt is neither lost nor starved |
| scheduler | replies of a request form one stream that ends at EOS or at `max_tokens`; freed exactly once; abort is immediate and final; nothing held when idle; every request is answered |
| engine, attention, memory | a token is sampled from exactly the tokens before it; a cached page holds what its key says; padding disturbs nothing |
| metrics | what is tracked is what is unanswered; each answer is counted once, with its tokens |
| detokenizer | the pieces of text put together are the text of the tokens |
| launcher, engine start | ready means that all are there; a failure ends everyone; all engines agree on their sizes |
| weights and layers | the shards make up the model; every rank makes the same collectives; each expert sees its tokens |
| API server, tokenizers | a stream ends exactly once and gets its tokens in order; no reply waits unnoticed; an abandoned request ends and its entries go |
| ranks | all process the same messages in the same iteration and run the same batches, none waits for ever |

## 2. Modules

| module | role |
|---|---|
| `RadixTree` | the radix tree as a value, and every operation of `RadixPrefixCache` as an operator on it |
| `CacheManager` | state and operations of `CacheManager`, as actions over a request |
| `CacheClients` | requests that use the cache manager by its protocol, in every order |
| `PrefixStore` | abstract specification: what the cache manager promises |
| `Scheduler` | the scheduler process with prefill, decode and table managers, both loops, the P2 policy |
| `Memory` | token pool, KV cache, layout of a batch, attention, sampled tokens |
| `Metrics` | the collector as a value, its operations as functions |
| `Serving` | `Scheduler` with `Memory` and `Metrics`: each action with all it does |
| `Pipeline` | API server, tokenizer and detokenizer workers and the queues to an abstract scheduler |
| `Text` | `Pipeline` with the tokens and the text of the replies |
| `Ranks` | the schedulers of all tensor-parallel ranks, each with its clock, and the broadcast that feeds them |
| `Weights` | the shards of a checkpoint, the loading of the experts |
| `Startup` | launcher, workers, sockets; `Engine.__init__` on every rank, with its collectives and memory |
| `Experts` | a forward pass through the layers on all ranks, with fused or expert-parallel MoE |
| `Workers` | `Startup` followed by `Experts` |
| `MCCacheClients`, `MCScheduler`, `MCServing`, `MCPipeline`, `MCRanks`, `MCWorkers` | values of the constants for TLC |
| `PrefixStoreProofs`, `CacheManagerProofs`, `CacheClientsProofs`, `SchedulerProofs`, `ServingProofs`, `PipelineProofs`, `RanksProofs`, `WorkersProofs` | proofs |

`CacheManager` extends `RadixTree`; `CacheClients` and `Scheduler` extend
`CacheManager`, so both drive the *same* definitions of the cache operations.
Both instantiate `PrefixStore` under a refinement mapping. `Memory` extends `Scheduler`,
`Serving` extends `Memory` and `Metrics`; `Text` extends `Pipeline`; `Startup` and
`Experts` extend `Weights`, and `Workers` both of them.

### RadixTree, CacheManager, CacheClients

A **block** stands for the `page_size` tokens of one page; the code keeps all
lengths in the tree multiples of it. A **node is named by its whole key from the
root**. `split_at` keeps the lower half as the same Python object, so the name of a
node never changes while it lives and a cache handle is the name of a node. The
record has `ref` and `ts` for each node, and for each cached key prefix the node
that spans it and its page. Timestamps are kept as ranks, as the code only compares
them; `evict` is one `RemoveLeaf` per popped leaf, and ties in the heap are any choice.
As in the code, the two halves of a node that is matched in part keep the old timestamp.

`CacheReq(r, finished)` is the whole of `cache_req`: insert (with the walk, its split
and its timestamps), unlock of the old handle, free of the duplicates and of the
tail, lock of the new handle. `EvictOne` and `AllocatePaged` are `_allocate`: evict
until the free pages suffice, then take them from the front. `pageTable` keeps what
was written to a row, as the tensor does: a row is never cleared, only overwritten.
`lazy_free_region` collects what is freed in one pass over results and appends it
at the end; here each append happens at once, which gives the same list, for
nothing reads it in between.

`CacheClients` is the protocol alone: `Start` (match, lock, row), `Refuse` (match,
does not fit), `Evict` and `Forward` (a batch of this request), `CachePrompt`,
`Finish`. Start has the exact reservation rule, in pages; the estimate in tokens is
`Scheduler`'s subject.

### Scheduler

The scheduler has one thread. An iteration is cut where it makes a choice:

| `pc` | code | actions |
|---|---|---|
| receive | `receive_msg`, `_process_one_msg`, start of `_schedule_next_batch` | `ReceiveUser`, `ReceiveAbort`, `BecomeUrgent`, `StartPrefill`, `SkipPrefill` |
| admit | `PrefillManager.schedule_next_batch` | `AdmitChunk`, `AdmitNew`, `StopAdmitting` |
| allocate | `_prepare_batch`, `_forward` | `EvictForBatch`, `Forward`, `EvictFails` |
| process | `_process_last_data` | `SkipChunk`, `ProcessReq`, `ProcessFails`, `EndIteration` |

`Overlap` decides whether `process` handles the batch of this iteration or the one
before (`inflight`, `last_data` in the code). Choices left open:

* order of a decode batch: `running_reqs` is sorted by clocks (`decode.py:43-61`),
  any order is taken;
* the P2 governor compares measured step times: with requests to decode and the
  streak reached, it may agree or not, `P2Governor` permitting;
* the reordering of the pending list (`Reordered`): the list whose elements are those of
  the old one in the order of their keys, by its definition and not by an algorithm;
* the sampled token: any of `Vocab`. `ignore_eos` is a vocabulary without `Eos`
  being looked at; the reply records whether EOS ended it;
* time: `BecomeUrgent` makes the oldest waiting request urgent at any receive.

`max_tokens` is at least 1 (0 is accepted by the API server and is a hazard of its
own), and `MaxSeqLen <= NumPages * PageSize` as `engine.py:75` makes it. A failed
assert ends the process, and `pc` names it: `"out of pages"` (an assert of `_allocate`
or `evict`) or `"unlock failed"` (the one of `lock_handle`). Where a request is freed that holds
nothing, `pc` becomes `"freed twice"` and the model stops: in the code two requests
would share a row from there.

History variables: `holds` (between table `allocate` and `free`), `replies`,
`arrived`, `aborted`.

### Memory, Metrics, Serving

`Scheduler` leaves open which token is sampled. `Serving` takes it from the memory. A number
of a tensor is abstracted to the *tokens it depends on*: what is stored at a location of
the KV cache, and the row of logits a token is sampled from, is the sequence of tokens it was
computed from, and `Garbage` as soon as two sequences are mixed. So `TokensExact` compares a
sequence of tokens with a sequence of tokens and finds every wrong index on the way.

| code | definitions |
|---|---|
| `pad_batch`, `dummy_req`, `dummy page` | `PaddedReqs`, `DummyReq`, `DummyLocation` |
| `_make_positions`, `_make_input_tuple`, `_make_write_tuple` | `Positions`, `InputRows`, `WritePosition` |
| `prepare_metadata` of `fa.py`, `fi.py`, `trtllm.py` | `CuSeqlensQ`, `RaggedKeys`, `PagedKeys`, `VarlenQuery`, `DecodeQuery` |
| `HybridBackend` | `BackendOf` |
| `forward`, `store_cache`, `get_last_indices` | `AttendTo`, `StoreKv`, `LastIndices` |
| `_forward` in the engine stream | `RunBatch` |
| the copy of a prompt in `_add_one_req` | `CopyPrompt` |
| `MetricsCollector.request_*` | `RequestArrived`, `RequestOutputToken`, `RequestCompleted`, `RequestAborted` |

With overlap the sampled tokens of a batch are written to the pool some time before the next
batch reads it (`late`): that order is given by the stream. The copy of a prompt runs in the
scheduler's stream, beside it; when it hits the same places of a row that was freed and taken again, either
may come last. Where the old result comes last, and where `cache_req` frees pages that the
row of a request goes on reading, the history variable `spoilt` is set: these are
the two ways in which the code computes a wrong token, and `TokensExact` and `CacheExact` say
that there is no third one. Without the exemption TLC violates `TokensExact` in
`sched_normal` and in `sched_overlap`; `viol_rows` is the second of the two. It takes no
coincidence: a prompt that is sent again after its end, and that fills its pages exactly (with pages of one token
each does), matches all but its last page, since its last token is always computed. Its own copy of that page is
freed, stays in its row, and is read by its decodes.

`MetricsExact` takes the output tokens as the collector does: they are added when a request is completed, as
`docs/metrics_implementation.md:373` says. The line "Total number of output tokens generated" of `docs/metrics.md:28` reads as
if those of running and aborted requests were in it too.

Left out: sampling parameters (any token of the vocabulary is sampled), the capture of
graphs and its buffers, times, percentiles, gauges and cache-hit counters of the collector, and
the text of its report.

### Pipeline

One stream for each request, from `generate` to `[DONE]`, and the five queues it
crosses: API server to worker, worker to scheduler, scheduler to detokenizer,
detokenizer to API server, and the list of `ack_map`.

| code | actions |
|---|---|
| `generate`, `v1_completions`, `new_user` | `Generate` |
| `listen` | `Listen` |
| `wait_for_ack` from its event to its first yield | `WakeUp` |
| one chunk of `stream_generate` or `stream_chat_completions`, and `[DONE]` | `Deliver`, `Close` |
| `stream_with_cancellation`, `abort_user` | `Disconnect`, `Cancel`, `AbortUser` |
| `tokenize_worker` | `Encode`, `Detokenize` |
| `_process_one_msg`, `_process_last_data` as the queues see them | `TakeUser`, `TakeAbort`, `Reply`, `Trail` |

The event loop has one thread, so the tasks of the API server are cut at their
awaits and nowhere else. What is abstracted:

* a batch of messages is its messages one by one: with `local_bs` 1 a worker has
  one message of the API server or one batch of the scheduler at a time, and
  `listen` unpacks a batch in order;
* in the direction of replies there is a queue for each request. ZeroMQ keeps
  one order for all of them; no handler looks at the order of two requests;
* the abstract scheduler has what `Scheduler` shows: a reply per step, the early
  `finished` of the overlapped loop and the second finished reply (`Trail`),
  the abort that is lost while a prefill is in flight, the request that is dropped;
* a cancellation reaches the generator once it runs; one that the web framework
  raises earlier, while the request is still being sent, is not modelled;
* `Close` keeps the entries of `ack_map` and `event_map`, as the code does: its
  generator is left before the lines that delete them.

### Text

The detokenizer's offsets over an abstract tokenizer: a token is a sequence of characters
and of halves of a character that needs two tokens, and decoding drops a leading space, which is
why `detokenize` decodes from `surr_offset` on. `DetokenizeText` is the whole of
`detokenize` for one message, with `find_printable_text`. The vocabulary of the run has
spaces, letters of a CJK block, and halves. With one more token, a CJK character and
a half without a space, the invariants held too.

It does not hold for every vocabulary. Of a text that ends in half a character `find_printable_text` returns
everything but that half if a CJK character is before it, and otherwise what leads up to the last
space. So when the half is completed by a token that ends in a half itself and has no space, the printable part becomes
shorter than it was, `sent_offset` moves back (`detokenize.py:106`), and what was sent is sent again. With
the tokens `<<"C", "lead">>`, `<<"trail", "x", "lead">>` and `<<"trail">>` TLC finds that the client gets the character `C` twice.

### Ranks

Every rank runs the scheduler loop on its own. `Scheduler` models one of them; `Ranks`
models what they share, with the scheduler reduced to its lists and lengths.

| code | actions |
|---|---|
| `_recv_msg_multi_rank0`: blocking `get_raw`, drain and broadcast of the count, publishing | `RootFirst`, `RootCount`, `RootRest` |
| `_recv_msg_multi_rank1`: blocking `get`, the count, that many messages | `FollowerFirst`, `FollowerCount`, `FollowerRest` |
| `_process_one_msg`, `_schedule_next_batch`, `_forward` | `Schedule` |
| `_process_last_data` | `Process` |

* Each rank decides on its own whether to block (`Blocking`), and rank 0 does not wait
  for the others in the broadcast: it may be iterations ahead while it launches no batch.
* A forward pass all-reduces in every layer, so its result is there when every rank has
  started that pass. Passes are matched by number. That is the kindest reading: ranks
  whose batches differ in shape would fail in the first all-reduce.
* `_reorder_pending` compares `time.perf_counter()` of this rank with the time at which
  this rank took the request. `Urgencies` lets each rank find any of the oldest requests
  urgent, and whatever it found urgent before.
* Admission takes the first `Budget` requests of the reordered list. What the code
  admits depends on the cache and the table, which are functions of the batches and
  messages before; chunks, refusals, the P2 policy and its governor (a second clock)
  are left out. A decode batch is a set: its order is not compared.
* ZeroMQ drops what a PUB socket cannot hold (1000 messages to a rank that is behind);
  queues are unbounded here.

### Weights, Startup, Experts, Workers

`Setups` are the configurations: sizes of the model, number of ranks, expert parallelism or
not, the MoE back end that is asked for, PyNCCL or not, number of tokenizers, free memory of each rank.

* `Weights` cuts a dimension as `torch.chunk` does and replicates heads of keys as
  `weight.py` does. `LoadTensor` reads one tensor of an expert in any order: `merge_buf` joins
  gate and up, `expert_buf` stacks by the local number, as the files may have them.
* `Startup` is one step of `at[r]` for each part of `Engine.__init__` and
  `Scheduler.__init__`. A collective is entered (`Enter`) and left when all have entered
  it (`Leave`, `SyncMemory`). A rank that fails an assert is dead (`Die`), the others wait in a collective until
  `Timeout`. Memory is counted in pages.
* The launcher starts the processes one after another and counts answers; the sockets are
  pairs of an address and a process.
* `Experts`: each rank's list of collectives with what it gave; one ends when all have made that
  entry. `moe_align_block_size` and the grid of the fused kernel decide which pairs are
  computed (`AlignedAt`, `MaxPadded`); `ep.py` is sort, counts, dispatch, compute, combine,
  unsort, with the fast path of a rank whose pairs are all its own.
* The back end and the cut of the weights are two options, in the code (`args.py:86-91` and 212-216)
  as in the model. `AdjustConfig` leaves `MoeBackend`: `auto`, the default, is `fused`, also with expert
  parallelism (`engine.py:355-357`). `FusedMoE` runs for `fused`, the steps of `ep.py` for `ep`, with
  the experts a rank has; `AfterExperts` leaves out the sum when `ep_size > 1`, whatever computed.
  `--ep-size n` alone is therefore a configuration of its own (`Mismatched`): numbers of the whole model index the
  experts of one rank, and nothing is exchanged or summed. A number beyond the table of `moe_align_block_size`
  is undefined behaviour, and its rows stand for anything (`{}`). The model routes the tokens alike on all ranks;
  after such a layer the ranks would differ, but no call depends on where a token goes with that back end.
* `Workers` lets a batch come once the server is ready.

`Engine` is modelled from `engine.py` as it stands although the file does not parse at
this commit: `_load_weight_state_dict` holds the residue of a merge (a second `else` in line
200, an unmatched brace in line 222). Of its branches the last one is modelled, the one that passes
`ep_size` to `load_weight`; that of int8 quantisation and the dummy weights are not.

### PrefixStore

Pages, a map from cached prefixes to pages, and for each client the prefix it holds
and the pages it owns. Five kinds of step: begin, take free pages, settle (cache a
longer key with owned pages; go on or end), drop (evict unheld prefixes, longest
first). No nodes, counts, timestamps, rows or lists.

## 3. Runs

Bounds are the constants in each `.cfg`: the numbers of requests, pages, rows and
tokens. No counter is capped otherwise: lengths end at `max_tokens` or `MaxLen`, the
streak is counted up to the threshold it is compared with, timestamps are ranks.
`CHECK_DEADLOCK FALSE` is set for the scheduler, the pipeline, the ranks and the workers: a
server that answered all its requests waits, and one whose ranks are dead has ended.

| run | instance | shows |
|---|---|---|
| `cache` | 2 requests, pages of 2 tokens, 5 pages, prompts of 3 and 4 tokens with a common page | tree shape, exact counts and sizes, no page lost or doubled, no failed assert, `CacheClients => PrefixStore`; two requests run at once, split, duplicate and evict each other's prefixes |
| `sched_normal` | `Serving`: 4 requests on 7 pages, 2 rows, 2 may abort, prompts in chunks; FlashAttention for prefill, FlashInfer for decode, a graph of size 2 | no over-commitment; slots; one complete stream of replies; immediate and silent aborts; every token sampled from exactly the tokens before it; cached pages hold what their key says; the counters of the metrics; `Scheduler => PrefixStore` |
| `sched_aborts` | overlap, 3 requests, 2 may abort, chunks, pages of 2 tokens, 5 pages | admission promises too much here and aborts hit decodes in flight: the only second frees and failed unlocks are those of a batch with an aborted request; no request gets more replies than tokens |
| `sched_overlap` | `Serving`: overlap, decode-first with governor and slices of 2 tokens, 3 requests on 12 pages of 2 tokens, TensorRT-LLM for prefill, FlashAttention for decode, graphs of size 1 and 2 | `finished_reqs` remembers enough; every token from the right sequence although it is read from the pool of the batch before; metrics; all are answered |
| `pipeline` | 2 requests through one worker and the overlapped loop, 3 tokens and 1, tokens of half a character, one request dropped as too long, clients leave at any time | a stream gets each token once and in order and ends once, also with the second finished reply, as the text the tokens stand for; no reply waits unnoticed; an abort comes after its request; every stream ends and every abandoned request too |
| `ranks` | 2 ranks, 2 requests and their aborts at any time, one request per prefill, overlap; one ends at its length, one at EOS with a decode in flight | as long as the clocks have led to the same decisions: same messages in the same iteration, same batches, every request ended by every rank |
| `workers` | 14 configurations of 1, 2 and 4 ranks: tensor and expert parallelism, each MoE back end with and without it, replicated heads, ranks that differ in memory, sizes that do not divide; 2 tokens, 2 experts each, 2 layers | ready means that all are there; each address is bound once and connected; same pages and graphs; the shards are the model; the layers compute what the routing says, unless experts are cut and the back end is `fused`; ranks make the same collectives; the server gets ready or every rank ends, and the pass ends |

Two rows for three or four requests makes requests wait for a row; 7 pages for
prompts of 2-3 tokens with 1-4 outputs makes them wait for pages and evict; prompts
that are equal, that share a prefix and that extend each other make every case of
the walk (no match, partial match with split, whole match) happen; 2 tokens per page
with prompts of odd length has whole pages and tails; budgets of 2-4 tokens make
prompts of 3-5 tokens chunked. In `pipeline`, three tokens are what the
second finished reply needs; the other request shares the queues of requests and
aborts, which are the only place where requests meet. Graphs of size 2 pad one decoding request, and graphs of both sizes pad none, so a
batch is computed with and without a dummy. In `ranks`, the second request is short and
overtakes the first unless that is urgent, so the clock decides the order, and one of
two requests is always left for the next batch. In `workers`, memory that differs by 1, 2 and
3 where 2 is allowed gives an agreement, a rank that cannot allocate its cache, and a
failure of all; two tokens of two experts each give empty, partial and full exchanges, and
blocks of 2 and 3 rows pads in each expert. For `ranks` the
normal loop, and for safety three ranks and three requests, gave the same result.

Five runs end in a violation; each is a behaviour of the code that contradicts a
comment, a document or an assert of the repository:

| run | what happens |
|---|---|
| `viol_double_free` | overlap: an abort frees a request whose last decode is in flight, the result frees it again; `finished_reqs` only remembers finishes |
| `viol_rows` | two prompts with a common uncached prefix prefilled together: the second request's duplicates are freed but remain in its row, and it goes on reading them |
| `viol_admission` | overlap: a request whose prefill is in flight is not in `running_reqs`, so its output is not in the estimate; a later allocation fails its assert |
| `viol_livelock` | a short request sorted before a half-chunked prompt blocks it, and cannot fit while the chunks hold their pages |
| `viol_ranks` | the clocks of two ranks find different requests urgent; after an abort one rank has a batch more than the other and waits for it in its forward pass, while the other waits for a message |

Hence `NeverCrashes`, `RowsExact`, `AbortEnds` and `RepliesEnd` are checked to hold only in the
instances above where the trigger is absent (no overlap, no simultaneous duplicates), and
liveness of the overlapped loop where there is room for all requests. This is a limit of
the code, not of the bounds; the proofs below have the same conditions and no others. With overlap and without other triggers, `AbortEnds` fails
because an abort during the prefill of a request finds it in neither manager and is lost,
and `RepliesEnd` because the reply of token `max_tokens - 1` says finished and one more
finished reply follows; `Pipeline` has both. `CallsMatch` and `Progress` except batches whose pairs
all belong to one rank (`AllOnOne`): it takes the fast path of `ep.py:182`, and the others wait
for it in the exchange; TLC shows that when the exception is removed.
`ForwardExact` except `Mismatched`, which is what a plain `--ep-size n` starts: the comment of
`layers/moe.py:58` says that "In EP mode, experts are already globally combined through all-to-all", but the back end that
does so is only used with `--moe-backend ep`. TLC violates `ForwardExact` in `workers` when this exception is
removed: with two ranks, four experts and tokens for the experts 0 and 1, rank 1 computes experts 2 and 3, keeps
them as its result, and no rank hears of another one's. `CallsMatch` and `Progress` hold there, as all ranks make the
same shorter list of calls. It is a limit of the code and has no run of its own.
`AbortAfterRequest` holds with one worker between API server and scheduler
(`num_tokenizer` 0 or 1); with two, the socket may give the abort to the other one
and TLC shows an abort that comes first.

Another one has no run of its own: the estimate of a request being admitted
(`prefill.py:60-63`) lacks the rounding to pages that `inflight_tokens` adds for a
running one, so with `PageSize = 3`, `NumPages = 3` and prompts of 4, 1 and 1 tokens
`NeverCrashes` is violated without overlap; with pages of at most two tokens the two terms
make up for it. And a request that is admitted while the chunk of an older one waits behind it is
admitted without the tokens which that one may still ask for, as `inflight_tokens` counts the running
requests only. A short answer overtakes a long one that way: with pages of one token, 8 of them,
`PrefillBudget = 4`, `ShortOutput = 2`, prompts of 5 and 2 tokens and 3 and 2 output tokens, no page is left for the
long one. Without these two the theorem `NeverCrashesHolds` (section 4) excludes the assert; `sched_normal` has pages of one token, and
holds with a short request among its four. The naive
cache (`Radix = FALSE`) is the instance of `viol_livelock`, and is covered by the proofs about
`CacheClients`, which hold for both values.

### Fairness

`FairSpec` of `Scheduler` assumes two things.

* `WF(LoopMoves)`: `run_forever` is a `while True` that blocks only for a message
  when it is idle; otherwise it reaches its next phase or its next result. The
  steps that do not change phase (admission of one more request, eviction of one
  more leaf) are finite in number in each iteration, so this is the progress of one
  thread and says nothing about which request is served.
* `SF(BecomeUrgent)`: time passes; a request that is pending again and again passes
  `max_wait_ms`. Strong, because the loop leaves `receive` in between.

`FairServingSpec` is the same assumption for `Serving`. Nothing is assumed about clients, and nothing about the governor: with `Sliced`
prefill the governor may refuse for ever while requests decode, but they end.

`FairSpec` of `Pipeline` assumes weak fairness of each task of the event loop
(`Listen`, `WakeUp`, `Deliver`, `Close`, the sleeping `AbortUser`): asyncio runs every
ready task; of each worker, a loop over `get`, whose PULL socket serves its senders
in turn; and of the scheduler, once for messages and once for the replies of each
request, which is what `AllAnswered` of the runs above shows where it holds. `Cancel`
is fair because a generator looks for the disconnect at each chunk and the
framework cancels it when it waits. Clients may never come and may stay for ever.

`FairTextSpec` is the same for `Text`, whose steps are those of `Pipeline`.

`FairSpec` of `Workers` is weak fairness of the launcher (a loop that spawns and then blocks on a
queue), of the workers and of each rank: each is a process that goes on as long as it can,
and one that waits for a dead rank times out (`distributed_timeout`; the communicator of PyNCCL
has no timeout, but all that can fail before it is the check of the configuration, and that
fails on all ranks).

`FairSpec` of `Ranks` is weak fairness of each rank: of its receive function, which
blocks in ZeroMQ or in gloo until what it waits for is there, and of the rest of its
loop. Requests and aborts need not come.

## 4. Proofs

For all values of the constants:

| theorem | statement |
|---|---|
| `TreeShapeHolds` | `CacheClients!Spec => []TreeShape` |
| `LocksExactHolds` | `CacheClients!Spec => []LocksExact` |
| `UnlockSucceedsHolds` | `CacheClients!Spec => []UnlockSucceeds` |
| `PagesPartitionHolds` | `CacheClients!Spec => []PagesPartition` |
| `ImplementsHolds` | `CacheClients!Spec => PrefixStore!Spec` under the mapping of `CacheClients` |
| `TypeOKHolds` (`CacheClientsProofs`) | `CacheClients!Spec => []TypeOK` |
| `SizesExactHolds` | `CacheClients!Spec => []SizesExact` |
| `EvictionSucceedsHolds` | `CacheClients!Spec => []EvictionSucceeds` |
| `StoreSafe` | `PrefixStore!Spec => [](OnePlace /\ HeldCached /\ Released)` |
| `StreamFaithfulHolds` | `Pipeline!Spec => []StreamFaithful` |
| `NoLostWakeupHolds` | `Pipeline!Spec => []NoLostWakeup` |
| `EndsOnceHolds` | `Pipeline!Spec => []EndsOnce` |
| `AbortOrderHolds` | with one worker, `Pipeline!Spec => []AbortAfterRequest` |
| `TypeOKHolds` | `Pipeline!Spec => []TypeOK` |
| `TextImplementsPipeline` | `TextSpec => Pipeline!Spec` |
| `TextStreamHolds` | `TextSpec => [](StreamFaithful /\ NoLostWakeup /\ EndsOnce)` |
| `TextFaithfulHolds` | `VocabOK`: `TextSpec => []TextFaithful` |
| `SlotsPartitionHolds` | `Scheduler!Spec => [](pc # "freed twice" => SlotsPartition)` |
| `NoFaults` | `~Overlap` or no aborts: `Scheduler!Spec => [](pc \notin {"unlock failed", "freed twice"} /\ SlotsPartition)` |
| `LocksExactHolds` (`SchedulerProofs`) | `Scheduler!Spec => [](pc # "freed twice" => LocksExact)` |
| `FaultsAreAbortsHolds` | `Scheduler!Spec => []FaultsAreAborts` |
| `NoExcessHolds` | `Scheduler!Spec => []NoExcess` (with overlap and aborts, until a request is freed twice) |
| `RepliesEndHolds` | `~Overlap`: `Scheduler!Spec => []RepliesEnd` |
| `FinishedRememberedHolds` | no aborts: `Scheduler!Spec => []FinishedRemembered` |
| `AbortEndsHolds` | `~Overlap`: `Scheduler!Spec => AbortEnds` |
| `PagesPartitionHolds` (`SchedulerProofs`) | `Scheduler!Spec => [](pc # "freed twice" => PagesPartition)` |
| `SchedulerImplementsHolds` | `~Overlap` or no aborts: `Scheduler!Spec => PrefixStore!Spec` under the mapping of `Scheduler` |
| `IdleIntegrityHolds` | `~Overlap` or no aborts: `Scheduler!Spec => [](pc # "freed twice" /\ IdleIntegrity)` |
| `NeverCrashesHolds` | `~Overlap`, `PageSize <= 2`, answers of one class (`OneClass`): `Scheduler!Spec => []NeverCrashes` |
| `ServingImplementsScheduler` | `ServingSpec => Scheduler!Spec` |
| `ServingNormal` | `~Overlap`: `ServingSpec => []SlotsPartition /\ []RepliesEnd /\ AbortEnds` |
| `ServingOverlap` | no aborts: `ServingSpec => []SlotsPartition /\ []FinishedRemembered` |
| `ServingPages` | `~Overlap` or no aborts: `ServingSpec => []PagesPartition /\ PrefixStore!Spec` |
| `ServingIdle` | `~Overlap` or no aborts: `ServingSpec => [](pc # "freed twice" /\ IdleIntegrity /\ NoExcess)` |
| `ServingNeverCrashes` | `~Overlap`, `PageSize <= 2`, `OneClass`: `ServingSpec => []NeverCrashes` |
| `ServingMetrics` | `~Overlap` or no aborts: `ServingSpec => []MetricsExact` |
| `ServingExact` | `~Overlap`: `ServingSpec => []TokensExact` (until `spoilt`) |
| `ServingCacheExact` | `~Overlap`: `ServingSpec => []CacheExact /\ SpoiltByCache` (until `spoilt`, and which step that is) |
| `ServingNaiveExact` | `~Overlap`, `~Radix`: `ServingSpec => []~spoilt /\ []TokensExact` |
| `RanksAgreeHolds` | `Ranks!Spec => []RanksAgree` |
| `EnginesAgreeHolds` | `Workers!Spec => []EnginesAgree` |
| `ReadyMeansAllHolds` | `Workers!Spec => []ReadyMeansAll` |
| `AddressesServedHolds` | `Workers!Spec => []AddressesServed` |
| `CallsMatchHolds` | `Workers!Spec => []CallsMatch` |
| `ShardsCoverHolds` | `Workers!Spec => []ShardsCover` |

The assumptions are those of the modules: positive page size, number of pages and
rows; prompts are non-empty sequences, no longer than `MaxLen` in `CacheClients` (the scheduler drops a
longer one, `scheduler.py:250`); finitely many requests; at least one rank, and a natural
number of tokenizers. The value that stands for "no request" is neither a request nor a key. Nothing is assumed about the memory of the ranks. For the scheduler:
budgets and `max_tokens` are positive, `MaxSeqLen` is a number, only known requests are aborted, and
`None` is neither a request nor a key. No bound relates prompts, pages and budgets, and the set of
requests may be infinite: an invariant says that those which have arrived are finitely many.

*Argument.* `LocksExact` is not inductive: a lock walks from a node to the root by
the spans, so its effect on `ref` is known only in a well-shaped tree, and a split
preserves the shape only because of where a match can end. `LocksInv` joins the shape
(`WellShaped`), the exact counts (`Counted`) and the typing of requests with
`cached < device = Len(ids)`, which makes the key of a request extend the handle it
held. `CacheManagerProofs` proves for each tree operation (touch, split, walk, lock,
unlock, add leaf, insert, remove leaf) that it keeps the shape and how it moves the
counts; `CacheClientsProofs` has one lemma per action. `EvictLocks` needs that a
removed leaf has no holder, which is `Counted` and `ref = 0`. `UnlockSucceeds` follows:
the node of a handle and all above it count that request.

The proof that a lock is exact covers splits by other requests: `split_at` copies the
count, and every holder of the lower node goes through the upper one.

`PagesInv` adds to `LocksInv` what the page table holds (`RowsInv`: the row of a request is long enough for
what it has computed and without repetition behind its handle; two requests have two rows; the handle
is the beginning of what the request computed) and the invariant of the abstract store under the mapping
(`Store!StoreInv`, proved in `PrefixStoreProofs` from the abstract actions alone). So *no page is in two
places* need not be proved twice: each action of the manager is shown to be an action of the store
(`StartBegins`, `ForwardPages`, `EvictDrops`, `CacheReqSettles`) and the store's lemmas give the invariant for the
next state. What is left for the concrete side is lists and arithmetic, in `CacheManagerProofs`: the
part of a row that is private is cut into duplicates, pages that the tree takes over and a remainder
(`OwnSplit`), and these are what `cache_req` frees, adds and keeps (`CacheReqFrees`, `CacheReqStores`); a batch cuts the
front of the free list into one part per request (`AllocateCuts`, `CutParts`); a cached prefix and the key of
what was computed agree (`KeyOfPrefix`); a removed leaf gives back the pages of its span, each once
(`PagesOfNode`, `EvictPages`). Sums over a batch are by definition folds over a set; that they are running totals
(`TotalsOfPrefixes`) is shown by the least length for which they would not be, since induction theorems that take an
operator cannot be used.

*SizesExact* is a sum over nodes, moved by sums over paths. `Sized` says it without a sum: the two
counters are the *numbers of cached keys* whose node is free, and held. A sum over a set is the value a
function chosen by its recursion has there, and `FoldIsSum` shows that any function with that recursion
agrees with it, again by a least counterexample; `PagesInCount` turns it into a number of keys. Then each
operation moves a set of keys from one side to the other (`LockSized`, `UnlockSized`), adds keys
(`InsertSized`), removes those of a leaf (`RemoveLeafSized`), or none (`SplitSized`: a key whose node becomes
another has the same count).

*EvictionSucceeds* says two things. A positive counter means that a free key exists; the node that
ends it, or one below it, is a free leaf, for `Counted` makes all nodes below a free one free
(`FreeLeafExists`). That a request can have its pages is an invariant about all requests at once: what they may
still ask for is at most what is free or evictable (`Fits`). Admission establishes it, and every later step
must give the pool at least what it adds to the need of its request (`FitsStep`). The hard step is
`cache_req` (`CacheReqEvictable`, `CacheReqPool`): the duplicates it frees, the pages it hands to
the tree and the part of the old prefix it unlocks are together no less than the new prefix it locks. `Units` again
makes the sum over the requests a number of elements.

For the scheduler, none of the properties is inductive, as each of them is about what is left of
decisions of earlier iterations. `SchedInv` says what these left:

* `PendingOK`, `AdmissionOK`: who waits, and during admission, that the batch is the part of the
  list that is taken and only its last one can be a chunk, for a chunk uses up the budget;
* `HoldsOK`: what holds a row is running, has a result to come, has just begun, or waits with its
  next chunk, and what has finished or (in the normal loop) was aborted never comes back;
* `OpenOK`: a result to come, in the batch in flight (`Late`) or in that of this iteration (`Fresh`), is
  one of a request that holds its row, or whose end is in `finished_reqs`, or that was aborted.
  That is the claim of the comment at `scheduler.py:219`, with the abort it forgets;
* `LengthsOK`: `device_len` is what the host knows and one for each result to come (`ToCome`). Without
  it `can_decode`, which reads `device_len` before the results are there, bounds nothing, and
  `NoExcess` cannot be shown;
* `DecodingOK`, `RepliesOK`: who is decoded goes on running while it may have more tokens, and a
  finished reply was sent only to who does not;
* `RowsOK` (the free rows and those of `holds` are disjoint, without repetition, and all of them) and
  `TreeOK` (`WellShaped` and `Counted`, as for `CacheClients`, with `holds` in place of the
  running requests).

The first six hold while the process runs; the rows and the tree also after an assert has failed, and
until a request is freed twice. There is one lemma for each action and conjunct. The
conditions of the theorems come from `OpenOK`: without overlap there is no `Late`, and without aborts its last
disjunct is empty. So a request is in neither case freed while it holds nothing, and the
unlock of a request that holds its row cannot fail. Writing the proof showed that `NoExcess` had
been stated wrongly, with a bound of one reply for a request that is dropped as too long, which gets none.

For the pages of the scheduler, `PagesInv` joins the rows (`PagesRows`, with `RowOK` as for `CacheClients`, and
`KeyOK`) to the invariant of the abstract store, and every step is shown to be one of the store or to change
nothing it sees. A `Forward` is one `Take` for the whole batch, which needs that no request is in it
twice and no two have the same row (`BatchRunnable`, from `BatchOK`, `OpenOK` and `RowsOK`).
`KeyOK` is what makes the handle of a request fit the key it is cached with: the handle is the
beginning of the key of what the request knows and covers no more than it has computed, and as long as the
request knows only a part of its prompt that is a beginning of the prompt, so a next chunk, which writes
`input_ids` anew from the prompt, extends it. When a request is freed twice its second `cache_req` frees pages that may
be another's: there the refinement ends, and `NoFaults` says when that cannot be.

*IdleIntegrity* adds the sizes of the tree (`TreeInvariant`, with the lemmas made for `CacheClients`). When
nothing is pending, running or to come, `HoldsOK` leaves nobody who holds anything: so all rows are
free, no key is counted as held, which makes `protected` zero and `evictable` the number of cached keys, and by
the partition of the pages those and the free list are all pages (`UnheldPages`). The theorem has the condition of
`NoFaults`. The model stops at `pc = "freed twice"`, where the code goes on with a row and pages in two places, and its
`check_integrity` fails when it is next idle; so with overlap and aborts the property would say nothing of the case
that matters, and nothing is claimed of it (`IdleUntilFreedTwice` is what the proof has without the condition).

*NeverCrashes* is what prefill admission is for. Its half about unlocks is `NoFaults`. The other half, that no
batch finds the pages used up, is an invariant about all requests at once, as `EvictionSucceeds` is for
`CacheClients`: what those who hold resources may still ask for (`Needed`, in pages, until all but
the last token is computed) is at most what is free or evictable (`PoolOK`). But here nothing assumes it. It must follow
from the test of `_try_allocate_one`, which is about tokens, and counts only the running requests and those of its
own round. `AdmitInv` says why that is enough:

* `AdderOK`: during admission `reserved_size` covers what all need who hold resources, except who waits
  with a chunk *behind* the point the loop has reached (`Behind`). It starts so (`StartAdder`), as
  without overlap nobody has a result in flight then, and `inflight_tokens`, a fold over a set, is a number of tokens
  no less than the pages times their size (`InflightReserves`); it stays so with each request that is added
  (`AddOneReqAdder`). For a new request the estimate leaves out the rounding to pages: it counts one token more
  than is computed, which is enough for pages of one or two (`AdmittedFits`).
* `ListOK`: the pending list is in the order of arrival with the urgent requests first, and only its first element can
  be a chunk that waits. So when a new request is tried nobody is behind (`NobodyBehind`), and the test is the one that `PoolOK`
  needs (`AdmitNewPool`). This is where one class of answers is needed: `_reorder_pending` sorts an urgent list as
  it was only if no short request overtakes.
* `PoolOK` then has to survive the rest: a forward pass takes from the pool what its requests need less
  (`BatchTakes`, `ForwardPool`), `cache_req` gives the pool at least what it takes (`RequestPool`, the
  arithmetic of `CacheClients`), an eviction moves pages from one part of it to the other. A batch that lacks pages can evict
  them all, since a positive evictable size has a free leaf (`NeverOutOfPages`, `FreeLeafExists`).

Each of the three conditions is one that a counterexample of TLC asks for: `viol_admission` for the overlap, and the two
at the end of section 3.

`ServingSpec` implements `Scheduler!Spec` with the identity as mapping. A step of `Serving`
processes the token that the engine has sampled; it is one of `Vocab` since the samples of a
batch are one for each of its requests (`SamplesOK`) until the results of that batch are processed.
So what is proved of the scheduler with any tokens holds of the scheduler with its memory.

*MetricsExact* is about a number that nobody can recompute: the collector adds up the tokens of the requests that
end and forgets them. `MetricsInv` says when a request is tracked, and how its count and its replies go
together (`TrackedOK`, `CountsOK`). A reply that is the finished one but not the first is the case that could count
twice: all of `finished_reqs` have ended, so the collector does not know them any more. The sum is
followed as a set of units, one for each token up to an end (`Units`), because a cardinality can be followed
through a step and a fold cannot; `OutputUnits` says that it is the fold. With overlap and aborts the theorem
does not hold: a result in flight may end a request that its abort has taken from the collector.

*TokensExact* and *CacheExact* need each other: a token is right if what its request attends to is right, which
may be cached pages of other requests, and those are right if the rows they came from were. `ExactInv` is
their common invariant, as long as nothing is `spoilt`:
* the row of each request that holds one leads, below `cached_len`, to locations that hold the keys and values of
  its own tokens (`RowHolds`), and the pool has those tokens (`PoolHolds`);
* the row begins with the cached pages of its handle (`AliasOK`), and each cached page holds its prefix (`CacheHolds`);
* a result that is still to be processed was sampled from the tokens of its request, and its token is
  the next one in the pool (`SampledOK`).

Most of the work is that a batch is put together right. A flattened list has each part at the sum of the lengths before
it (`FlattenLayout`, `CumulatedSums`), so each new token finds its position, its row, its location and its keys
(`PositionsAt`, `RowsAt`, `OutLocAt`, `RaggedAt`, `PagedAt`, `QueryAt`), also behind the dummy requests that pad the batch. Requests
do not write into each other: by `PagesInv` the pages behind `cached_len` belong to one row alone (`PlacesDiffer`,
`BatchPlaces`), and the dummies write to the dummy page. The forward pass itself is a fold over the tokens of the
batch (`Chain`), and `ChainExact` follows it: token `f` sees what was stored before the batch or by an earlier token
of its own request (`Attends`), so it computes from exactly the tokens before it (`AttendsExactly`). At the end of a request
`cache_req` gives pages to the tree: those it adds hold the tokens they are filed under because the row did (`CacheHolds`), and those
it frees because the tree has them already are the ones that `GivesAway` watches.

Both properties end where `spoilt` is set, and the code does not: from then on it computes from, and caches, wrong
values. `SpoiltByCache`, proved with `CacheExact`, bounds that: without overlap the only step that sets it is the
`cache_req` of a request that has prefilled and goes on (`CachedMeanwhile`), of whose row the cache has more than
the request had matched when it was admitted (`SpoilingStep`, from `GivenAway`: what is freed is the row from the handle to what
the tree matches now). A match of the naive cache is always empty, so there the exemption is void (`ServingNaiveExact`).

The theorems are about `normal_loop`, where no token is `late`. With overlap the next batch is prepared before the
results of the last one are known, and the same properties are model-checked in `sched_overlap`.

For the pipeline, `StreamFaithful` says nothing of a request before it is made, nor why
`WakeUp` loses nothing. `PipelineInv` adds that: before a stream exists all its queues
are empty and nobody knows it (`Fresh`, which needs `Asked`: no message in a queue is
ahead of its stream), an open stream has its entries (`Kept`: only a cancelled stream
has an `abort_user`), and a waiting one has yielded all it took. It is a conjunction
over requests, so each action has one lemma about its own request, and `Frame` covers
the others. The heart is a fact on sequences (`PassOn`): moving the head of a queue to
the end of the next leaves the two in a row unchanged. The order of aborts uses it
again: with one worker, `Way` (what the scheduler has yet to take, then what the
worker has) is one queue, and `InOrder` says that each abort in it has its request before it or
known to the scheduler.

`Text` refines `Pipeline` with the identity as mapping: each of its steps is one of the
pipeline that also moves the text, so whatever is proved of the pipeline holds of it.

*TextFaithful* is about a decoder that is not additive: the text of two tokens is their two texts, but for
two halves that meet (`TextJoin`) and a space at the very beginning (`DropSpace`). Yet `detokenize` decodes no more than
the tokens behind `surr_offset`. It may, because no character is cut at `read_offset` (`Boundary`: it only moves
there when the text is complete) and something is before it once it is not zero, so that no space is dropped
(`Offsets`): then `new_text` is the text of the tokens behind `read_offset` alone, wherever `surr_offset` is, and what is
before it never changes (`ReadIs`). `Told` says what a `DecodeStatus` knows: its string is the text up to `read_offset`,
the rest ends in half a character, and what was sent is the string and the printable part of that rest. With one
more token the rest is complete, and all of it is sent (`ToldComplete`), or it has become longer, and then the printable part
has not become shorter (`ToldHalf`). This last step is where `VocabOK` is needed: it says that after a token that ends in a CJK
character and a half the next one completes the text, or has a space or a CJK character to stop behind. Without it the
theorem is false (see *Text* in section 2). The vocabulary of the run satisfies `VocabOK`, which `MCPipeline` assumes and TLC
evaluates. `FlattenSeq` is taken from its definition by a recursive function, as the one function
that satisfies it on a sequence (`JoinedExists`, `JoinedUnique`, `FlattenIs`). In the pipeline `AllTextInv` pairs each reply with its
token, the increment and the tokens behind it. A client has never more than what the detokenizer has said (`Behindhand`,
which for an open stream follows from `StreamFaithful`), and stops at the finished reply (`EndsOnce`): so what the
overlapped loop replies after it, decoded with a new status, is not part of the text.

*RanksAgree* compares ranks that may be many iterations apart, so its invariant compares nothing but
histories. What a rank is between two iterations (`StateOf`: lists, lengths, batches in flight) is a function of the
state before, of the messages of the iteration and of what the clock found urgent (`After`). `Trace` says that the
rank has come this way since `First`; two traces with the same messages and decisions are the same as far as both go
(`TracesAgree`). The messages are one stream `P`, all that rank 0 has taken from its queue, with cuts `c[1]`, `c[2]`, ... where
its iterations end. Nobody keeps `P` or `c`: the invariant says that there are such (`StreamInv`), and `RootFirst` and `RootCount`
give longer ones. A follower, in whatever phase it is, has heard the first pieces of `P`; what it holds, what is
published and it has not read, and the counts that wait for it are the next ones (`FollowerOK`). The step where
this could fail is the decision to block: rank 0 publishes one message and then a count if it blocks, otherwise a count
alone, and nothing tells the follower which. `Blocks(T[k])` is the answer: both decide from the same state,
because up to here they have heard the same. So the invariant of a follower is conditional on its clock
(`FollowerInv`), and a rank that has once decided otherwise is out of the claim for good.

For the start, `RankKinds` and `StepKinds` sort all actions into a few kinds of step (stays,
fails, goes on, enters a collective, learns something, answers), and the invariants are
proved for these. *EnginesAgree* needs why all ranks read the same numbers: what was
offered to a collective does not change once all have entered it (`OffersKept`), because a
rank enters each collective once. `MemoryInv` then says of each rank where its
numbers come from: `initFree` is the largest offer to "memory" from then on, and `pages` is a
function of that and of the largest offer to "pages". Two ranks that know a number have the
same one, whatever `free` is when they use it. *ReadyMeansAll* is a counting argument:
`AcksCounted` (answers taken and waiting are the listening workers and one if the first rank
serves) makes `tokenizers + 2` answers mean all of them; that the first rank serves means all have entered the last
barrier (`BarrierKept`); and a dead rank exists only if one is missing there (`DeadMissing`: a rank that
times out does so for a dead one that never came). *AddressesServed* needs that each process opens all of its sockets
in one step of its own: `bound` and `joined` are then what the processes that have started use (`SocketsOK`), and by
`ReadyMeansAll` those are all processes. The rest is a comparison of the two tables for each way to
set up the tokenizers.

*CallsMatch* needs a description of the list of calls that does not mention the other ranks. `PassOK` says
where a rank is: a rank that has ended `l` layers and is in a call of a layer has made `1 + LayerCalls * l + Place(op)` calls
(`Fits`), and any call it has made stands where its name can stand (`CallAt`). A layer has four calls where experts
exchange, one where they are cut and the back end is `fused`, and two where results are summed (`LayerCalls`). As two
names never fit the same number (`CallsUnique`), two lists agree where both have an entry. `DataOK` gives
what a rank hands to an exchange as a function of `SendCounts`, which is the same table on all ranks: that a rank
expects of each other what this one sends follows from the gathered table (`EndedCall`: a call that has
ended is in the list of every rank). Once a rank takes the fast path (`LocalMoE`) its list is shorter, and the
first part is claimed only for batches without one; `NoFastPath` shows that these are all but
those of `AllOnOne`, because one rank decides `LocalOnly` and the routes of a model with experts are never empty (`Routed`). The
`ep` back end on ranks that each have all experts always takes the fast path (`AllLocal`), then sums.

*ShardsCover* is arithmetic at the end and bookkeeping on the way there. The arithmetic: pieces of `div_ceil` rows
give each row one rank (`OneRank`), even pieces of equal size cut heads and columns without a rest (`EvenChunk`), and a
query head finds its head of keys at the place its rank computes, both where the heads of keys are cut and
where each is copied to several ranks (`HeadsMatch`, from `CutHeads` and `ReplicatedHeads`). The
bookkeeping: tensors come in the order of the files, and `LoadOK` says what `merge_buf`, `expert_buf` and the
weights hold as a function of the tensors that are still to come alone: the gates and ups whose twin is missing,
the finished experts of a parameter that is not complete, the parameter itself once it is. One step moves one tensor, which
finishes at most one expert (`Completes`) and that at most one parameter (`StackStep`). `ReadyMeansAll` puts all ranks
past the loading, where nothing is left to come (`PastLoad`), and past the asserts of the layers (`LayersFit`).

*Only model-checked:* `ServingTypeOK`; `NeverCrashes` where short requests may overtake, as they do in
`sched_normal`; `TokensExact` and `CacheExact` with overlap;
`ForwardExact` (what a recursive definition computes from its data);
and liveness: `RequestsEnd`, `AllAnswered`,
`AllServed`, `Progress`. Liveness under fairness, `ENABLED` and what a recursive operator computes are out of the
prover's reach.

## 5. Not modelled

* The offline LLM (`llm/llm.py`): it cannot be constructed at this commit. The constructor of its
  `Scheduler` calls `send_metrics_msg` (`scheduler.py:112` and 311), which the early return
  of `io.py:39` leaves undefined in offline mode.
* Benchmarks and evaluation scripts: clients outside the server.
* Graph capture; parameters of sampling; norms, rotary embedding and quantised weights; C++
  and CUDA code of the kernels (what they compute is modelled where it is called); message
  serialisation; parsing of options; the chat template; logging. They hold no state whose order
  of changes matters to the properties above, or none that TLC can enumerate.
* Of the API server the shell, the models list and the metrics page. `shell_completion` returns its background
  task as a function that is never called (`api_server.py:478`), so that nothing of it runs.
* Times of the metrics: `scheduler.py:215` writes the first-token time again at each token, as
  `device_len == cached_len + 1` holds for every one; the gauges are reported every tenth batch; `prefill.py:54` counts
  cache hits of refused tries too. A model of them would restate these lines.
* The order of a decode batch: `decode.py:56` sorts by times that the requests of one
  prefill share, the rest is the iteration order of a set; any order is taken.
* Two tokens of one request in one batch of the detokenizer (`detokenize.py:69` gives both the
  offsets of the first): unreachable with `local_bs` 1.
* `radix_cache.py:228`: a node that is matched in part keeps its old timestamp. The model does
  the same; no property prefers one victim of eviction to another.
* A subscriber that connects after the first message (`io.py:58-68`), and messages that ZeroMQ drops.

## 6. Plan

1. Proofs: `TokensExact` and `CacheExact` with overlap, `ForwardExact`.
2. Model: messages to a rank that is behind and exceeds the bound of its queue; a
   cancellation before the generator has started; a second forward pass in `Workers`.
