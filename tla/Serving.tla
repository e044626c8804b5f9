------------------------------- MODULE Serving -------------------------------
(***************************************************************************)
(* The scheduler process with its device and its metrics: each action of   *)
(* Scheduler, with what it does to the memory and to the collector.        *)
(*                                                                         *)
(* In Scheduler a result is any token when it is processed.  Here it is    *)
(* sampled when the batch runs, is written to the token pool for the next  *)
(* batch, and is processed later.                                          *)
(***************************************************************************)
EXTENDS Memory, Metrics

VARIABLE collector    \* metrics_collector

allVars == <<vars, memVars, collector>>

ServingInit == Init /\ MemInit /\ collector = NewCollector

Arrive(u) ==
  /\ ReceiveUser(u)
  /\ collector' = IF TooLong(u) THEN collector ELSE RequestArrived(collector, u, Len(Prompt[u]))
  /\ UNCHANGED memVars

Abort(u) ==
  /\ ReceiveAbort(u)
  /\ collector' = RequestAborted(collector, u)
  /\ UNCHANGED memVars

(* A chunk is copied from where it starts, a new request from the start.   *)
ContinueChunk == AdmitChunk /\ CopyPrompt(Candidate.uid, reqs[Candidate.uid].cached)
                   /\ UNCHANGED collector
Admit == AdmitNew /\ CopyPrompt(Candidate.uid, 0) /\ UNCHANGED collector

Run == Forward /\ RunBatch /\ UNCHANGED collector

Process ==
  /\ pc = "process" /\ cursor <= Len(Results.reqs)
  /\ LET token == Samples[cursor].token
         counted == RequestOutputToken(collector, Current.uid)
     IN \/ /\ ProcessReq(token)
           /\ collector' = IF FirstFinish(token) THEN RequestCompleted(counted, Current.uid)
                           ELSE counted
           /\ spoilt' = (spoilt \/ GivesAway(token))
        \/ ProcessFails(token) /\ UNCHANGED <<collector, spoilt>>
  /\ UNCHANGED <<pool, kv, sampled, lastSampled, late>>

Finish == EndIteration /\ NextIteration /\ UNCHANGED collector

(* What touches neither the memory nor the metrics.                        *)
Other == /\ \/ StartPrefill \/ SkipPrefill \/ StopAdmitting
            \/ EvictForBatch \/ EvictFails \/ SkipChunk \/ BecomeUrgent
         /\ UNCHANGED <<memVars, collector>>

ServingNext == \/ \E u \in Uids : Arrive(u) \/ Abort(u)
               \/ ContinueChunk \/ Admit \/ Run \/ Process \/ Finish \/ Other

ServingSpec == ServingInit /\ [][ServingNext]_allVars
FairServingSpec == ServingSpec /\ WF_<<pc, cursor>>(LoopMoves) /\ SF_pending(BecomeUrgent)

----------------------------------------------------------------------------
ServingTypeOK ==
  /\ TypeOK
  /\ DOMAIN pool = Slot \cup {NumSlots}
  /\ \A s \in DOMAIN pool : Len(pool[s]) = TableWidth
  /\ DOMAIN kv = Location
  /\ Len(sampled) \in {0, Len(batch.reqs)} /\ Len(lastSampled) = Len(inflight.reqs)

(* Every token that is sent to a user was sampled from the logits of       *)
(* exactly its prompt and the tokens before it: whatever shares its batch, *)
(* its pages or its prefix, whatever was cached, chunked, evicted or freed *)
(* in between.                                                             *)
TokensExact ==
  pc = "process" /\ ~spoilt =>
    \A i \in cursor..Len(Results.reqs) :
      ~Results.reqs[i].chunked => Samples[i].from = reqs[Results.reqs[i].uid].ids

(* The pages of the prefix cache hold the keys and values of their prefix, *)
(* and nothing else is ever stored there while they are cached.            *)
CacheExact ==
  ~spoilt =>
    \A n \in Paths : \A k \in 1..PageSize :
      kv[tree.page[n] * PageSize + k - 1] =
        SubSeq(FlattenSeq(n), 1, (Len(n) - 1) * PageSize + k)

(* What cache_req calls the valid region of a row, [0, cached_len), holds   *)
(* the keys and values of the request's own tokens.                        *)
RowsExact ==
  \A u \in holds : \A p \in 0..(Min({reqs[u].cached, Len(reqs[u].ids)}) - 1) :
    kv[TableEntry(pageTable, reqs[u].slot, p)] = SubSeq(reqs[u].ids, 1, p + 1)

(* The collector tracks exactly the requests that are still to be answered,*)
(* counts each that ended once, and the tokens up to its end: not those    *)
(* that follow it, not those of an abort.                                  *)
AnswerLen(u) == Min({i \in DOMAIN replies[u] : replies[u][i].finished})
MetricsExact ==
  LET ended == {u \in Uids : Ended(u)}
  IN /\ Tracked(collector) = {u \in arrived : ~TooLong(u) /\ u \notin aborted /\ ~Ended(u)}
     /\ \A u \in Tracked(collector) : collector.active[u] = Len(replies[u])
     /\ collector.completed = Cardinality(ended)
     /\ collector.output = MapThenSumSet(AnswerLen, ended)
=============================================================================
