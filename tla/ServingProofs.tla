---------------------------- MODULE ServingProofs ----------------------------
(***************************************************************************)
(* The scheduler with its memory and its metrics is a scheduler: what is   *)
(* proved of Scheduler holds with the tokens that the device samples.  The *)
(* collector of the metrics counts what happened.  Last, in normal_loop:   *)
(* a token is sampled from the tokens before it, and the cache holds what  *)
(* it says it holds.                                                       *)
(***************************************************************************)
EXTENDS Serving, SchedulerProofs

(* Each batch that is processed has one sampled token for each request.    *)
SamplesOK ==
  /\ \A i \in DOMAIN sampled : sampled[i].token \in Vocab
  /\ \A i \in DOMAIN lastSampled : lastSampled[i].token \in Vocab
  /\ DOMAIN lastSampled = DOMAIN inflight.reqs
  /\ pc = "process" => DOMAIN sampled = DOMAIN batch.reqs
  /\ pc \in {"receive", "admit", "allocate"} => sampled = <<>>

LEMMA SampleOfResult ==
  ASSUME SchedInv, SamplesOK, pc = "process", cursor <= Len(Results.reqs)
  PROVE  Samples[cursor].token \in Vocab
<1>1. Going BY DEF SchedInv, Stopped
<1>2. cursor \in Nat \ {0} /\ Results \in Batch BY <1>1 DEF Going, Types, Results
<1> DEFINE s == Results.reqs
<1>3. s \in Seq(BatchEntry) /\ cursor <= Len(s) BY <1>2 DEF Batch
<1>4. cursor \in DOMAIN s
  <2> HIDE DEF s
  <2>1. QED BY <1>2, <1>3
<1>5. DOMAIN Samples = DOMAIN s /\ \A i \in DOMAIN Samples : Samples[i].token \in Vocab
  BY DEF SamplesOK, Samples, Results
<1>6. QED BY <1>4, <1>5

(* A step of the whole is a step of the scheduler.                         *)
LEMMA ServingSteps ==
  ASSUME SchedInv, SamplesOK, [ServingNext]_allVars
  PROVE  [Next]_vars
<1>1. CASE UNCHANGED allVars BY <1>1 DEF allVars
<1>2. CASE \E u \in Uids : Arrive(u) \/ Abort(u)
  BY <1>2 DEF Arrive, Abort, Next, Environment
<1>3. CASE ContinueChunk BY <1>3 DEF ContinueChunk, Next, Loop
<1>4. CASE Admit BY <1>4 DEF Admit, Next, Loop
<1>5. CASE Run BY <1>5 DEF Run, Next, Loop
<1>6. CASE Process
  <2> DEFINE token == Samples[cursor].token
  <2>1. token \in Vocab BY <1>6, SampleOfResult DEF Process
  <2>2. ProcessReq(token) \/ ProcessFails(token) BY <1>6 DEF Process
  <2> HIDE DEF token
  <2>3. QED BY <2>1, <2>2 DEF Next, Loop
<1>7. CASE Finish BY <1>7 DEF Finish, Next, Loop
<1>8. CASE Other BY <1>8 DEF Other, Next, Loop, Environment
<1>9. QED BY <1>1, <1>2, <1>3, <1>4, <1>5, <1>6, <1>7, <1>8 DEF ServingNext

LEMMA SamplesStep ==
  ASSUME SchedInv, SamplesOK, [ServingNext]_allVars
  PROVE  SamplesOK'
<1>1. CASE UNCHANGED allVars
  BY <1>1 DEF allVars, vars, schedVars, memVars, SamplesOK
<1>2. CASE \E u \in Uids : Arrive(u) \/ Abort(u)
  BY <1>2 DEF Arrive, Abort, ReceiveUser, ReceiveAbort, memVars, SamplesOK
<1>3. CASE ContinueChunk \/ Admit
  <2>1. /\ pc = "admit" /\ UNCHANGED <<pc, inflight, sampled, lastSampled>>
    BY <1>3 DEF ContinueChunk, Admit, AdmitChunk, AdmitNew, CopyPrompt
  <2>2. QED BY <2>1 DEF SamplesOK
<1>4. CASE Run
  <2>1. pc = "allocate" /\ pc' = "process" /\ UNCHANGED <<batch, inflight>> BY <1>4 DEF Run, Forward
  <2>2. UNCHANGED lastSampled BY <1>4 DEF Run, RunBatch
  <2>3. /\ DOMAIN sampled' = DOMAIN batch.reqs
        /\ \A i \in DOMAIN sampled' : sampled'[i].token \in Vocab
    <3> DEFINE b == Prepared
               before == AllLanded(pool, late)
               after == Computed(b, [f \in DOMAIN b.rows |-> before[b.rows[f]][b.positions[f] + 1]])
    <3>1. RunBatch BY <1>4 DEF Run
    <3>2. PICK tokens \in [DOMAIN batch.reqs -> Vocab] :
             sampled' = [i \in DOMAIN batch.reqs |-> [token |-> tokens[i], from |-> after.from[b.last[i]]]]
      BY <3>1, Zenon DEF RunBatch
    <3> HIDE DEF after, b
    <3>3. QED BY <3>2
  <2>4. QED BY <2>1, <2>2, <2>3 DEF SamplesOK
<1>5. CASE Process
  <2>1. pc = "process" /\ UNCHANGED <<batch, inflight, sampled, lastSampled>>
    BY <1>5 DEF Process, ProcessReq, ProcessFails, Crash
  <2>2. pc' \notin {"receive", "admit", "allocate"}
    BY <1>5 DEF Process, ProcessReq, ProcessFails, Crash
  <2>3. QED BY <2>1, <2>2 DEF SamplesOK
<1>6. CASE Finish
  <2>1. /\ pc = "process" /\ pc' = "receive"
        /\ inflight' = IF Overlap THEN batch ELSE NoBatch
        /\ lastSampled' = IF Overlap THEN sampled ELSE <<>>
        /\ sampled' = <<>>
    BY <1>6 DEF Finish, EndIteration, NextIteration
  <2>2. QED BY <2>1 DEF SamplesOK, NoBatch
<1>7. CASE Other
  <2>1. UNCHANGED <<inflight, sampled, lastSampled>>
    BY <1>7 DEF Other, StartPrefill, SkipPrefill, StopAdmitting, EvictForBatch, EvictFails,
                SkipChunk, BecomeUrgent, Crash, schedVars, memVars
  <2>2. \/ pc \in {"receive", "admit", "allocate"} /\ pc' # "process"
        \/ pc \in {"receive", "admit"} /\ pc' = "process" /\ batch' = NoBatch
        \/ pc = "process" /\ pc' = pc /\ UNCHANGED batch
    BY <1>7 DEF Other, StartPrefill, SkipPrefill, StopAdmitting, ScheduleDecode, EvictForBatch,
                EvictFails, SkipChunk, BecomeUrgent, Crash, schedVars
  <2>3. QED BY <2>1, <2>2 DEF SamplesOK, NoBatch
<1>8. QED BY <1>1, <1>2, <1>3, <1>4, <1>5, <1>6, <1>7 DEF ServingNext

LEMMA ServingInvariant == ServingSpec => [](SchedInv /\ SamplesOK)
<1>1. ServingInit => SchedInv /\ SamplesOK
  BY SchedInit DEF ServingInit, Init, MemInit, SamplesOK, NoBatch
<1>2. SchedInv /\ SamplesOK /\ [ServingNext]_allVars => (SchedInv /\ SamplesOK)'
  BY ServingSteps, SamplesStep, SchedStep
<1>3. QED BY <1>1, <1>2, PTL DEF ServingSpec

(* The scheduler with its device and its collector implements Scheduler:   *)
(* sampling, the token pool and the metrics never hold it up or make it do *)
(* what it would not do with any tokens (_forward, _process_last_data).    *)
THEOREM ServingImplementsScheduler == ServingSpec => Spec
<1>1. ServingInit => Init BY DEF ServingInit
<1>2. SchedInv /\ SamplesOK /\ [ServingNext]_allVars => [Next]_vars BY ServingSteps
<1>3. QED BY ServingInvariant, <1>1, <1>2, PTL DEF ServingSpec, Spec

(* In normal_loop, with sampled tokens: the rows of the page table stay a  *)
(* partition, nothing follows the end of a stream, and an abort is final   *)
(* (_free_req_resources, _process_last_data, abort_req).                   *)
THEOREM ServingNormal ==
  ASSUME ~Overlap
  PROVE  ServingSpec => []SlotsPartition /\ []RepliesEnd /\ AbortEnds
<1>1. Spec => []SlotsPartition BY NoFaults, PTL
<1>2. QED BY ServingImplementsScheduler, <1>1, RepliesEndHolds, AbortEndsHolds, PTL

(* In overlap_loop without aborts, with sampled tokens: finished_reqs      *)
(* remembers every request in flight that was freed, and the rows stay a   *)
(* partition (_process_last_data).                                         *)
THEOREM ServingOverlap ==
  ASSUME CanAbort = {}
  PROVE  ServingSpec => []SlotsPartition /\ []FinishedRemembered
<1>1. Spec => []SlotsPartition BY NoFaults, PTL
<1>2. QED BY ServingImplementsScheduler, <1>1, FinishedRememberedHolds, PTL

(* Without overlap, or with no aborts, the whole implements the prefix     *)
(* store too, and each page stays in exactly one place: sampling, copies   *)
(* to the device and metrics touch no page (cache_req, evict, _allocate).  *)
THEOREM ServingPages ==
  ASSUME ~Overlap \/ CanAbort = {}
  PROVE  ServingSpec => []PagesPartition /\ ImplementsPrefixStore
<1>1. Spec => []PagesPartition
  <2>1. (pc \notin {"unlock failed", "freed twice"} /\ SlotsPartition)
          /\ (pc # "freed twice" => PagesPartition) => PagesPartition
    OBVIOUS
  <2>2. QED BY NoFaults, PagesPartitionHolds, <2>1, PTL
<1>2. QED BY ServingImplementsScheduler, <1>1, SchedulerImplementsHolds, PTL

(* In normal_loop, and in overlap_loop without aborts, with sampled tokens:*)
(* no request is freed twice, check_integrity of an idle scheduler finds   *)
(* every page and row back where it belongs, and no request got more       *)
(* replies than it may have (run_when_idle).                               *)
THEOREM ServingIdle ==
  ASSUME ~Overlap \/ CanAbort = {}
  PROVE  ServingSpec => [](pc # "freed twice" /\ IdleIntegrity /\ NoExcess)
<1>1. Spec => [](pc # "freed twice" /\ IdleIntegrity) BY IdleIntegrityHolds
<1>2. QED BY ServingImplementsScheduler, <1>1, NoExcessHolds, PTL

(* In normal_loop, with pages of at most two tokens and answers of one     *)
(* class, sampling and the device change nothing about admission: no       *)
(* assert of _allocate, evict or lock_handle ends the process.             *)
THEOREM ServingNeverCrashes ==
  ASSUME ~Overlap, PageSize <= 2, OneClass
  PROVE  ServingSpec => []NeverCrashes
BY ServingImplementsScheduler, NeverCrashesHolds, PTL

----------------------------------------------------------------------------
(* The metrics. What the collector has added up is a sum over the requests *)
(* that have ended; it is followed as a number of elements.                *)
EndedUids == {u \in Uids : Ended(u)}
AnswerLens == [u \in EndedUids |-> AnswerLen(u)]

CollectorTyped ==
  collector = [active |-> collector.active, completed |-> collector.completed,
               input |-> collector.input, output |-> collector.output]

AnswersTyped == IsFiniteSet(EndedUids) /\ AnswerLens \in [EndedUids -> 0..MaxSeqLen]

TrackedOK ==
  /\ Tracked(collector) = {u \in arrived : ~TooLong(u) /\ u \notin aborted /\ ~Ended(u)}
  /\ \A u \in Tracked(collector) : collector.active[u] = Len(replies[u])

CountsOK ==
  /\ collector.completed = Cardinality(EndedUids)
  /\ collector.output = Cardinality(Units(AnswerLens, EndedUids))

MetricsInv == /\ CollectorTyped /\ AnswersTyped /\ TrackedOK /\ CountsOK
              /\ finishedReqs \cup newFinished \subseteq EndedUids

LEMMA MetricsInit == ServingInit => MetricsInv
<1> SUFFICES ASSUME ServingInit PROVE MetricsInv OBVIOUS
<1>1. /\ collector = NewCollector /\ arrived = {} /\ finishedReqs = {} /\ newFinished = {}
      /\ replies = [u \in Uids |-> <<>>]
  BY DEF ServingInit, Init
<1>2. EndedUids = {} BY <1>1 DEF EndedUids, Ended
<1>3. Units(AnswerLens, {}) = {} BY DEF Units
<1>4. Cardinality({}) = 0 /\ IsFiniteSet({}) BY FS_EmptySet
<1>5. AnswerLens \in [EndedUids -> 0..MaxSeqLen] BY <1>2 DEF AnswerLens
<1>6. CollectorTyped BY <1>1 DEF CollectorTyped, NewCollector
<1>7. collector.active = <<>> /\ collector.completed = 0 /\ collector.output = 0
  BY <1>1 DEF NewCollector
<1>8. Tracked(collector) = {} BY <1>7 DEF Tracked
<1>9. TrackedOK BY <1>1, <1>8 DEF TrackedOK
<1>10. QED BY <1>1, <1>2, <1>3, <1>4, <1>5, <1>6, <1>7, <1>9 DEF MetricsInv, AnswersTyped, CountsOK

(* While no reply is sent, who has ended and how long the answers are stay.*)
LEMMA SameAnswers ==
  ASSUME replies' = replies
  PROVE  EndedUids' = EndedUids /\ AnswerLens' = AnswerLens /\ (AnswersTyped => AnswersTyped')
BY DEF EndedUids, AnswerLens, AnswerLen, Ended, AnswersTyped

LEMMA QuietMetrics ==
  ASSUME MetricsInv, UNCHANGED <<collector, replies, arrived, aborted>>,
         finishedReqs' \cup newFinished' \subseteq finishedReqs \cup newFinished
  PROVE  MetricsInv'
<1>1. EndedUids' = EndedUids /\ AnswerLens' = AnswerLens /\ AnswersTyped'
  BY SameAnswers DEF MetricsInv
<1>2. TrackedOK' BY DEF MetricsInv, TrackedOK, Ended
<1>3. QED BY <1>1, <1>2 DEF MetricsInv, CollectorTyped, CountsOK

LEMMA ArriveMetrics ==
  ASSUME Going, MetricsInv, NEW u \in Uids, Arrive(u)
  PROVE  MetricsInv'
<1>1. /\ u \notin arrived /\ arrived' = arrived \cup {u}
      /\ UNCHANGED <<replies, aborted, finishedReqs, newFinished>>
      /\ collector' = IF TooLong(u) THEN collector ELSE RequestArrived(collector, u, Len(Prompt[u]))
  BY DEF Arrive, ReceiveUser
<1>2. replies[u] = <<>> /\ u \notin aborted BY <1>1 DEF Going, RepliesOK, Types
<1>3. ~Ended(u) BY <1>2 DEF Ended
<1>4. EndedUids' = EndedUids /\ AnswerLens' = AnswerLens /\ AnswersTyped'
  BY <1>1, SameAnswers DEF MetricsInv
<1>5. \A v : Ended(v)' = Ended(v) BY <1>1 DEF Ended
<1>6. CASE TooLong(u)
  <2>1. collector' = collector BY <1>1, <1>6
  <2>2. TrackedOK' BY <1>1, <1>5, <1>6, <2>1 DEF MetricsInv, TrackedOK
  <2>3. QED BY <1>1, <1>4, <2>1, <2>2 DEF MetricsInv, CollectorTyped, CountsOK
<1>7. CASE ~TooLong(u)
  <2> DEFINE a == [v \in Tracked(collector) \cup {u} |-> IF v = u THEN 0 ELSE collector.active[v]]
  <2>1. collector' = [collector EXCEPT !.active = a, !.input = @ + Len(Prompt[u])]
    BY <1>1, <1>7 DEF RequestArrived
  <2> HIDE DEF a
  <2>2. /\ collector'.active = a /\ collector'.completed = collector.completed
        /\ collector'.output = collector.output /\ CollectorTyped'
    BY <2>1 DEF MetricsInv, CollectorTyped
  <2>3. Tracked(collector') = Tracked(collector) \cup {u} BY <2>2 DEF Tracked, a
  <2>4. Tracked(collector)' = {v \in arrived' : ~TooLong(v) /\ v \notin aborted' /\ ~Ended(v)'}
    BY <1>1, <1>2, <1>3, <1>5, <1>7, <2>3 DEF MetricsInv, TrackedOK
  <2>5. \A v \in Tracked(collector') : collector'.active[v] = Len(replies'[v])
    BY <1>1, <1>2, <2>2, <2>3 DEF MetricsInv, TrackedOK, a
  <2>6. TrackedOK' BY <2>4, <2>5 DEF TrackedOK
  <2>7. QED BY <1>1, <1>4, <2>2, <2>6 DEF MetricsInv, CountsOK
<1>8. QED BY <1>6, <1>7

(* What is left of the collector when it forgets a request.                *)
LEMMA ForgottenFacts ==
  ASSUME NEW m, m = [active |-> m.active, completed |-> m.completed,
                     input |-> m.input, output |-> m.output], NEW u
  PROVE  LET n == Forgotten(m, u)
         IN  /\ n = [active |-> n.active, completed |-> m.completed,
                     input |-> m.input, output |-> m.output]
             /\ n.completed = m.completed /\ n.input = m.input /\ n.output = m.output
             /\ Tracked(n) = Tracked(m) \ {u}
             /\ \A v \in Tracked(n) : n.active[v] = m.active[v]
<1> DEFINE a == Restrict(m.active, Tracked(m) \ {u})
<1>1. DOMAIN a = Tracked(m) \ {u} /\ \A v \in DOMAIN a : a[v] = m.active[v]
  BY DEF Restrict
<1>2. Forgotten(m, u) = [m EXCEPT !.active = a] BY DEF Forgotten
<1> HIDE DEF a
<1>3. QED BY <1>1, <1>2 DEF Tracked

LEMMA AbortMetrics ==
  ASSUME Going, MetricsInv, NEW u \in Uids, Abort(u)
  PROVE  MetricsInv'
<1>1. /\ aborted' = aborted \cup {u} /\ collector' = Forgotten(collector, u)
      /\ UNCHANGED <<replies, arrived, finishedReqs, newFinished>>
  BY DEF Abort, ReceiveAbort, RequestAborted
<1>2. EndedUids' = EndedUids /\ AnswerLens' = AnswerLens /\ AnswersTyped'
  BY <1>1, SameAnswers DEF MetricsInv
<1>3. \A v : Ended(v)' = Ended(v) BY <1>1 DEF Ended
<1>4. /\ CollectorTyped' /\ collector'.completed = collector.completed
      /\ collector'.output = collector.output
      /\ Tracked(collector') = Tracked(collector) \ {u}
      /\ \A v \in Tracked(collector') : collector'.active[v] = collector.active[v]
  BY <1>1, ForgottenFacts DEF MetricsInv, CollectorTyped
<1>5. TrackedOK' BY <1>1, <1>3, <1>4 DEF MetricsInv, TrackedOK
<1>6. QED BY <1>1, <1>2, <1>4, <1>5 DEF MetricsInv, CountsOK

(* The least of some numbers.                                              *)
LEMMA LeastIs ==
  ASSUME NEW S \in SUBSET Int, NEW m \in S, \A y \in S : m <= y
  PROVE  Min(S) = m
<1>1. \E x \in S : \A y \in S : x <= y OBVIOUS
<1>2. Min(S) \in S /\ \A y \in S : Min(S) <= y BY <1>1 DEF Min
<1>3. Min(S) \in Int /\ m \in Int BY <1>2
<1>4. QED BY <1>2, <1>3

(* The reply of a result, in lists that are typed.                         *)
Answered(u, token) ==
  /\ Replied(u, token)
  /\ replies \in [Uids -> Seq(Reply)] /\ replies' \in [Uids -> Seq(Reply)]

LEMMA AnsweredDomains ==
  ASSUME NEW token, NEW u, Answered(u, token)
  PROVE  \E k \in Nat : /\ Len(replies[u]) = k /\ DOMAIN replies[u] = 1..k
                        /\ Len(replies'[u]) = k + 1 /\ DOMAIN replies'[u] = 1..(k + 1)
                        /\ \A i \in 1..k : replies'[u][i] = replies[u][i]
                        /\ replies'[u][k + 1].finished = Finished(token)
<1>1. /\ u \in Uids /\ Len(replies[u]) \in Nat /\ Len(replies'[u]) = Len(replies[u]) + 1
      /\ \A i \in 1..Len(replies[u]) : replies'[u][i] = replies[u][i]
      /\ replies'[u][Len(replies[u]) + 1] = [eos |-> token = Eos, finished |-> Finished(token)]
  BY DEF Answered, Replied
<1>2. replies[u] \in Seq(Reply) /\ replies'[u] \in Seq(Reply) BY <1>1 DEF Answered
<1>3. DOMAIN replies[u] = 1..Len(replies[u]) /\ DOMAIN replies'[u] = 1..Len(replies'[u])
  BY <1>2, LenProperties
<1>4. PICK k \in Nat : k = Len(replies[u]) BY <1>1
<1>5. replies'[u][k + 1].finished = Finished(token) BY <1>1, <1>4
<1>6. QED BY <1>1, <1>3, <1>4, <1>5

(* Whoever has ended stays so, with the answer up to the end; who had not  *)
(* has ended if this reply is the finished one, which counts all of them.  *)
LEMMA AnswerKept ==
  ASSUME NEW token, NEW u, Answered(u, token), NEW v \in Uids, v # u \/ Ended(v)
  PROVE  Ended(v)' = Ended(v) /\ (Ended(v) => AnswerLen(v)' = AnswerLen(v))
<1>1. CASE v # u
  <2>1. replies'[v] = replies[v] BY <1>1 DEF Answered, Replied
  <2>2. QED BY <2>1 DEF Ended, AnswerLen
<1>2. CASE v = u /\ Ended(v)
  <2>1. PICK k \in Nat : /\ Len(replies[u]) = k /\ DOMAIN replies[u] = 1..k
                         /\ Len(replies'[u]) = k + 1 /\ DOMAIN replies'[u] = 1..(k + 1)
                         /\ \A i \in 1..k : replies'[u][i] = replies[u][i]
    BY AnsweredDomains
  <2> DEFINE I == {i \in DOMAIN replies[u] : replies[u][i].finished}
             J == {i \in DOMAIN replies'[u] : replies'[u][i].finished}
  <2>2. PICK j \in 1..k : replies[u][j].finished BY <1>2, <2>1 DEF Ended
  <2>3. j \in I /\ I \in SUBSET Nat BY <2>1, <2>2
  <2>4. PICK m \in I : \A i \in I : m <= i
    <3> HIDE DEF I
    <3>1. QED BY <2>3, LeastNatural
  <2>5. I \subseteq 1..k BY <2>1
  <2>6. J \subseteq I \cup {k + 1} BY <2>1
  <2>7. I \subseteq J BY <2>1
  <2>8. J \subseteq Nat BY <2>1
  <2>9. m \in J /\ \A i \in J : m <= i
    <3> HIDE DEF I, J
    <3>1. m \in 1..k BY <2>4, <2>5
    <3>2. QED BY <2>4, <2>6, <2>7, <3>1
  <2>10. Min(I) = m /\ Min(J) = m
    <3> HIDE DEF I, J
    <3>1. I \in SUBSET Int /\ J \in SUBSET Int BY <2>3, <2>8
    <3>2. QED BY <2>4, <2>9, <3>1, LeastIs
  <2>11. Ended(u)'
    <3>1. m \in 1..Len(replies'[u]) /\ replies'[u][m].finished BY <2>1, <2>9
    <3>2. QED BY <3>1 DEF Ended
  <2>12. AnswerLen(u)' = AnswerLen(u) BY <2>10 DEF AnswerLen
  <2>13. QED BY <1>2, <2>11, <2>12
<1>3. QED BY <1>1, <1>2

LEMMA AnswerMade ==
  ASSUME NEW token, NEW u, Answered(u, token), ~Ended(u)
  PROVE  /\ Ended(u)' = Finished(token)
         /\ Finished(token) => AnswerLen(u)' = Len(replies[u]) + 1
<1>1. PICK k \in Nat : /\ Len(replies[u]) = k /\ DOMAIN replies[u] = 1..k
                       /\ Len(replies'[u]) = k + 1 /\ DOMAIN replies'[u] = 1..(k + 1)
                       /\ \A i \in 1..k : replies'[u][i] = replies[u][i]
                       /\ replies'[u][k + 1].finished = Finished(token)
  BY AnsweredDomains
<1>2. \A i \in 1..k : ~replies'[u][i].finished BY <1>1 DEF Ended
<1>3. \A i \in 1..(k + 1) : replies'[u][i].finished <=> i = k + 1 /\ Finished(token)
  <2>1. \A i \in 1..(k + 1) : i \in 1..k \/ i = k + 1 BY <1>1
  <2>2. k + 1 \notin 1..k BY <1>1
  <2>3. QED BY <1>1, <1>2, <2>1, <2>2
<1>4. k + 1 \in 1..(k + 1) BY <1>1
<1>5. Ended(u)' = Finished(token)
  <2>1. Ended(u)' <=> \E i \in 1..(k + 1) : replies'[u][i].finished BY <1>1 DEF Ended
  <2>2. Ended(u)' <=> Finished(token) BY <1>3, <1>4, <2>1
  <2>3. Ended(u)' \in BOOLEAN /\ Finished(token) \in BOOLEAN BY DEF Ended, Finished, CanDecode
  <2>4. QED BY <2>2, <2>3
<1>6. ASSUME Finished(token) PROVE AnswerLen(u)' = k + 1
  <2>1. {i \in DOMAIN replies'[u] : replies'[u][i].finished} = {k + 1} BY <1>1, <1>3, <1>4, <1>6
  <2>2. Min({k + 1}) = k + 1
    <3>1. {k + 1} \in SUBSET Int /\ \A y \in {k + 1} : k + 1 <= y BY <1>1
    <3>2. QED BY <3>1, LeastIs
  <2>3. QED BY <2>1, <2>2 DEF AnswerLen
<1>7. QED BY <1>1, <1>5, <1>6

(* What a result does to the counts: a reply more of a request that is     *)
(* tracked, which may be its last.                                         *)
ResultCounted(u, token) ==
  /\ Answered(u, token) /\ u \in arrived /\ u \notin aborted /\ ~TooLong(u)
  /\ Len(replies[u]) + 1 <= MaxSeqLen
  /\ UNCHANGED <<arrived, aborted, finishedReqs>> /\ arrived \subseteq Uids
  /\ newFinished' = IF FirstFinish(token) THEN newFinished \cup {u} ELSE newFinished
  /\ FirstFinish(token) <=> Finished(token) /\ u \notin finishedReqs
  /\ LET counted == RequestOutputToken(collector, u)
     IN collector' = IF FirstFinish(token) THEN RequestCompleted(counted, u) ELSE counted

LEMMA EndedAlready ==
  ASSUME MetricsInv, NEW token, NEW u, ResultCounted(u, token), Ended(u)
  PROVE  MetricsInv'
<1>1. \A v \in Uids : Ended(v)' = Ended(v) /\ (Ended(v) => AnswerLen(v)' = AnswerLen(v))
  BY AnswerKept DEF ResultCounted
<1>2. EndedUids' = EndedUids BY <1>1 DEF EndedUids
<1>3. AnswerLens' = AnswerLens BY <1>1, <1>2 DEF AnswerLens, EndedUids
<1>4. u \notin Tracked(collector) BY DEF MetricsInv, TrackedOK
<1>5. collector' = collector BY <1>4 DEF ResultCounted, RequestOutputToken, RequestCompleted
<1>6. u \in Uids /\ \A v \in Uids : v # u => replies'[v] = replies[v]
  BY DEF ResultCounted, Answered, Replied
<1>7. TrackedOK'
  <2>1. Tracked(collector) = {v \in arrived : ~TooLong(v) /\ v \notin aborted /\ ~Ended(v)}
        /\ \A v \in Tracked(collector) : collector.active[v] = Len(replies[v])
    BY DEF MetricsInv, TrackedOK
  <2>2. UNCHANGED <<arrived, aborted>> /\ arrived \subseteq Uids BY DEF ResultCounted
  <2>3. Tracked(collector)' = {v \in arrived' : ~TooLong(v) /\ v \notin aborted' /\ ~Ended(v)'}
    BY <1>1, <1>5, <2>1, <2>2
  <2>4. \A v \in Tracked(collector) : v \in Uids /\ v # u BY <1>4, <2>1, <2>2
  <2>5. \A v \in Tracked(collector') : collector'.active[v] = Len(replies'[v])
    BY <1>5, <1>6, <2>1, <2>4
  <2>6. QED BY <2>3, <2>5 DEF TrackedOK
<1>8. finishedReqs' \cup newFinished' \subseteq EndedUids'
  <2>1. u \in EndedUids BY <1>6 DEF EndedUids
  <2>2. QED BY <1>2, <2>1 DEF ResultCounted, MetricsInv
<1>9. QED BY <1>2, <1>3, <1>5, <1>7, <1>8 DEF MetricsInv, CollectorTyped, AnswersTyped, CountsOK

LEMMA EndsOrGoesOn ==
  ASSUME MetricsInv, NEW token, NEW u, ResultCounted(u, token), ~Ended(u)
  PROVE  MetricsInv'
<1> DEFINE c == collector
           k == Len(replies[u])
           d == RequestOutputToken(c, u)
<1>1. /\ u \in Uids /\ k \in Nat /\ Len(replies'[u]) = k + 1
      /\ \A v \in Uids : v # u => replies'[v] = replies[v]
  BY DEF ResultCounted, Answered, Replied
<1>2. /\ Tracked(c) = {v \in arrived : ~TooLong(v) /\ v \notin aborted /\ ~Ended(v)}
      /\ \A v \in Tracked(c) : c.active[v] = Len(replies[v])
  BY DEF MetricsInv, TrackedOK
<1>3. u \in Tracked(c) /\ Tracked(c) \subseteq Uids BY <1>2 DEF ResultCounted
<1>4. c = [active |-> c.active, completed |-> c.completed, input |-> c.input, output |-> c.output]
  BY DEF MetricsInv, CollectorTyped
<1>5. /\ d = [active |-> d.active, completed |-> c.completed, input |-> c.input, output |-> c.output]
      /\ d.completed = c.completed /\ d.output = c.output
      /\ Tracked(d) = Tracked(c) /\ d.active[u] = k + 1
      /\ \A v \in Tracked(d) : v # u => d.active[v] = c.active[v]
  <2> DEFINE a == [c.active EXCEPT ![u] = @ + 1]
  <2>1. d = [c EXCEPT !.active = a]
    <3>1. d = [c EXCEPT !.active[u] = @ + 1] BY <1>3 DEF RequestOutputToken
    <3> HIDE DEF c, d
    <3>2. QED BY <3>1
  <2>2. DOMAIN a = Tracked(c) /\ a[u] = k + 1 /\ \A v \in Tracked(c) : v # u => a[v] = c.active[v]
    BY <1>2, <1>3 DEF Tracked
  <2> HIDE DEF c, d, a, k
  <2>3. QED BY <1>4, <2>1, <2>2 DEF Tracked
<1>6. \A v \in Uids : v # u => Ended(v)' = Ended(v) /\ (Ended(v) => AnswerLen(v)' = AnswerLen(v))
  BY AnswerKept DEF ResultCounted
<1>7. /\ Ended(u)' = Finished(token)
      /\ Finished(token) => AnswerLen(u)' = k + 1
  BY AnswerMade DEF ResultCounted
<1>8. \A v \in Tracked(c) : d.active[v] = Len(replies'[v])
  <2> HIDE DEF c, d, k
  <2>1. QED BY <1>1, <1>2, <1>3, <1>5
<1>9. UNCHANGED <<arrived, aborted, finishedReqs>> /\ arrived \subseteq Uids BY DEF ResultCounted
<1>10. FirstFinish(token) <=> Finished(token)
  <2>1. u \notin finishedReqs BY DEF MetricsInv, EndedUids
  <2>2. QED BY <2>1 DEF ResultCounted
<1>11. CASE ~Finished(token)
  <2>1. collector' = d /\ newFinished' = newFinished BY <1>10, <1>11 DEF ResultCounted
  <2>2. \A v \in Uids : Ended(v)' <=> Ended(v)
    <3>1. Ended(u)' <=> Finished(token) BY <1>7
    <3>2. QED BY <1>6, <1>11, <3>1
  <2>3. EndedUids' = EndedUids BY <2>2 DEF EndedUids
  <2>4. AnswerLens' = AnswerLens
    <3>1. \A v \in EndedUids : v # u /\ v \in Uids /\ Ended(v) BY DEF EndedUids
    <3>2. QED BY <1>6, <2>3, <3>1 DEF AnswerLens
  <2>5. Tracked(collector)' = {v \in arrived' : ~TooLong(v) /\ v \notin aborted' /\ ~Ended(v)'}
    <3> HIDE DEF c, d
    <3>1. QED BY <1>2, <1>5, <1>9, <2>1, <2>2
  <2>6. TrackedOK'
    <3> HIDE DEF c, d
    <3>1. QED BY <1>5, <1>8, <2>1, <2>5 DEF TrackedOK
  <2>7. CollectorTyped' /\ collector'.completed = collector.completed /\ collector'.output = collector.output
    <3> HIDE DEF d
    <3>1. QED BY <1>5, <2>1 DEF CollectorTyped
  <2>8. QED BY <1>9, <2>1, <2>3, <2>4, <2>6, <2>7 DEF MetricsInv, AnswersTyped, CountsOK
<1>12. CASE Finished(token)
  <2> DEFINE g == Forgotten(d, u)
             E == EndedUids
             F == EndedUids'
             a == AnswerLens
             b == AnswerLens'
             n == MaxSeqLen
  <2>1. collector' = RequestCompleted(d, u) /\ newFinished' = newFinished \cup {u}
    BY <1>10, <1>12 DEF ResultCounted
  <2>2. /\ g = [active |-> g.active, completed |-> d.completed, input |-> d.input, output |-> d.output]
        /\ Tracked(g) = Tracked(d) \ {u} /\ \A v \in Tracked(g) : g.active[v] = d.active[v]
    <3> HIDE DEF d
    <3>1. d = [active |-> d.active, completed |-> d.completed, input |-> d.input, output |-> d.output]
      BY <1>5
    <3>2. QED BY <3>1, ForgottenFacts
  <2>3. /\ CollectorTyped' /\ collector'.active = g.active
        /\ collector'.completed = c.completed + 1 /\ collector'.output = c.output + (k + 1)
    <3>1. u \in Tracked(d) BY <1>3, <1>5
    <3>2. collector' = [g EXCEPT !.completed = @ + 1, !.output = @ + d.active[u]]
      BY <2>1, <3>1 DEF RequestCompleted
    <3> HIDE DEF c, d, g, k
    <3>3. PICK x : x = collector' OBVIOUS
    <3>4. x = [active |-> g.active, completed |-> c.completed + 1, input |-> c.input,
               output |-> c.output + (k + 1)]
      <4>1. g = [active |-> g.active, completed |-> c.completed, input |-> c.input, output |-> c.output]
        BY <1>5, <2>2
      <4>2. d.active[u] = k + 1 BY <1>5
      <4>3. x = [g EXCEPT !.completed = @ + 1, !.output = @ + (k + 1)] BY <3>2, <3>3, <4>2
      <4>4. PICK o : o = g.active OBVIOUS
      <4>5. PICK q, i, r : q = c.completed /\ i = c.input /\ r = c.output OBVIOUS
      <4>6. g = [active |-> o, completed |-> q, input |-> i, output |-> r] BY <4>1, <4>4, <4>5
      <4>7. x = [active |-> o, completed |-> q + 1, input |-> i, output |-> r + (k + 1)]
        BY <4>3, <4>6
      <4>8. QED BY <4>4, <4>5, <4>7
    <3>5. x = [active |-> x.active, completed |-> x.completed, input |-> x.input, output |-> x.output]
      BY <3>4
    <3>6. QED BY <3>3, <3>4, <3>5 DEF CollectorTyped
  <2>4. u \notin E /\ F = E \cup {u}
    <3>1. Ended(u)' <=> TRUE BY <1>7, <1>12
    <3>2. QED BY <1>1, <1>6, <3>1 DEF EndedUids
  <2>5. \A v \in E : v \in Uids /\ v # u /\ Ended(v) BY DEF EndedUids
  <2>6. b = [v \in F |-> IF v = u THEN k + 1 ELSE a[v]]
    <3>1. \A v \in F : AnswerLen(v)' = IF v = u THEN k + 1 ELSE a[v]
      BY <1>6, <1>7, <1>12, <2>4, <2>5 DEF AnswerLens
    <3>2. QED BY <3>1 DEF AnswerLens
  <2>7. IsFiniteSet(E) /\ a \in [E -> 0..n] BY DEF MetricsInv, AnswersTyped
  <2>8. n \in Nat /\ k + 1 \in 0..n BY <1>1, BudgetAssumption DEF ResultCounted
  <2>9. IsFiniteSet(F) /\ Cardinality(F) = Cardinality(E) + 1
    <3> HIDE DEF E, F
    <3>1. QED BY <2>4, <2>7, FS_AddElement
  <2>10. b \in [F -> 0..n] /\ b[u] = k + 1 /\ \A v \in E : b[v] = a[v]
    <3> HIDE DEF E, F, a, b, k, n
    <3>1. QED BY <2>4, <2>6, <2>7, <2>8
  <2>11. Cardinality(Units(b, F)) = Cardinality(Units(a, E)) + (k + 1)
    <3>1. Units(b, E) = Units(a, E)
      <4> HIDE DEF a, b, E
      <4>1. QED BY <2>10, UnitsAgree
    <3>2. F \ {u} = E BY <2>4
    <3>3. u \in F BY <2>4
    <3> HIDE DEF E, F, a, b, k, n
    <3>4. Cardinality(Units(b, F)) = Cardinality(Units(b, F \ {u})) + b[u]
      BY <2>8, <2>9, <2>10, <3>3, UnitsSplit
    <3>5. QED BY <2>10, <3>1, <3>2, <3>4
  <2>12. CountsOK'
    <3>1. c.completed = Cardinality(E) /\ c.output = Cardinality(Units(a, E)) BY DEF MetricsInv, CountsOK
    <3>2. collector'.completed = Cardinality(F) /\ collector'.output = Cardinality(Units(b, F))
      <4> HIDE DEF c, E, F, a, b, k
      <4>1. QED BY <2>3, <2>9, <2>11, <3>1
    <3>3. QED BY <3>2 DEF CountsOK
  <2>13. TrackedOK'
    <3>1. Tracked(collector)' = Tracked(c) \ {u} BY <1>5, <2>2, <2>3 DEF Tracked
    <3>2. \A v \in Uids : v # u => (Ended(v)' <=> Ended(v)) BY <1>6
    <3>3. Ended(u)' BY <1>7, <1>12
    <3>4. Tracked(collector)' = {v \in arrived' : ~TooLong(v) /\ v \notin aborted' /\ ~Ended(v)'}
      <4> HIDE DEF c
      <4>1. QED BY <1>2, <1>9, <3>1, <3>2, <3>3
    <3>5. \A v \in Tracked(collector') : collector'.active[v] = Len(replies'[v])
      <4>1. \A v \in Tracked(collector') : v \in Tracked(c) /\ v \in Tracked(g) BY <1>5, <2>2, <3>1
      <4> HIDE DEF c, d, g
      <4>2. QED BY <1>8, <2>2, <2>3, <4>1
    <3>6. QED BY <3>4, <3>5 DEF TrackedOK
  <2>14. AnswersTyped' BY <2>9, <2>10 DEF AnswersTyped
  <2>15. finishedReqs' \cup newFinished' \subseteq EndedUids'
    BY <1>9, <2>1, <2>4 DEF MetricsInv
  <2>16. QED BY <2>3, <2>12, <2>13, <2>14, <2>15 DEF MetricsInv
<1>13. QED BY <1>11, <1>12

LEMMA ProcessMetrics ==
  ASSUME SchedInv, SchedInv', SamplesOK, MetricsInv, ~Overlap \/ CanAbort = {}, Process
  PROVE  MetricsInv'
<1>1. pc = "process" /\ cursor <= Len(Results.reqs) BY DEF Process
<1>2. Going BY <1>1 DEF SchedInv, Stopped
<1>3. PICK token \in Vocab : token = Samples[cursor].token BY <1>1, SampleOfResult
<1>4. CASE ProcessFails(token) /\ UNCHANGED collector
  <2>1. UNCHANGED <<arrived, aborted, replies, finishedReqs, newFinished>>
    BY <1>4 DEF ProcessFails, Crash
  <2>2. QED BY <1>4, <2>1, QuietMetrics
<1>5. CASE /\ ProcessReq(token)
           /\ collector' = IF FirstFinish(token)
                           THEN RequestCompleted(RequestOutputToken(collector, Current.uid), Current.uid)
                           ELSE RequestOutputToken(collector, Current.uid)
  <2> DEFINE u == Current.uid
  <2>1. ~Current.chunked /\ pc' \in {pc, "freed twice"} BY <1>5 DEF ProcessReq
  <2>2. pc' = "process" BY <1>1, <2>1 DEF SchedInv, Faults
  <2>3. /\ u \in Uids /\ u \in arrived
        /\ u \notin holds => u \in finishedReqs \cup aborted
        /\ ~Overlap => u \in holds
    BY <1>1, <1>2, <2>1, ResultFacts
  <2>4. u \notin aborted
    <3>1. ~Overlap => aborted \cap holds = {} BY <1>2 DEF Going, HoldsOK
    <3>2. aborted \subseteq CanAbort BY <1>2 DEF Going, Types
    <3>3. QED BY <2>3, <3>1, <3>2
  <2>5. Replied(u, token) BY <1>2, <1>5, ReplyFacts
  <2>6. replies \in [Uids -> Seq(Reply)] /\ arrived \subseteq Uids BY <1>2 DEF Going, Types
  <2>7. /\ replies' \in [Uids -> Seq(Reply)] /\ UNCHANGED <<arrived, aborted, finishedReqs>>
    BY <1>2, <1>5, <2>2, ProcessReqFacts
  <2>8. newFinished' = IF FirstFinish(token) THEN newFinished \cup {u} ELSE newFinished
    BY <1>5 DEF ProcessReq
  <2>9. FirstFinish(token) <=> Finished(token) /\ u \notin finishedReqs BY DEF FirstFinish
  <2>10. ~TooLong(u) /\ Len(replies[u]) + 1 <= MaxSeqLen
    <3>1. NoExcess' BY DEF SchedInv
    <3>2. Len(replies'[u]) <= IF TooLong(u) THEN 0 ELSE OutputLen(u)
      BY <2>3, <3>1 DEF NoExcess
    <3>3. Len(replies[u]) \in Nat /\ Len(replies'[u]) = Len(replies[u]) + 1 BY <2>5 DEF Replied
    <3>4. ~TooLong(u) BY <3>2, <3>3
    <3>5. /\ FullLength(u) <= MaxSeqLen /\ FullLength(u) = Len(Prompt[u]) + OutputLen(u)
          /\ Len(Prompt[u]) \in Nat /\ OutputLen(u) \in Nat /\ MaxSeqLen \in Nat
      BY <2>3, <3>4, FullLengths
    <3>6. Len(replies'[u]) <= OutputLen(u) BY <3>2, <3>4
    <3>7. QED BY <3>3, <3>4, <3>5, <3>6
  <2>11. ResultCounted(u, token)
    BY <1>5, <2>3, <2>4, <2>5, <2>6, <2>7, <2>8, <2>9, <2>10 DEF ResultCounted, Answered
  <2> HIDE DEF u
  <2>12. QED BY <2>11, EndedAlready, EndsOrGoesOn
<1>6. QED BY <1>3, <1>4, <1>5 DEF Process

LEMMA MetricsStep ==
  ASSUME SchedInv, SchedInv', SamplesOK, MetricsInv, ~Overlap \/ CanAbort = {},
         [ServingNext]_allVars
  PROVE  MetricsInv'
<1>1. CASE UNCHANGED allVars
  <2>1. UNCHANGED <<collector, replies, arrived, aborted, finishedReqs, newFinished>>
    BY <1>1 DEF allVars, vars, schedVars
  <2>2. QED BY <2>1, QuietMetrics
<1>2. ASSUME NEW u \in Uids, Arrive(u) \/ Abort(u) PROVE MetricsInv'
  <2>1. Going BY <1>2 DEF Arrive, Abort, ReceiveUser, ReceiveAbort, SchedInv, Stopped
  <2>2. QED BY <1>2, <2>1, ArriveMetrics, AbortMetrics
<1>3. CASE ContinueChunk \/ Admit
  <2>1. UNCHANGED <<collector, replies, arrived, aborted, finishedReqs, newFinished>>
    BY <1>3 DEF ContinueChunk, Admit, AdmitChunk, AdmitNew
  <2>2. QED BY <2>1, QuietMetrics
<1>4. CASE Run
  <2>1. UNCHANGED <<collector, replies, arrived, aborted, finishedReqs, newFinished>>
    BY <1>4 DEF Run, Forward
  <2>2. QED BY <2>1, QuietMetrics
<1>5. CASE Process BY <1>5, ProcessMetrics
<1>6. CASE Finish
  <2>1. /\ UNCHANGED <<collector, replies, arrived, aborted>>
        /\ newFinished' = {} /\ finishedReqs' \in {finishedReqs, newFinished}
    BY <1>6 DEF Finish, EndIteration, RememberFinished
  <2>2. finishedReqs' \cup newFinished' \subseteq finishedReqs \cup newFinished BY <2>1
  <2>3. QED BY <2>1, <2>2, QuietMetrics
<1>7. CASE Other
  <2>1. UNCHANGED <<collector, replies, arrived, aborted, finishedReqs, newFinished>>
    BY <1>7 DEF Other, StartPrefill, SkipPrefill, StopAdmitting, EvictForBatch, EvictFails,
                SkipChunk, BecomeUrgent, Crash, schedVars
  <2>2. QED BY <2>1, QuietMetrics
<1>8. QED BY <1>1, <1>2, <1>3, <1>4, <1>5, <1>6, <1>7 DEF ServingNext

(* The fold that sums the answers up is that number of elements.           *)
LEMMA OutputUnits ==
  ASSUME AnswersTyped
  PROVE  MapThenSumSet(AnswerLen, EndedUids) = Cardinality(Units(AnswerLens, EndedUids))
<1> DEFINE S == EndedUids
           v == AnswerLens
           g == [s \in SUBSET S |-> Cardinality(Units(v, s))]
           Is(h) == h = [s \in SUBSET S |->
                           IF s = {} THEN 0
                           ELSE AnswerLen(CHOOSE x \in s : TRUE) + h[s \ {CHOOSE x \in s : TRUE}]]
           i == CHOOSE h : Is(h)
<1>1. PICK n \in Nat : v \in [S -> 0..n] /\ IsFiniteSet(S) BY BudgetAssumption DEF AnswersTyped
<1>2. Summing(g, v, S)
  <2>1. g[{}] = 0
    <3>1. Units(v, {}) = {} BY DEF Units
    <3>2. QED BY <3>1, FS_EmptySet
  <2>2. ASSUME NEW s \in SUBSET S, NEW x \in s PROVE g[s] = v[x] + g[s \ {x}]
    <3>1. Cardinality(Units(v, s)) = v[x] + Cardinality(Units(v, s \ {x}))
      <4> HIDE DEF S, v
      <4>1. QED BY <1>1, UnitsOfElement
    <3>2. QED BY <3>1
  <2> HIDE DEF v, S
  <2>3. QED BY <2>1, <2>2 DEF Summing
<1>3. ASSUME NEW h PROVE ChosenFirst(h, v, S) <=> Is(h)
  <2>1. \A s \in SUBSET S : s # {} => v[CHOOSE x \in s : TRUE] = AnswerLen(CHOOSE x \in s : TRUE)
    BY DEF AnswerLens
  <2> HIDE DEF v
  <2>2. [s \in SUBSET S |->
           IF s = {} THEN 0 ELSE v[CHOOSE x \in s : TRUE] + h[s \ {CHOOSE x \in s : TRUE}]]
        = [s \in SUBSET S |->
             IF s = {} THEN 0
             ELSE AnswerLen(CHOOSE x \in s : TRUE) + h[s \ {CHOOSE x \in s : TRUE}]]
    BY <2>1
  <2>3. QED BY <2>2 DEF ChosenFirst
<1>4. MapThenSumSet(AnswerLen, EndedUids) = i[S] BY Zenon DEF MapThenSumSet, MapThenFoldSet
<1>5. ChosenFirst(g, v, S)
  <2> HIDE DEF g, v, S
  <2>1. QED BY <1>1, <1>2, FoldIsSum
<1>6. Is(i)
  <2>1. \E h : Is(h)
    <3> HIDE DEF Is
    <3>1. Is(g) BY <1>3, <1>5
    <3>2. QED BY <3>1
  <2>2. QED BY <2>1, Zenon
<1>7. i[S] = g[S]
  <2> HIDE DEF i, g, v, Is, S
  <2>1. ChosenFirst(i, v, S) BY <1>3, <1>6
  <2>2. QED BY <1>1, <1>2, <2>1, FoldIsSum
<1>8. g[S] = Cardinality(Units(v, S)) OBVIOUS
<1> HIDE DEF i, g
<1>9. QED BY <1>4, <1>7, <1>8

(* In normal_loop, or in overlap_loop without aborts, the collector tracks *)
(* exactly the requests that are still to be answered, and has counted     *)
(* each that ended once, with the tokens up to its end: not those that     *)
(* overlap adds behind it, not those of an abort (metrics/collector.py).   *)
THEOREM ServingMetrics ==
  ASSUME ~Overlap \/ CanAbort = {}
  PROVE  ServingSpec => []MetricsExact
<1>1. ServingInit => MetricsInv BY MetricsInit
<1>2. SchedInv /\ SamplesOK /\ MetricsInv /\ SchedInv' /\ [ServingNext]_allVars => MetricsInv'
  BY MetricsStep
<1>3. ServingSpec => []MetricsInv BY ServingInvariant, <1>1, <1>2, PTL DEF ServingSpec
<1>4. ASSUME MetricsInv PROVE MetricsExact
  <2>1. MapThenSumSet(AnswerLen, EndedUids) = Cardinality(Units(AnswerLens, EndedUids))
    BY <1>4, OutputUnits DEF MetricsInv
  <2>2. QED BY <1>4, <2>1 DEF MetricsInv, MetricsExact, TrackedOK, CountsOK, EndedUids
<1>5. MetricsInv => MetricsExact BY <1>4
<1>6. QED BY <1>3, <1>5, PTL

----------------------------------------------------------------------------
(* Folds of sequences. What the community modules fold with an operator is *)
(* a function of the sets of positions; it exists if the step is one       *)
(* within some set, and on 1..k it is the step from what it is on 1..k-1.  *)
Folded(h, st, b, n) ==
  h = [s \in SUBSET (1..n) |->
         IF s = {} THEN b ELSE st[<<Max(s), h[s \ {Max(s)}]>>]]

LEMMA FoldDefined ==
  ASSUME NEW n \in Nat, NEW V, NEW b \in V, NEW st \in [(1..n) \X V -> V]
  PROVE  \E h \in [SUBSET (1..n) -> V] : Folded(h, st, b, n)
<1> DEFINE Ok(m) == \E h \in [SUBSET (1..m) -> V] : Folded(h, st, b, m)
           Bad == {m \in 0..n : ~Ok(m)}
<1>1. Ok(0)
  <2> DEFINE h == [s \in SUBSET (1..0) |-> b]
  <2>1. \A s \in SUBSET (1..0) : s = {} OBVIOUS
  <2>2. h \in [SUBSET (1..0) -> V] /\ Folded(h, st, b, 0) BY <2>1 DEF Folded
  <2>3. QED BY <2>2
<1>2. ASSUME NEW m \in 0..n, m + 1 <= n, Ok(m) PROVE Ok(m + 1)
  <2>1. PICK h \in [SUBSET (1..m) -> V] : Folded(h, st, b, m) BY <1>2
  <2> DEFINE g == [s \in SUBSET (1..(m + 1)) |->
                     IF m + 1 \in s THEN st[<<m + 1, h[s \ {m + 1}]>>] ELSE h[s]]
  <2>2. ASSUME NEW s \in SUBSET (1..(m + 1)), m + 1 \notin s PROVE s \in SUBSET (1..m)
    <3>1. \A i \in 1..(m + 1) : i = m + 1 \/ i \in 1..m BY <1>2
    <3>2. QED BY <2>2, <3>1
  <2>3. ASSUME NEW s \in SUBSET (1..(m + 1)), m + 1 \in s
        PROVE  Max(s) = m + 1 /\ s \ {m + 1} \in SUBSET (1..m) /\ s # {}
    <3>1. \A i \in 1..(m + 1) : i = m + 1 \/ i \in 1..m BY <1>2
    <3>2. \A i \in s : i <= m + 1 /\ i \in Int BY <2>3
    <3>3. \E x \in s : \A y \in s : x >= y BY <2>3, <3>2
    <3>4. Max(s) \in s /\ \A y \in s : Max(s) >= y BY <3>3 DEF Max
    <3>5. Max(s) = m + 1
      <4>1. Max(s) >= m + 1 /\ Max(s) <= m + 1 /\ Max(s) \in Int BY <2>3, <3>2, <3>4
      <4>2. QED BY <4>1, <1>2
    <3>6. QED BY <2>3, <3>1, <3>5
  <2>4. ASSUME NEW s \in SUBSET (1..m) PROVE g[s] = h[s] /\ s \in SUBSET (1..(m + 1)) /\ m + 1 \notin s
    <3>1. m + 1 \notin 1..m /\ 1..m \subseteq 1..(m + 1) BY <1>2
    <3>2. QED BY <3>1
  <2>5. m + 1 \in 1..n BY <1>2
  <2>6. g \in [SUBSET (1..(m + 1)) -> V]
    <3>1. ASSUME NEW s \in SUBSET (1..(m + 1)) PROVE g[s] \in V
      <4>1. CASE m + 1 \in s
        <5>1. h[s \ {m + 1}] \in V BY <2>1, <2>3, <4>1
        <5>2. g[s] = st[<<m + 1, h[s \ {m + 1}]>>] BY <4>1
        <5>3. QED BY <2>5, <5>1, <5>2
      <4>2. CASE m + 1 \notin s BY <2>1, <2>2, <4>2
      <4>3. QED BY <4>1, <4>2
    <3>2. QED BY <3>1
  <2>7. ASSUME NEW s \in SUBSET (1..(m + 1))
        PROVE  g[s] = IF s = {} THEN b ELSE st[<<Max(s), g[s \ {Max(s)}]>>]
    <3>1. CASE m + 1 \in s
      <4>1. g[s] = st[<<m + 1, h[s \ {m + 1}]>>] BY <3>1
      <4>2. g[s \ {m + 1}] = h[s \ {m + 1}] BY <2>3, <2>4, <3>1
      <4> HIDE DEF g
      <4>3. QED BY <2>3, <3>1, <4>1, <4>2
    <3>2. CASE m + 1 \notin s
      <4>1. s \in SUBSET (1..m) /\ g[s] = h[s] BY <2>2, <3>2
      <4>2. h[s] = IF s = {} THEN b ELSE st[<<Max(s), h[s \ {Max(s)}]>>]
        BY <2>1, <4>1 DEF Folded
      <4>3. g[s \ {Max(s)}] = h[s \ {Max(s)}] BY <2>4, <4>1
      <4> HIDE DEF g
      <4>4. QED BY <4>1, <4>2, <4>3
    <3>3. QED BY <3>1, <3>2
  <2>8. DOMAIN g = SUBSET (1..(m + 1)) OBVIOUS
  <2> HIDE DEF g
  <2>9. g = [s \in SUBSET (1..(m + 1)) |-> g[s]] BY <2>6
  <2>10. Folded(g, st, b, m + 1) BY <2>7, <2>9 DEF Folded
  <2>11. QED BY <2>6, <2>10
<1>3. Bad = {}
  <2> SUFFICES ASSUME Bad # {} PROVE FALSE OBVIOUS
  <2>1. Bad \in SUBSET Nat OBVIOUS
  <2>2. PICK m \in Bad : \A k \in Bad : m <= k
    <3> HIDE DEF Bad
    <3>1. QED BY <2>1, LeastNatural
  <2> HIDE DEF Ok
  <2>3. m \in 0..n /\ ~Ok(m) BY <2>2
  <2>4. m # 0 BY <1>1, <2>3
  <2>5. m - 1 \in 0..n /\ (m - 1) + 1 = m /\ m - 1 < m BY <2>3, <2>4
  <2>6. m - 1 \notin Bad
    <3> HIDE DEF Bad
    <3>1. ~(m <= m - 1) BY <2>3
    <3>2. QED BY <2>2, <3>1
  <2>7. Ok(m - 1) BY <2>5, <2>6
  <2>8. QED BY <1>2, <2>3, <2>5, <2>7
<1> HIDE DEF Ok
<1>4. Ok(n) BY <1>3
<1>5. QED BY <1>4 DEF Ok

LEMMA MaxOfPrefix ==
  ASSUME NEW k \in Nat \ {0}
  PROVE  /\ 1..k # {} /\ Max(1..k) = k /\ (1..k) \ {k} = 1..(k - 1)
<1>1. k \in 1..k /\ \A y \in 1..k : k >= y OBVIOUS
<1>2. Max(1..k) \in 1..k /\ \A y \in 1..k : Max(1..k) >= y BY <1>1 DEF Max
<1>3. Max(1..k) = k BY <1>1, <1>2
<1>4. QED BY <1>1, <1>3

(* Running sums of numbers, as the positions where the parts of a batch    *)
(* end.                                                                    *)
Sums(c, e, n) ==
  c \in [0..n -> Nat] /\ c[0] = 0 /\ \A i \in 1..n : c[i] = c[i - 1] + e[i]

LEMMA SumsExist ==
  ASSUME NEW n \in Nat, NEW e \in [1..n -> Nat]
  PROVE  \E c : Sums(c, e, n)
<1> DEFINE st == [p \in (1..n) \X Nat |-> p[2] + e[p[1]]]
<1>1. st \in [(1..n) \X Nat -> Nat] OBVIOUS
<1>2. 0 \in Nat OBVIOUS
<1>3. PICK h \in [SUBSET (1..n) -> Nat] : Folded(h, st, 0, n)
  <2> HIDE DEF st
  <2>1. QED BY <1>1, <1>2, FoldDefined
<1> DEFINE c == [i \in 0..n |-> h[1..i]]
<1>4. \A i \in 0..n : 1..i \in SUBSET (1..n) OBVIOUS
<1>5. c \in [0..n -> Nat]
  <2>1. \A i \in 0..n : h[1..i] \in Nat BY <1>3, <1>4
  <2>2. QED BY <2>1
<1>6. c[0] = 0
  <2>1. 1..0 = {} /\ 0 \in 0..n OBVIOUS
  <2>2. h[1..0] = 0 BY <1>3, <1>4, <2>1 DEF Folded
  <2>3. QED BY <2>1, <2>2
<1>7. ASSUME NEW i \in 1..n PROVE c[i] = c[i - 1] + e[i]
  <2>1. i \in Nat \ {0} /\ i \in 0..n /\ i - 1 \in 0..n OBVIOUS
  <2>2. 1..i # {} /\ Max(1..i) = i /\ (1..i) \ {i} = 1..(i - 1) BY <2>1, MaxOfPrefix
  <2>3. h[1..i] = st[<<i, h[1..(i - 1)]>>]
    <3> HIDE DEF st
    <3>1. QED BY <1>3, <1>4, <2>1, <2>2 DEF Folded
  <2>4. h[1..(i - 1)] \in Nat BY <1>3, <1>4, <2>1
  <2>5. h[1..i] = h[1..(i - 1)] + e[i] BY <2>3, <2>4
  <2>6. QED BY <2>1, <2>5
<1>8. QED BY <1>5, <1>6, <1>7 DEF Sums

LEMMA SumsGrow ==
  ASSUME NEW n \in Nat, NEW e \in [1..n -> Nat], NEW c, Sums(c, e, n)
  PROVE  \A j \in 0..n : \A i \in 0..j : c[i] <= c[j]
<1> DEFINE Bad == {j \in 0..n : ~\A i \in 0..j : c[i] <= c[j]}
<1>1. Bad = {}
  <2> SUFFICES ASSUME Bad # {} PROVE FALSE OBVIOUS
  <2>1. Bad \in SUBSET Nat OBVIOUS
  <2>2. PICK m \in Bad : \A k \in Bad : m <= k
    <3> HIDE DEF Bad
    <3>1. QED BY <2>1, LeastNatural
  <2>3. m \in 0..n /\ ~\A i \in 0..m : c[i] <= c[m] BY <2>2
  <2>4. PICK i \in 0..m : ~(c[i] <= c[m]) BY <2>3
  <2>5. c \in [0..n -> Nat] BY DEF Sums
  <2>6. i # m /\ m # 0 BY <2>3, <2>4, <2>5
  <2>7. m - 1 \in 0..n /\ i \in 0..(m - 1) /\ m \in 1..n /\ ~(m <= m - 1) BY <2>3, <2>4, <2>6
  <2>8. m - 1 \notin Bad
    <3> HIDE DEF Bad
    <3>1. QED BY <2>2, <2>7
  <2>9. c[i] <= c[m - 1] BY <2>7, <2>8
  <2>10. c[m] = c[m - 1] + e[m] /\ e[m] \in Nat BY <2>7 DEF Sums
  <2>11. c[i] \in Nat /\ c[m - 1] \in Nat BY <2>3, <2>5, <2>7
  <2>12. QED BY <2>4, <2>9, <2>10, <2>11
<1>2. QED BY <1>1

(* Each position lies in one part.                                         *)
LEMMA SumsPlace ==
  ASSUME NEW n \in Nat, NEW e \in [1..n -> Nat], NEW c, Sums(c, e, n)
  PROVE  /\ \A f \in 1..c[n] : \E i \in 1..n : c[i - 1] < f /\ f <= c[i]
         /\ \A f \in Nat : \A i, j \in 1..n :
              c[i - 1] < f /\ f <= c[i] /\ c[j - 1] < f /\ f <= c[j] => i = j
<1>1. c \in [0..n -> Nat] /\ c[0] = 0 BY DEF Sums
<1>2. ASSUME NEW f \in 1..c[n] PROVE \E i \in 1..n : c[i - 1] < f /\ f <= c[i]
  <2> DEFINE T == {i \in 0..n : f <= c[i]}
  <2>1. T \in SUBSET Nat /\ n \in T
    <3>1. n \in 0..n /\ c[n] \in Nat BY <1>1
    <3>2. QED BY <1>2, <3>1
  <2>2. PICK i \in T : \A k \in T : i <= k
    <3> HIDE DEF T
    <3>1. T # {} BY <2>1
    <3>2. QED BY <2>1, <3>1, LeastNatural
  <2>3. i \in 0..n /\ f <= c[i] BY <2>2
  <2>4. c[n] \in Nat BY <1>1
  <2>5. i # 0 BY <1>1, <1>2, <2>3, <2>4
  <2>6. i \in 1..n /\ i - 1 \in 0..n /\ ~(i <= i - 1) BY <2>3, <2>5
  <2>7. i - 1 \notin T
    <3> HIDE DEF T
    <3>1. QED BY <2>2, <2>6
  <2>8. ~(f <= c[i - 1]) /\ c[i - 1] \in Nat BY <1>1, <2>6, <2>7
  <2>9. c[i - 1] < f BY <1>2, <2>4, <2>8
  <2>10. QED BY <2>3, <2>6, <2>9
<1>3. ASSUME NEW f \in Nat, NEW i \in 1..n, NEW j \in 1..n, i < j,
             c[i - 1] < f /\ f <= c[i] /\ c[j - 1] < f /\ f <= c[j]
      PROVE  FALSE
  <2>1. i \in 0..(j - 1) /\ j - 1 \in 0..n /\ i \in 0..n BY <1>3
  <2>2. c[i] <= c[j - 1] BY <2>1, SumsGrow
  <2>3. c[i] \in Nat /\ c[j - 1] \in Nat BY <1>1, <2>1
  <2>4. QED BY <1>3, <2>2, <2>3
<1>4. ASSUME NEW f \in Nat, NEW i \in 1..n, NEW j \in 1..n,
             c[i - 1] < f /\ f <= c[i] /\ c[j - 1] < f /\ f <= c[j]
      PROVE  i = j
  <2>1. ~(i < j) BY <1>3, <1>4
  <2>2. ~(j < i) BY <1>3, <1>4
  <2>3. QED BY <2>1, <2>2
<1>5. QED BY <1>2, <1>4

(* Parts in a row: part i is behind position c[i - 1].                     *)
Layout(q, parts, c, e, n, S) ==
  /\ q \in Seq(S) /\ Len(q) = c[n]
  /\ \A i \in 1..n : \A j \in 1..e[i] : q[c[i - 1] + j] = parts[i][j]

LEMMA LayoutGrows ==
  ASSUME NEW n \in Nat, NEW S, NEW parts \in [1..n -> Seq(S)], NEW e \in [1..n -> Nat],
         \A i \in 1..n : Len(parts[i]) = e[i], NEW c, Sums(c, e, n),
         NEW m \in 1..n, NEW q, Layout(q, parts, c, e, m - 1, S)
  PROVE  Layout(q \o parts[m], parts, c, e, m, S)
<1>1. /\ c \in [0..n -> Nat] /\ c[m] = c[m - 1] + e[m]
      /\ \A i \in 1..m : i - 1 \in 0..(m - 1) /\ i \in 1..n /\ i - 1 \in 0..n /\ i \in 0..n
      /\ m - 1 \in 0..n
  BY DEF Sums
<1>2. PICK a \in Nat : a = c[m - 1] BY <1>1
<1>3. PICK b \in Nat : b = e[m] OBVIOUS
<1>4. PICK p \in Seq(S) : p = parts[m] OBVIOUS
<1>5. q \in Seq(S) /\ Len(q) = a /\ Len(p) = b BY <1>2, <1>3, <1>4 DEF Layout
<1>6. /\ q \o p \in Seq(S) /\ Len(q \o p) = a + b
      /\ \A i \in 1..(a + b) : (q \o p)[i] = IF i <= a THEN q[i] ELSE p[i - a]
  <2>1. /\ q \o p \in Seq(S) /\ Len(q \o p) = Len(q) + Len(p)
        /\ \A i \in 1..(Len(q) + Len(p)) : (q \o p)[i] = IF i <= Len(q) THEN q[i] ELSE p[i - Len(q)]
    BY <1>5, ConcatProperties
  <2>2. QED BY <1>5, <2>1
<1>7. ASSUME NEW i \in 1..m, NEW j \in 1..e[i] PROVE (q \o p)[c[i - 1] + j] = parts[i][j]
  <2>1. CASE i = m
    <3>1. a + j \in 1..(a + b) /\ ~(a + j <= a) /\ (a + j) - a = j BY <1>2, <1>3, <2>1
    <3>2. QED BY <1>2, <1>4, <1>6, <2>1, <3>1
  <2>2. CASE i # m
    <3>1. i \in 1..(m - 1) /\ i \in 0..(m - 1) /\ i \in 1..n BY <1>1, <2>2
    <3>2. c[i] = c[i - 1] + e[i] /\ c[i - 1] \in Nat /\ e[i] \in Nat
      BY <1>1, <3>1 DEF Sums
    <3>3. c[i] <= c[m - 1] BY <1>1, <3>1, SumsGrow
    <3>4. c[i - 1] + j \in 1..a BY <1>2, <3>2, <3>3
    <3>5. c[i - 1] + j \in 1..(a + b) /\ c[i - 1] + j <= a BY <1>2, <1>3, <3>4
    <3>6. q[c[i - 1] + j] = parts[i][j] BY <3>1 DEF Layout
    <3>7. QED BY <1>6, <3>5, <3>6
  <2>3. QED BY <2>1, <2>2
<1>8. c[m] = a + b BY <1>1, <1>2, <1>3
<1>9. Layout(q \o p, parts, c, e, m, S) BY <1>6, <1>7, <1>8 DEF Layout
<1>10. QED BY <1>4, <1>9

LEMMA FlattenLayout ==
  ASSUME NEW n \in Nat, NEW S, NEW parts \in [1..n -> Seq(S)], NEW e \in [1..n -> Nat],
         \A i \in 1..n : Len(parts[i]) = e[i], NEW c, Sums(c, e, n)
  PROVE  Layout(FlattenSeq(parts), parts, c, e, n, S)
<1>1. parts \in Seq(Seq(S)) /\ Len(parts) = n OBVIOUS
<1>2. Layout(<<>>, parts, c, e, 0, S) BY DEF Layout, Sums
<1>3. CASE n = 0
  <2>1. parts = <<>> BY <1>1, <1>3, EmptySeq
  <2>2. FlattenSeq(parts) = parts BY <1>1, <1>3 DEF FlattenSeq
  <2>3. QED BY <1>2, <1>3, <2>1, <2>2
<1>4. CASE n # 0
  <2> DEFINE V == Seq(S)
             st == [p \in (1..n) \X V |-> p[2] \o parts[p[1]]]
             Is(f) == f = [i \in 1..Len(parts) |-> IF i = 1 THEN parts[i] ELSE f[i - 1] \o parts[i]]
             w == CHOOSE f : Is(f)
             Ok(i) == Layout(w[i], parts, c, e, i, S)
             Bad == {i \in 1..n : ~Ok(i)}
  <2>1. \E f : Is(f)
    <3>1. st \in [(1..n) \X V -> V]
      <4>1. \A p \in (1..n) \X V : p[2] \o parts[p[1]] \in V BY ConcatProperties
      <4>2. QED BY <4>1
    <3>2. <<>> \in V OBVIOUS
    <3>3. PICK h \in [SUBSET (1..n) -> V] : Folded(h, st, <<>>, n)
      <4> HIDE DEF st, V
      <4>1. QED BY <3>1, <3>2, FoldDefined
    <3> DEFINE g == [i \in 1..n |-> h[1..i]]
    <3>4. ASSUME NEW i \in 1..n PROVE h[1..i] = IF i = 1 THEN parts[i] ELSE h[1..(i - 1)] \o parts[i]
      <4>1. 1..i # {} /\ Max(1..i) = i /\ (1..i) \ {i} = 1..(i - 1)
        <5>1. i \in Nat \ {0} OBVIOUS
        <5>2. QED BY <5>1, MaxOfPrefix
      <4>2. 1..i \in SUBSET (1..n) /\ 1..(i - 1) \in SUBSET (1..n) OBVIOUS
      <4>3. h[1..i] = st[<<i, h[1..(i - 1)]>>]
        <5> HIDE DEF st, V
        <5>1. QED BY <3>3, <4>1, <4>2 DEF Folded
      <4>4. h[1..(i - 1)] \in V BY <3>3, <4>2
      <4>5. h[1..i] = h[1..(i - 1)] \o parts[i] BY <4>3, <4>4
      <4>6. CASE i = 1
        <5>1. 1..(i - 1) = {} BY <4>6
        <5>2. {} \in SUBSET (1..n) OBVIOUS
        <5>3. h[{}] = <<>> BY <3>3, <5>2 DEF Folded
        <5>4. PICK p \in Seq(S) : p = parts[i] OBVIOUS
        <5>5. <<>> \o p = p OBVIOUS
        <5>6. QED BY <4>5, <4>6, <5>1, <5>3, <5>4, <5>5
      <4>7. QED BY <4>5, <4>6
    <3>5. \A i \in 1..n : i # 1 => i - 1 \in 1..n OBVIOUS
    <3>6. \A i \in 1..n : g[i] = IF i = 1 THEN parts[i] ELSE g[i - 1] \o parts[i] BY <3>4, <3>5
    <3>7. DOMAIN g = 1..n OBVIOUS
    <3>8. g = [i \in 1..n |-> g[i]] OBVIOUS
    <3> HIDE DEF g
    <3>9. g = [i \in 1..n |-> IF i = 1 THEN parts[i] ELSE g[i - 1] \o parts[i]] BY <3>6, <3>8
    <3>10. Is(g) BY <1>1, <3>9
    <3>11. QED BY <3>10
  <2>2. Is(w) BY <2>1, Zenon
  <2>3. FlattenSeq(parts) = w[Len(parts)] BY <1>1, <1>4, Zenon DEF FlattenSeq
  <2>4. \A i \in 1..n : w[i] = IF i = 1 THEN parts[i] ELSE w[i - 1] \o parts[i]
    <3> HIDE DEF w
    <3>1. QED BY <1>1, <2>2
  <2> HIDE DEF w
  <2>5. Bad = {}
    <3> SUFFICES ASSUME Bad # {} PROVE FALSE OBVIOUS
    <3>1. Bad \in SUBSET Nat OBVIOUS
    <3>2. PICK m \in Bad : \A k \in Bad : m <= k
      <4> HIDE DEF Bad
      <4>1. QED BY <3>1, LeastNatural
    <3> HIDE DEF Ok
    <3>3. m \in 1..n /\ ~Ok(m) BY <3>2
    <3>4. CASE m = 1
      <4>1. PICK p \in Seq(S) : p = parts[m] BY <3>3
      <4>2. <<>> \o p = p /\ m - 1 = 0 BY <3>4
      <4>3. Layout(<<>> \o parts[m], parts, c, e, m, S) BY <1>2, <3>3, <4>2, LayoutGrows
      <4>4. w[m] = parts[m] BY <2>4, <3>3, <3>4
      <4>5. QED BY <3>3, <4>1, <4>2, <4>3, <4>4 DEF Ok
    <3>5. CASE m # 1
      <4>1. m - 1 \in 1..n /\ ~(m <= m - 1) BY <3>3, <3>5
      <4>2. m - 1 \notin Bad
        <5> HIDE DEF Bad
        <5>1. QED BY <3>2, <4>1
      <4>3. Layout(w[m - 1], parts, c, e, m - 1, S) BY <4>1, <4>2 DEF Ok
      <4>4. Layout(w[m - 1] \o parts[m], parts, c, e, m, S) BY <3>3, <4>3, LayoutGrows
      <4>5. w[m] = w[m - 1] \o parts[m] BY <2>4, <3>3, <3>5
      <4>6. QED BY <3>3, <4>4, <4>5 DEF Ok
    <3>6. QED BY <3>4, <3>5
  <2>6. Ok(n)
    <3> HIDE DEF Ok
    <3>1. n \in 1..n BY <1>4
    <3>2. QED BY <2>5, <3>1
  <2>7. QED BY <1>1, <2>3, <2>6
<1>5. QED BY <1>3, <1>4

(* The sum of a sequence of numbers that the community modules define.     *)
LEMMA PlusIsFold ==
  ASSUME NEW s \in Seq(Nat)
  PROVE  \E h : LastFirst(h, s, Len(s)) /\ FoldLeft(+, 0, s) = h[1..Len(s)]
<1> DEFINE Is(h) == h = [t \in SUBSET DOMAIN s |->
                           IF t = {} THEN 0 ELSE h[t \ {Max(t)}] + s[Max(t)]]
           i == CHOOSE h : Is(h)
<1>1. DOMAIN s = 1..Len(s) /\ Len(s) \in Nat OBVIOUS
<1>2. ASSUME NEW h PROVE LastFirst(h, s, Len(s)) <=> Is(h) BY <1>1 DEF LastFirst
<1>3. \E h : LastFirst(h, s, Len(s)) BY <1>1, FoldExists
<1>4. \E h : Is(h) BY <1>2, <1>3
<1>5. Is(i) BY <1>4, Zenon
<1>6. FoldLeft(+, 0, s) = i[DOMAIN s] BY Zenon DEF FoldLeft, MapThenFoldSet
<1> HIDE DEF i, Is
<1>7. LastFirst(i, s, Len(s)) BY <1>2, <1>5
<1>8. QED BY <1>1, <1>6, <1>7

LEMMA CumulatedSums ==
  ASSUME NEW s \in Seq(Nat)
  PROVE  Sums(Cumulated(s), s, Len(s))
<1>1. Len(s) \in Nat /\ s \in [1..Len(s) -> Nat] OBVIOUS
<1>2. PICK n \in Nat : n = Len(s) BY <1>1
<1>3. PICK c : Sums(c, s, n) BY <1>1, <1>2, SumsExist
<1>4. c \in [0..n -> Nat] /\ c[0] = 0 /\ \A i \in 1..n : c[i] = c[i - 1] + s[i] BY <1>3 DEF Sums
<1>5. ASSUME NEW i \in 0..n PROVE FoldLeft(+, 0, SubSeq(s, 1, i)) = c[i]
  <2>1. PICK q \in Seq(Nat) : q = SubSeq(s, 1, i)
    <3>1. i \in 0..Len(s) BY <1>2
    <3>2. QED BY <3>1, FirstPart
  <2>2. Len(q) = i /\ i \in Nat /\ \A j \in 1..i : q[j] = s[j] BY <1>2, <2>1
  <2>3. PICK g : LastFirst(g, q, i) /\ FoldLeft(+, 0, q) = g[1..i] BY <2>2, PlusIsFold
  <2>4. g[1..0] = 0 /\ \A j \in 1..i : g[1..j] = g[1..(j - 1)] + s[j]
    <3>1. g[1..0] = 0 /\ \A j \in 1..i : g[1..j] = g[1..(j - 1)] + q[j]
      <4>1. i \in Nat /\ LastFirst(g, q, i) BY <2>2, <2>3
      <4>2. QED BY ONLY <4>1, FoldOfPrefixes
    <3>2. QED BY <2>2, <3>1
  <2> DEFINE Bad == {j \in 0..i : g[1..j] # c[j]}
  <2>5. Bad = {}
    <3> SUFFICES ASSUME Bad # {} PROVE FALSE OBVIOUS
    <3>1. Bad \in SUBSET Nat OBVIOUS
    <3>2. PICK m \in Bad : \A k \in Bad : m <= k
      <4> HIDE DEF Bad
      <4>1. QED BY <3>1, LeastNatural
    <3>3. m \in 0..i /\ g[1..m] # c[m] BY <3>2
    <3>4. m # 0 BY <1>4, <2>4, <3>3
    <3>5. m - 1 \in 0..i /\ m \in 1..i /\ m \in 1..n /\ ~(m <= m - 1) BY <3>3, <3>4
    <3>6. m - 1 \notin Bad
      <4> HIDE DEF Bad
      <4>1. QED BY <3>2, <3>5
    <3>7. g[1..(m - 1)] = c[m - 1] BY <3>5, <3>6
    <3>8. QED BY <1>4, <2>4, <3>3, <3>5, <3>7
  <2>6. i \in 0..i BY <2>2
  <2>7. g[1..i] = c[i] BY <2>5, <2>6
  <2>8. QED BY <2>1, <2>3, <2>7
<1>6. Cumulated(s) = [i \in 0..n |-> c[i]] BY <1>2, <1>5 DEF Cumulated
<1>7. Cumulated(s) = c BY <1>4, <1>6
<1>8. QED BY <1>2, <1>3, <1>7

(* The forward pass token by token: the memory before each token, and what *)
(* its logits were computed from.                                          *)
Chain(K, R, b, input, n) ==
  /\ K[0] = kv
  /\ \A f \in 1..n : /\ R[f] = AttendTo(K[f - 1], b, f, input[f])
                     /\ K[f] = StoreKv(K[f - 1], b.outLoc[f], R[f])
  /\ Computed(b, input).kv = K[n]
  /\ \A f \in 1..n : Computed(b, input).from[f] = R[f]

LEMMA ComputedChain ==
  ASSUME NEW T, NEW n \in Nat, NEW b, NEW input, DOMAIN input = 1..n, kv \in [Location -> Seq(T)],
         \A mem \in [Location -> Seq(T)] : \A f \in 1..n : AttendTo(mem, b, f, input[f]) \in Seq(T)
  PROVE  \E K \in [0..n -> [Location -> Seq(T)]], R \in [1..n -> Seq(T)] : Chain(K, R, b, input, n)
<1> DEFINE W == [Location -> Seq(T)]
           V == [kv : W, from : Seq(Seq(T))]
           content(acc, f) == AttendTo(acc.kv, b, f, input[f])
           next(acc, f) == [kv |-> StoreKv(acc.kv, b.outLoc[f], content(acc, f)),
                            from |-> Append(acc.from, content(acc, f))]
           st == [p \in (1..n) \X V |-> next(p[2], p[1])]
           base == [kv |-> kv, from |-> <<>>]
           seq == [i \in DOMAIN input |-> i]
           Is(h) == h = [s \in SUBSET DOMAIN seq |->
                           IF s = {} THEN base
                           ELSE [kv |-> StoreKv(h[s \ {Max(s)}].kv, b.outLoc[seq[Max(s)]],
                                                AttendTo(h[s \ {Max(s)}].kv, b, seq[Max(s)], input[seq[Max(s)]])),
                                 from |-> Append(h[s \ {Max(s)}].from,
                                                AttendTo(h[s \ {Max(s)}].kv, b, seq[Max(s)], input[seq[Max(s)]]))]]
           w == CHOOSE h : Is(h)
<1>1. ASSUME NEW acc \in V, NEW f \in 1..n
      PROVE  /\ content(acc, f) \in Seq(T)
             /\ next(acc, f) \in V
  <2>1. acc.kv \in W /\ acc.from \in Seq(Seq(T)) OBVIOUS
  <2>2. content(acc, f) \in Seq(T) BY <2>1
  <2> HIDE DEF content
  <2>3. StoreKv(acc.kv, b.outLoc[f], content(acc, f)) \in W BY <2>1, <2>2 DEF StoreKv
  <2>4. Append(acc.from, content(acc, f)) \in Seq(Seq(T)) BY <2>1, <2>2
  <2>5. QED BY <2>2, <2>3, <2>4
<1>2. st \in [(1..n) \X V -> V]
  <2>1. \A p \in (1..n) \X V : next(p[2], p[1]) \in V
    <3> HIDE DEF next, V
    <3>1. QED BY <1>1
  <2> HIDE DEF next, V
  <2>2. QED BY <2>1
<1>3. base \in V OBVIOUS
<1>4. PICK h \in [SUBSET (1..n) -> V] : Folded(h, st, base, n)
  <2> HIDE DEF st, V, base
  <2>1. QED BY <1>2, <1>3, FoldDefined
<1>5. DOMAIN seq = 1..n /\ \A i \in 1..n : seq[i] = i OBVIOUS
<1>6. ASSUME NEW s \in SUBSET (1..n), s # {}
      PROVE  Max(s) \in 1..n /\ s \ {Max(s)} \in SUBSET (1..n) /\ seq[Max(s)] = Max(s)
  <2>1. s \in SUBSET (0..n) OBVIOUS
  <2>2. Max(s) \in s BY <1>6, <2>1, MaxIsLargest
  <2>3. QED BY <1>5, <2>2
<1>7. h = [s \in SUBSET (1..n) |-> IF s = {} THEN base ELSE next(h[s \ {Max(s)}], Max(s))]
  <2>1. ASSUME NEW s \in SUBSET (1..n), s # {}
        PROVE  st[<<Max(s), h[s \ {Max(s)}]>>] = next(h[s \ {Max(s)}], Max(s))
    <3>1. Max(s) \in 1..n /\ h[s \ {Max(s)}] \in V BY <1>4, <1>6, <2>1
    <3> HIDE DEF next, V
    <3>2. <<Max(s), h[s \ {Max(s)}]>> \in (1..n) \X V BY <3>1
    <3>3. QED BY <3>2
  <2> HIDE DEF st, next, base
  <2>2. [s \in SUBSET (1..n) |-> IF s = {} THEN base ELSE st[<<Max(s), h[s \ {Max(s)}]>>]]
        = [s \in SUBSET (1..n) |-> IF s = {} THEN base ELSE next(h[s \ {Max(s)}], Max(s))]
    BY <2>1
  <2>3. QED BY <1>4, <2>2 DEF Folded
<1>8. Is(h)
  <2>1. \A s \in SUBSET (1..n) : s # {} => seq[Max(s)] = Max(s) BY <1>6
  <2>2. DOMAIN seq = 1..n BY <1>5
  <2> HIDE DEF seq, base
  <2>3. QED BY <1>7, <2>1, <2>2
<1>9. Is(w) BY <1>8, Zenon
<1>10. Computed(b, input) = w[DOMAIN seq]
  BY Zenon DEF Computed, FoldLeftDomain, FoldLeft, MapThenFoldSet
<1> HIDE DEF w
<1>11. w[1..0] = base
  <2>1. 1..0 = {} /\ {} \in SUBSET (1..n) OBVIOUS
  <2> HIDE DEF base, seq
  <2>2. QED BY <1>5, <1>9, <2>1
<1>12. ASSUME NEW k \in 1..n PROVE w[1..k] = next(w[1..(k - 1)], k)
  <2>1. k \in Nat \ {0} /\ 1..k \in SUBSET (1..n) OBVIOUS
  <2>2. 1..k # {} /\ Max(1..k) = k /\ (1..k) \ {k} = 1..(k - 1) BY <2>1, MaxOfPrefix
  <2>3. seq[k] = k /\ DOMAIN seq = 1..n BY <1>5
  <2> HIDE DEF base, seq
  <2>4. QED BY <1>9, <2>1, <2>2, <2>3
<1> DEFINE r(f) == content(w[1..(f - 1)], f)
           Ok(k) == /\ w[1..k] \in V /\ Len(w[1..k].from) = k
                    /\ \A f \in 1..k : w[1..k].from[f] = r(f)
           Bad == {k \in 0..n : ~Ok(k)}
<1>13. Bad = {}
  <2> SUFFICES ASSUME Bad # {} PROVE FALSE OBVIOUS
  <2>1. Bad \in SUBSET Nat OBVIOUS
  <2>2. PICK m \in Bad : \A k \in Bad : m <= k
    <3> HIDE DEF Bad
    <3>1. QED BY <2>1, LeastNatural
  <2> HIDE DEF Ok
  <2>3. m \in 0..n /\ ~Ok(m) BY <2>2
  <2>4. m # 0
    <3>1. Ok(0)
      <4> HIDE DEF V, r
      <4>1. base.from = <<>> OBVIOUS
      <4>2. QED BY <1>3, <1>11, <4>1 DEF Ok
    <3>2. QED BY <2>3, <3>1
  <2>5. m - 1 \in 0..n /\ m \in 1..n /\ m - 1 \in Nat /\ ~(m <= m - 1) BY <2>3, <2>4
  <2>6. m - 1 \notin Bad
    <3> HIDE DEF Bad
    <3>1. QED BY <2>2, <2>5
  <2>7. Ok(m - 1) BY <2>5, <2>6
  <2>8. PICK acc \in V : acc = w[1..(m - 1)] BY <2>7 DEF Ok
  <2>9. Len(acc.from) = m - 1 /\ \A f \in 1..(m - 1) : acc.from[f] = r(f) BY <2>7, <2>8 DEF Ok
  <2>10. PICK x \in Seq(T) : x = content(acc, m) BY <1>1, <2>5
  <2>11. w[1..m] = next(acc, m) BY <1>12, <2>5, <2>8
  <2>12. w[1..m] \in V
    <3> HIDE DEF V, next
    <3>1. QED BY <1>1, <2>5, <2>11
  <2>13. r(m) = x
    <3> HIDE DEF content
    <3>1. QED BY <2>8, <2>10
  <2>14. PICK q \in Seq(Seq(T)) : q = acc.from BY <2>8
  <2>15. w[1..m].from = Append(q, x)
    <3> HIDE DEF content
    <3>1. QED BY <2>10, <2>11, <2>14
  <2>16. Len(q) = m - 1 /\ \A f \in 1..(m - 1) : q[f] = r(f) BY <2>9, <2>14
  <2> HIDE DEF r, V
  <2>17. Len(Append(q, x)) = m /\ \A f \in 1..m : Append(q, x)[f] = IF f = m THEN x ELSE q[f]
    BY <2>5, <2>16
  <2>18. \A f \in 1..m : f # m => f \in 1..(m - 1) BY <2>5
  <2>19. \A f \in 1..m : Append(q, x)[f] = r(f) BY <2>13, <2>16, <2>17, <2>18
  <2>20. QED BY <2>3, <2>12, <2>15, <2>17, <2>19 DEF Ok
<1>14. \A k \in 0..n : Ok(k) BY <1>13
<1> DEFINE K == [k \in 0..n |-> w[1..k].kv]
           R == [f \in 1..n |-> r(f)]
<1>15. K \in [0..n -> W] /\ K[0] = kv
  <2>1. \A k \in 0..n : w[1..k].kv \in W BY <1>14
  <2>2. 0 \in 0..n OBVIOUS
  <2> HIDE DEF W
  <2>3. QED BY <1>11, <2>1, <2>2
<1>16. ASSUME NEW f \in 1..n
       PROVE  /\ R[f] \in Seq(T) /\ R[f] = AttendTo(K[f - 1], b, f, input[f])
              /\ K[f] = StoreKv(K[f - 1], b.outLoc[f], R[f])
  <2>1. f - 1 \in 0..n /\ f \in 0..n OBVIOUS
  <2>2. PICK acc \in V : acc = w[1..(f - 1)] BY <1>14, <2>1
  <2>3. w[1..f] = next(acc, f) BY <1>12, <2>2
  <2>4. r(f) = content(acc, f) BY <2>2
  <2>5. content(acc, f) \in Seq(T)
    <3> HIDE DEF V, content
    <3>1. QED BY <1>1
  <2>6. R[f] = content(acc, f) /\ K[f - 1] = acc.kv BY <2>1, <2>2, <2>4
  <2>7. K[f] = StoreKv(acc.kv, b.outLoc[f], content(acc, f))
    <3>1. K[f] = w[1..f].kv BY <2>1
    <3> HIDE DEF K, content
    <3>2. QED BY <2>3, <3>1
  <2> HIDE DEF K, R, r
  <2>8. QED BY <2>5, <2>6, <2>7
<1>17. Computed(b, input) = w[1..n] BY <1>5, <1>10
<1>18. n \in 0..n OBVIOUS
<1>19. Computed(b, input).kv = K[n] BY <1>17, <1>18
<1>20. \A f \in 1..n : Computed(b, input).from[f] = R[f]
  <2>1. Ok(n) BY <1>14, <1>18
  <2> HIDE DEF r, V
  <2>2. QED BY <1>17, <2>1
<1>21. R \in [1..n -> Seq(T)]
  <2>1. \A f \in 1..n : R[f] \in Seq(T) BY <1>16
  <2>2. R = [f \in 1..n |-> R[f]] OBVIOUS
  <2> HIDE DEF R
  <2>3. QED BY <2>1, <2>2
<1> HIDE DEF K, R
<1>22. Chain(K, R, b, input, n) BY <1>15, <1>16, <1>19, <1>20 DEF Chain
<1>23. QED BY <1>15, <1>21, <1>22

(* A token whose keys and values are all there when its turn comes: each   *)
(* position before its own is that of a token of the batch that comes      *)
(* before it, or was stored before. w[f] are the tokens up to f.           *)
Attends(b, input, n, F, w, f) ==
  LET p == b.positions[f]
      keys == b.keys[b.query[f].req]
  IN /\ p \in Nat /\ b.query[f].pos = p /\ keys[p + 1] = b.outLoc[f]
     /\ Len(w[f]) = p + 1 /\ input[f] = w[f][p + 1]
     /\ b.outLoc[f] \in Location
     /\ \A g \in (1..n) \ {f} : b.outLoc[g] # b.outLoc[f]
     /\ \A q \in 1..p :
          \/ \E g \in F : g < f /\ keys[q] = b.outLoc[g] /\ w[g] = SubSeq(w[f], 1, q)
          \/ /\ keys[q] \in Location /\ \A g \in 1..n : b.outLoc[g] # keys[q]
             /\ kv[keys[q]] = SubSeq(w[f], 1, q)

LEMMA PrefixOfPrefix ==
  ASSUME NEW S, NEW s \in Seq(S), NEW p \in 0..Len(s), NEW q \in 0..p
  PROVE  SubSeq(SubSeq(s, 1, p), 1, q) = SubSeq(s, 1, q)
<1>1. PICK a \in Seq(S) : a = SubSeq(s, 1, p) /\ Len(a) = p BY FirstPart
<1>2. \A i \in 1..p : a[i] = s[i] BY <1>1
<1>3. q \in 0..Len(a) /\ q \in 0..Len(s) BY <1>1
<1>4. PICK x \in Seq(S) : x = SubSeq(a, 1, q) /\ Len(x) = q BY <1>3, FirstPart
<1>5. PICK y \in Seq(S) : y = SubSeq(s, 1, q) /\ Len(y) = q BY <1>3, FirstPart
<1>6. \A i \in 1..q : x[i] = a[i] /\ y[i] = s[i] /\ i \in 1..p BY <1>1, <1>3, <1>4, <1>5
<1>7. x = y BY <1>2, <1>4, <1>5, <1>6, SeqEqual
<1>8. QED BY <1>1, <1>4, <1>5, <1>7

LEMMA LastOfPrefix ==
  ASSUME NEW S, NEW s \in Seq(S), NEW p \in Nat, Len(s) = p + 1
  PROVE  Append(SubSeq(s, 1, p), s[p + 1]) = s
<1>1. PICK a \in Seq(S) : a = SubSeq(s, 1, p) /\ Len(a) = p
  <2>1. p \in 0..Len(s) OBVIOUS
  <2>2. QED BY <2>1, FirstPart
<1>2. \A i \in 1..p : a[i] = s[i] BY <1>1
<1>3. s[p + 1] \in S
  <2>1. p + 1 \in 1..Len(s) OBVIOUS
  <2>2. QED BY <2>1
<1>4. PICK x \in S : x = s[p + 1] BY <1>3
<1>5. /\ Append(a, x) \in Seq(S) /\ Len(Append(a, x)) = p + 1
      /\ \A i \in 1..(p + 1) : Append(a, x)[i] = IF i = p + 1 THEN x ELSE a[i]
  BY <1>1
<1>6. \A i \in 1..(p + 1) : i # p + 1 => i \in 1..p OBVIOUS
<1>7. \A i \in 1..(p + 1) : Append(a, x)[i] = s[i] BY <1>2, <1>4, <1>5, <1>6
<1>8. Append(a, x) = s BY <1>5, <1>7, SeqEqual
<1>9. QED BY <1>1, <1>4, <1>8

Remembers(mem, b, w, f) ==
  \A q \in 1..b.positions[f] : mem[b.keys[b.query[f].req][q]] = SubSeq(w[f], 1, q)

Attending(T, n, b, input, F, w, f, mem) ==
  /\ n \in Nat /\ DOMAIN b.outLoc = 1..n /\ w[f] \in Seq(T)
  /\ Attends(b, input, n, F, w, f) /\ Remembers(mem, b, w, f)

(* With such a memory attention computes from exactly the tokens before.   *)
LEMMA AttendsExactly ==
  ASSUME NEW T, NEW n, NEW b, NEW input, NEW F, NEW w, NEW f, NEW mem,
         Attending(T, n, b, input, F, w, f, mem)
  PROVE  AttendTo(mem, b, f, input[f]) = w[f]
<1> USE DEF Attending
<1> DEFINE keys == b.keys[b.query[f].req]
           before == IF b.query[f].pos = 0 THEN <<>> ELSE mem[keys[b.query[f].pos]]
<1>1. PICK p \in Nat : p = b.positions[f] BY DEF Attends
<1>2. PICK s \in Seq(T) : s = w[f] OBVIOUS
<1>3. /\ b.query[f].pos = p /\ keys[p + 1] = b.outLoc[f] /\ Len(s) = p + 1 /\ input[f] = s[p + 1]
      /\ \A g \in (1..n) \ {f} : b.outLoc[g] # b.outLoc[f]
  BY <1>1, <1>2 DEF Attends
<1>4. \A q \in 1..p : mem[keys[q]] = SubSeq(s, 1, q) BY <1>1, <1>2 DEF Remembers
<1> HIDE DEF keys
<1>5. p \in 0..Len(s) /\ 0 \in 0..Len(s) BY <1>3
<1>6. before = SubSeq(s, 1, p)
  <2>1. CASE p = 0
    <3>1. SubSeq(s, 1, p) \in Seq(T) /\ Len(SubSeq(s, 1, p)) = 0 BY <1>5, <2>1, FirstPart
    <3>2. SubSeq(s, 1, p) = <<>> BY <3>1, EmptySeq
    <3>3. QED BY <1>3, <2>1, <3>2
  <2>2. CASE p # 0
    <3>1. p \in 1..p BY <2>2
    <3>2. QED BY <1>3, <1>4, <2>2, <3>1
  <2>3. QED BY <2>1, <2>2
<1>7. Len(before) = p
  <2> HIDE DEF before
  <2>1. QED BY <1>5, <1>6, FirstPart
<1>8. \A q \in 1..p : mem[keys[q]] = SubSeq(before, 1, q)
  <2> HIDE DEF before
  <2>1. \A q \in 1..p : q \in 0..p OBVIOUS
  <2>2. QED BY <1>4, <1>5, <1>6, <2>1, PrefixOfPrefix
<1>9. Append(before, input[f]) = s
  <2> HIDE DEF before
  <2>1. QED BY <1>3, <1>6, LastOfPrefix
<1>10. AttendTo(mem, b, f, input[f]) = Append(before, input[f])
  <2> USE DEF keys
  <2>1. QED BY <1>1, <1>3, <1>7, <1>8 DEF AttendTo
<1>11. QED BY <1>2, <1>9, <1>10

Attended(T, K, R, b, input, n, F, w) ==
  /\ n \in Nat /\ DOMAIN b.outLoc = 1..n /\ F \in SUBSET (1..n) /\ w \in [F -> Seq(T)]
  /\ \A f \in F : Attends(b, input, n, F, w, f)
  /\ K \in [0..n -> [Location -> Seq(T)]] /\ R \in [1..n -> Seq(T)] /\ Chain(K, R, b, input, n)

LEMMA ChainExact ==
  ASSUME NEW T, NEW n, NEW b, NEW input, NEW F, NEW w, NEW K, NEW R,
         Attended(T, K, R, b, input, n, F, w)
  PROVE  /\ \A f \in F : R[f] = w[f] /\ K[n][b.outLoc[f]] = w[f]
         /\ \A l \in Location : (\A g \in 1..n : b.outLoc[g] # l) => K[n][l] = kv[l]
<1>5. /\ n \in Nat /\ DOMAIN b.outLoc = 1..n /\ F \in SUBSET (1..n) /\ w \in [F -> Seq(T)]
      /\ \A f \in F : Attends(b, input, n, F, w, f)
      /\ K \in [0..n -> [Location -> Seq(T)]] /\ R \in [1..n -> Seq(T)] /\ Chain(K, R, b, input, n)
  BY DEF Attended
<1> USE <1>5
<1> DEFINE Ok(k) == /\ \A f \in F : f <= k => R[f] = w[f] /\ K[k][b.outLoc[f]] = w[f]
                    /\ \A l \in Location : (\A g \in 1..n : b.outLoc[g] # l) => K[k][l] = kv[l]
           Bad == {k \in 0..n : ~Ok(k)}
<1>1. Bad = {}
  <2> SUFFICES ASSUME Bad # {} PROVE FALSE OBVIOUS
  <2>1. Bad \in SUBSET Nat OBVIOUS
  <2>2. PICK m \in Bad : \A k \in Bad : m <= k
    <3> HIDE DEF Bad
    <3>1. QED BY <2>1, LeastNatural
  <2> HIDE DEF Ok
  <2>3. m \in 0..n /\ ~Ok(m) BY <2>2
  <2>4. m # 0
    <3>1. K[0] = kv BY DEF Chain
    <3>2. \A f \in F : ~(f <= 0)
      <4>1. \A f \in 1..n : ~(f <= 0) OBVIOUS
      <4>2. QED BY <4>1
    <3>3. Ok(0) BY <3>1, <3>2 DEF Ok
    <3>4. QED BY <2>3, <3>3
  <2>5. m - 1 \in 0..n /\ m \in 1..n /\ m - 1 \in Nat /\ ~(m <= m - 1) BY <2>3, <2>4
  <2>6. m - 1 \notin Bad
    <3> HIDE DEF Bad
    <3>1. QED BY <2>2, <2>5
  <2>7. Ok(m - 1) BY <2>5, <2>6
  <2>8. PICK mem \in [Location -> Seq(T)] : mem = K[m - 1] BY <2>5
  <2>9. /\ R[m] = AttendTo(mem, b, m, input[m]) /\ K[m] = StoreKv(mem, b.outLoc[m], R[m])
    BY <2>5, <2>8 DEF Chain
  <2>10. \A l \in Location : K[m][l] = IF l = b.outLoc[m] THEN R[m] ELSE mem[l]
    BY <2>8, <2>9 DEF StoreKv
  <2>11. ASSUME m \in F PROVE R[m] = w[m]
    <3>1. Attends(b, input, n, F, w, m) BY <2>11
    <3>2. ASSUME NEW q \in 1..b.positions[m] PROVE mem[b.keys[b.query[m].req][q]] = SubSeq(w[m], 1, q)
      <4> DEFINE l == b.keys[b.query[m].req][q]
      <4>1. \/ \E g \in F : g < m /\ l = b.outLoc[g] /\ w[g] = SubSeq(w[m], 1, q)
            \/ /\ l \in Location /\ \A g \in 1..n : b.outLoc[g] # l
               /\ kv[l] = SubSeq(w[m], 1, q)
        BY <3>1 DEF Attends
      <4> HIDE DEF l
      <4>2. CASE \E g \in F : g < m /\ l = b.outLoc[g] /\ w[g] = SubSeq(w[m], 1, q)
        <5>1. PICK g \in F : g < m /\ l = b.outLoc[g] /\ w[g] = SubSeq(w[m], 1, q) BY <4>2
        <5>2. g <= m - 1 BY <2>5, <5>1
        <5>3. QED BY <2>7, <2>8, <5>1, <5>2 DEF Ok, l
      <4>3. CASE /\ l \in Location /\ \A g \in 1..n : b.outLoc[g] # l
                 /\ kv[l] = SubSeq(w[m], 1, q)
        BY <2>7, <2>8, <4>3 DEF Ok, l
      <4>4. QED BY <4>1, <4>2, <4>3
    <3>3. AttendTo(mem, b, m, input[m]) = w[m]
      <4>1. Remembers(mem, b, w, m) BY <3>2 DEF Remembers
      <4>2. w[m] \in Seq(T) BY <2>11
      <4>3. n \in Nat /\ DOMAIN b.outLoc = 1..n OBVIOUS
      <4>4. PICK k : k = m OBVIOUS
      <4>5. Attending(T, n, b, input, F, w, k, mem)
        BY <3>1, <4>1, <4>2, <4>3, <4>4 DEF Attending
      <4>6. AttendTo(mem, b, k, input[k]) = w[k] BY ONLY <4>5, AttendsExactly
      <4>7. QED BY ONLY <4>4, <4>6
    <3>4. QED BY <2>9, <3>3
  <2>12. ASSUME NEW f \in F, f <= m PROVE R[f] = w[f] /\ K[m][b.outLoc[f]] = w[f]
    <3>1. b.outLoc[f] \in Location /\ \A g \in (1..n) \ {f} : b.outLoc[g] # b.outLoc[f]
      BY DEF Attends
    <3>2. CASE f = m BY <2>10, <2>11, <3>1, <3>2
    <3>3. CASE f # m
      <4>1. f <= m - 1 /\ b.outLoc[m] # b.outLoc[f]
        <5>1. f \in 1..n /\ m \in (1..n) \ {f} BY <2>5, <3>3
        <5>2. f <= m - 1 BY <2>5, <2>12, <3>3, <5>1
        <5>3. QED BY <3>1, <5>1, <5>2
      <4>2. R[f] = w[f] /\ mem[b.outLoc[f]] = w[f] BY <2>7, <2>8, <4>1 DEF Ok
      <4>3. QED BY <2>10, <3>1, <4>1, <4>2
    <3>4. QED BY <3>2, <3>3
  <2>13. ASSUME NEW l \in Location, \A g \in 1..n : b.outLoc[g] # l PROVE K[m][l] = kv[l]
    <3>1. mem[l] = kv[l] BY <2>7, <2>8, <2>13 DEF Ok
    <3>2. b.outLoc[m] # l BY <2>5, <2>13
    <3>3. QED BY <2>10, <3>1, <3>2
  <2>14. QED BY <2>3, <2>12, <2>13 DEF Ok
<1>2. n \in 0..n /\ \A f \in F : f <= n OBVIOUS
<1>3. Ok(n)
  <2> HIDE DEF Ok
  <2>1. QED BY <1>1, <1>2
<1>4. QED BY <1>2, <1>3

----------------------------------------------------------------------------
(* The batch as the device sees it: m requests, and padding up to n. Each  *)
(* request has new tokens, in a decode one.                                *)
Padded(rs, m, n) ==
  /\ n \in Nat /\ m \in 0..n
  /\ DOMAIN rs = 1..n /\ Len(rs) = n
  /\ \A i \in 1..n : rs[i].cached \in Nat /\ rs[i].device \in Nat /\ rs[i].cached < rs[i].device
  /\ \A i \in 1..m : rs[i].slot \in Slot
  /\ \A i \in (m + 1)..n : rs[i] = DummyReq
  /\ batch.phase = "decode" => \A i \in 1..n : rs[i].device = rs[i].cached + 1
  /\ batch.phase # "decode" => m = n

(* The rows of the batch cover what is to be computed.                     *)
Entries(rs, n) ==
  \A i \in 1..n : \A p \in 0..(rs[i].device - 1) : TableEntry(pageTable', rs[i].slot, p) \in Location

LEMMA LengthsOfBatch ==
  ASSUME NEW rs, NEW m, NEW n, Padded(rs, m, n)
  PROVE  /\ SeqlensQ(rs) \in Seq(Nat) /\ Len(SeqlensQ(rs)) = n /\ SeqlensQ(rs) \in [1..n -> Nat]
         /\ SeqlensK(rs) \in Seq(Nat) /\ Len(SeqlensK(rs)) = n /\ SeqlensK(rs) \in [1..n -> Nat]
         /\ \A i \in 1..n : /\ SeqlensQ(rs)[i] = rs[i].device - rs[i].cached
                            /\ SeqlensQ(rs)[i] \in Nat \ {0} /\ SeqlensK(rs)[i] = rs[i].device
                            /\ ExtendLen(rs[i]) = rs[i].device - rs[i].cached
<1>1. n \in Nat /\ DOMAIN rs = 1..n BY DEF Padded
<1>2. \A i \in 1..n : ExtendLen(rs[i]) \in Nat \ {0} /\ ExtendLen(rs[i]) = rs[i].device - rs[i].cached
  BY DEF Padded, ExtendLen
<1>3. SeqlensQ(rs) = [i \in 1..n |-> ExtendLen(rs[i])] BY <1>1 DEF SeqlensQ
<1>4. SeqlensK(rs) = [i \in 1..n |-> rs[i].device] BY <1>1 DEF SeqlensK
<1>5. \A i \in 1..n : rs[i].device \in Nat BY DEF Padded
<1>6. SeqlensQ(rs) \in [1..n -> Nat] /\ SeqlensK(rs) \in [1..n -> Nat] BY <1>2, <1>3, <1>4, <1>5
<1>7. QED BY <1>1, <1>2, <1>3, <1>4, <1>6

PositionsAre(rs, n, c) ==
  /\ Positions(rs) \in Seq(Nat) /\ Len(Positions(rs)) = c[n]
  /\ \A i \in 1..n : \A j \in 1..(rs[i].device - rs[i].cached) :
       Positions(rs)[c[i - 1] + j] = rs[i].cached + j - 1

LEMMA PositionsAt ==
  ASSUME NEW rs, NEW m, NEW n, Padded(rs, m, n), NEW c, Sums(c, SeqlensQ(rs), n)
  PROVE  PositionsAre(rs, n, c)
<1> DEFINE parts == [i \in DOMAIN rs |-> [k \in 1..ExtendLen(rs[i]) |-> rs[i].cached + k - 1]]
           e == SeqlensQ(rs)
<1>1. /\ n \in Nat /\ DOMAIN rs = 1..n /\ e \in [1..n -> Nat]
      /\ \A i \in 1..n : /\ rs[i].cached \in Nat /\ ExtendLen(rs[i]) = rs[i].device - rs[i].cached
                         /\ e[i] = rs[i].device - rs[i].cached
  BY LengthsOfBatch DEF Padded
<1>2. Positions(rs) = FlattenSeq(parts) BY DEF Positions, Flat
<1>3. ASSUME NEW i \in 1..n
      PROVE  /\ parts[i] \in Seq(Nat) /\ Len(parts[i]) = e[i]
             /\ \A j \in 1..e[i] : parts[i][j] = rs[i].cached + j - 1
  <2>1. PICK k \in Nat : k = e[i] BY <1>1
  <2>2. PICK a \in Nat : a = rs[i].cached BY <1>1
  <2>3. parts[i] = [j \in 1..k |-> a + j - 1] BY <1>1, <2>1, <2>2
  <2>4. \A j \in 1..k : a + j - 1 \in Nat OBVIOUS
  <2> HIDE DEF parts, e
  <2>5. parts[i] \in Seq(Nat) /\ Len(parts[i]) = k BY <2>3, <2>4
  <2>6. \A j \in 1..k : parts[i][j] = a + j - 1 BY <2>3
  <2>7. QED BY <2>1, <2>2, <2>5, <2>6
<1>4. parts \in [1..n -> Seq(Nat)] BY <1>1, <1>3
<1> HIDE DEF parts, e
<1>5. Layout(FlattenSeq(parts), parts, c, e, n, Nat) BY <1>1, <1>3, <1>4, FlattenLayout DEF e
<1>6. QED BY <1>1, <1>2, <1>3, <1>5 DEF Layout, PositionsAre

LEMMA RowsAt ==
  ASSUME NEW rs, NEW m, NEW n, Padded(rs, m, n), NEW c, Sums(c, SeqlensQ(rs), n)
  PROVE  /\ Len(InputRows(rs)) = c[n] /\ DOMAIN InputRows(rs) = 1..c[n]
         /\ \A i \in 1..n : \A j \in 1..(rs[i].device - rs[i].cached) :
              InputRows(rs)[c[i - 1] + j] = rs[i].slot
<1> DEFINE parts == [i \in DOMAIN rs |-> [k \in 1..ExtendLen(rs[i]) |-> rs[i].slot]]
           e == SeqlensQ(rs)
           S == {rs[i].slot : i \in 1..n}
<1>1. /\ n \in Nat /\ DOMAIN rs = 1..n /\ e \in [1..n -> Nat]
      /\ \A i \in 1..n : /\ ExtendLen(rs[i]) = rs[i].device - rs[i].cached
                         /\ e[i] = rs[i].device - rs[i].cached
  BY LengthsOfBatch DEF Padded
<1>2. InputRows(rs) = FlattenSeq(parts) BY DEF InputRows, Flat
<1>3. ASSUME NEW i \in 1..n
      PROVE  /\ parts[i] \in Seq(S) /\ Len(parts[i]) = e[i]
             /\ \A j \in 1..e[i] : parts[i][j] = rs[i].slot
  <2>1. PICK k \in Nat : k = e[i] BY <1>1
  <2>2. PICK a \in S : a = rs[i].slot OBVIOUS
  <2>3. parts[i] = [j \in 1..k |-> a] BY <1>1, <2>1, <2>2
  <2> HIDE DEF parts, S
  <2>4. QED BY <2>1, <2>2, <2>3
<1>4. parts \in [1..n -> Seq(S)] BY <1>1, <1>3
<1> HIDE DEF parts, e, S
<1>5. Layout(FlattenSeq(parts), parts, c, e, n, S) BY <1>1, <1>3, <1>4, FlattenLayout DEF e
<1>6. InputRows(rs) \in Seq(S) /\ Len(InputRows(rs)) = c[n] BY <1>2, <1>5 DEF Layout
<1>7. DOMAIN InputRows(rs) = 1..c[n] BY <1>6, LenProperties
<1>8. QED BY <1>1, <1>2, <1>3, <1>5, <1>6, <1>7 DEF Layout

OutLoc(rs) == Flat(rs, LAMBDA r, p : TableEntry(pageTable', r.slot, p))

LEMMA OutLocAt ==
  ASSUME NEW rs, NEW m, NEW n, Padded(rs, m, n), Entries(rs, n), NEW c, Sums(c, SeqlensQ(rs), n)
  PROVE  /\ OutLoc(rs) \in Seq(Location) /\ Len(OutLoc(rs)) = c[n] /\ DOMAIN OutLoc(rs) = 1..c[n]
         /\ \A i \in 1..n : \A j \in 1..(rs[i].device - rs[i].cached) :
              OutLoc(rs)[c[i - 1] + j] = TableEntry(pageTable', rs[i].slot, rs[i].cached + j - 1)
<1> DEFINE parts == [i \in DOMAIN rs |-> [k \in 1..ExtendLen(rs[i]) |->
                       TableEntry(pageTable', rs[i].slot, rs[i].cached + k - 1)]]
           e == SeqlensQ(rs)
<1>1. /\ n \in Nat /\ DOMAIN rs = 1..n /\ e \in [1..n -> Nat]
      /\ \A i \in 1..n : /\ ExtendLen(rs[i]) = rs[i].device - rs[i].cached
                         /\ e[i] = rs[i].device - rs[i].cached
                         /\ rs[i].cached \in Nat /\ rs[i].device \in Nat
  BY LengthsOfBatch DEF Padded
<1>2. OutLoc(rs) = FlattenSeq(parts) BY DEF OutLoc, Flat
<1>3. ASSUME NEW i \in 1..n
      PROVE  /\ parts[i] \in Seq(Location) /\ Len(parts[i]) = e[i]
             /\ \A j \in 1..e[i] : parts[i][j] = TableEntry(pageTable', rs[i].slot, rs[i].cached + j - 1)
  <2> DEFINE v(j) == TableEntry(pageTable', rs[i].slot, rs[i].cached + j - 1)
  <2>1. PICK k \in Nat : k = e[i] BY <1>1
  <2>2. parts[i] = [j \in 1..k |-> v(j)] BY <1>1, <2>1
  <2>3. \A j \in 1..k : v(j) \in Location
    <3>1. \A j \in 1..k : rs[i].cached + j - 1 \in 0..(rs[i].device - 1) BY <1>1, <2>1
    <3>2. QED BY <3>1 DEF Entries
  <2> HIDE DEF parts, v
  <2>4. /\ parts[i] \in Seq(Location) /\ Len(parts[i]) = k /\ \A j \in 1..k : parts[i][j] = v(j)
    BY <2>2, <2>3
  <2>5. QED BY <2>1, <2>4 DEF v
<1>4. parts \in [1..n -> Seq(Location)] BY <1>1, <1>3
<1> HIDE DEF parts, e
<1>5. Layout(FlattenSeq(parts), parts, c, e, n, Location) BY <1>1, <1>3, <1>4, FlattenLayout DEF e
<1>6. OutLoc(rs) \in Seq(Location) /\ Len(OutLoc(rs)) = c[n] BY <1>2, <1>5 DEF Layout
<1>7. DOMAIN OutLoc(rs) = 1..c[n] BY <1>6, LenProperties
<1>8. \A i \in 1..n : \A j \in 1..e[i] : OutLoc(rs)[c[i - 1] + j] = parts[i][j]
  BY <1>2, <1>5 DEF Layout
<1>9. QED BY <1>1, <1>3, <1>6, <1>7, <1>8

----------------------------------------------------------------------------
(* A position is in a page of its row, and at a place in that page.        *)
PageIn(p) == p \div PageSize + 1
PlaceIn(p) == p % PageSize

LEMMA PositionParts ==
  ASSUME NEW p \in Nat
  PROVE  /\ PageIn(p) \in Nat \ {0} /\ PlaceIn(p) \in 0..(PageSize - 1)
         /\ p = (PageIn(p) - 1) * PageSize + PlaceIn(p)
<1>1. PageSize \in Nat \ {0} BY PageSizeAssumption
<1>2. PICK s \in Nat \ {0} : s = PageSize BY <1>1
<1>3. s > 0 /\ p \div s \in Nat OBVIOUS
<1>4. p % s \in 0..(s - 1) BY <1>3
<1>5. p % s = p - (p \div s) * s BY <1>3
<1>6. PICK a \in Nat : a = p \div s BY <1>3
<1>7. a * s \in Nat BY SMT
<1>8. PICK m \in Nat : m = a * s BY <1>7
<1>9. PICK o \in 0..(s - 1) : o = p % s BY <1>4
<1>10. o = p - m BY <1>5, <1>6, <1>8, <1>9
<1>11. p = m + o /\ (a + 1) - 1 = a BY <1>10
<1>12. QED BY <1>2, <1>6, <1>8, <1>9, <1>11 DEF PageIn, PlaceIn

LEMMA PlaceUnique ==
  ASSUME NEW a \in Nat, NEW b \in Nat, NEW i \in 0..(PageSize - 1), NEW j \in 0..(PageSize - 1),
         a * PageSize + i = b * PageSize + j
  PROVE  a = b /\ i = j
<1>1. PICK s \in Nat \ {0} : s = PageSize BY PageSizeAssumption
<1>2. i \in 0..(s - 1) /\ j \in 0..(s - 1) /\ a * s + i = b * s + j BY <1>1
<1>3. ASSUME NEW x \in Nat, NEW y \in Nat, x < y, NEW k \in 0..(s - 1), NEW l \in 0..(s - 1)
      PROVE  x * s + k # y * s + l
  <2>1. PICK d \in Nat : y = x + 1 + d
    <3>1. y - x - 1 \in Nat /\ y = x + 1 + (y - x - 1) BY <1>3
    <3>2. QED BY <3>1
  <2>2. y * s = x * s + s + d * s
    <3>1. (x + 1 + d) * s = x * s + s + d * s BY SMT
    <3>2. QED BY <2>1, <3>1
  <2>3. d * s \in Nat /\ x * s \in Nat BY SMT
  <2>4. QED BY ONLY <2>2, <2>3, <1>1, s \in Nat \ {0}, k \in 0..(s - 1), l \in 0..(s - 1), y * s \in Nat
<1>4. a = b
  <2>1. ~(a < b) BY <1>2, <1>3
  <2>2. ~(b < a) BY <1>2, <1>3
  <2>3. QED BY <2>1, <2>2
<1>5. a * s \in Nat BY SMT
<1>6. QED BY ONLY <1>2, <1>4, <1>5, <1>1, i \in 0..(s - 1), j \in 0..(s - 1)

LEMMA PageOrder ==
  ASSUME NEW p \in Nat, NEW k \in Nat
  PROVE  /\ p < k * PageSize <=> PageIn(p) <= k
         /\ p < k => PageIn(p) <= PagesFor(k)
<1>1. PICK s \in Nat \ {0} : s = PageSize BY PageSizeAssumption
<1>2. PICK i \in Nat : i = PageIn(p) - 1 BY PositionParts
<1>3. PICK o \in 0..(s - 1) : o = PlaceIn(p) BY <1>1, PositionParts
<1>4. p = i * s + o BY <1>1, <1>2, <1>3, PositionParts
<1>5. PageIn(p) = i + 1 BY <1>2, PositionParts
<1>6. ASSUME NEW m \in Nat PROVE p < m * s <=> i + 1 <= m
  <2>1. ASSUME i + 1 <= m PROVE p < m * s
    <3>1. PICK d \in Nat : m = i + 1 + d
      <4>1. m - i - 1 \in Nat /\ m = i + 1 + (m - i - 1) BY <2>1
      <4>2. QED BY <4>1
    <3>2. (i + 1 + d) * s = i * s + s + d * s /\ d * s \in Nat /\ i * s \in Nat BY SMT
    <3>3. QED BY <1>4, <3>1, <3>2
  <2>2. ASSUME ~(i + 1 <= m) PROVE ~(p < m * s)
    <3>1. PICK d \in Nat : i = m + d
      <4>1. i - m \in Nat /\ i = m + (i - m) BY <2>2
      <4>2. QED BY <4>1
    <3>2. (m + d) * s = m * s + d * s /\ d * s \in Nat /\ m * s \in Nat BY SMT
    <3>3. QED BY <1>4, <3>1, <3>2
  <2>3. QED BY <2>1, <2>2
<1>7. p < k => PageIn(p) <= PagesFor(k)
  <2>1. PagesFor(k) \in Nat /\ k <= PagesFor(k) * s BY <1>1, PagesForTokens
  <2>2. PICK m \in Nat : m = PagesFor(k) BY <2>1
  <2>3. m * s \in Nat BY SMT
  <2>4. p < k => p < m * s BY <2>1, <2>2, <2>3
  <2>5. QED BY <1>5, <1>6, <2>2, <2>4
<1>8. QED BY <1>1, <1>5, <1>6, <1>7

(* Where a row puts a position that it covers.                             *)
LEMMA EntryOf ==
  ASSUME NEW table, NEW r, RowOK(table, r), table[r.slot] \in Seq(Page), NEW p \in 0..(r.cached - 1)
  PROVE  /\ PageIn(p) \in 1..PagesFor(r.cached) /\ PageIn(p) \in 1..Len(table[r.slot])
         /\ table[r.slot][PageIn(p)] \in Page
         /\ TableEntry(table, r.slot, p) = table[r.slot][PageIn(p)] * PageSize + PlaceIn(p)
         /\ TableEntry(table, r.slot, p) \in 0..(NumPages * PageSize - 1)
         /\ TableEntry(table, r.slot, p) \in Location
<1>1. /\ r.cached \in Nat /\ PagesFor(r.cached) <= Len(table[r.slot]) /\ r.slot \in Slot
      /\ PagesFor(r.cached) \in Nat /\ Len(table[r.slot]) \in Nat
  <2>1. /\ r.cached \in Nat /\ PagesFor(r.cached) <= Len(table[r.slot]) /\ r.slot \in Slot
    BY DEF RowOK
  <2>2. PagesFor(r.cached) \in Nat BY <2>1, PagesForTokens
  <2>3. QED BY <2>1, <2>2
<1>2. p \in Nat /\ p < r.cached BY <1>1
<1>3. PageIn(p) \in Nat \ {0} /\ PageIn(p) <= PagesFor(r.cached) BY <1>1, <1>2, PositionParts, PageOrder
<1>4. PageIn(p) \in 1..PagesFor(r.cached) /\ PageIn(p) \in 1..Len(table[r.slot]) BY <1>1, <1>3
<1>5. table[r.slot][PageIn(p)] \in Page BY <1>4
<1>6. p \div PageSize \in Nat /\ ~(p \div PageSize >= Len(table[r.slot]))
  <2>1. PageSize \in Nat \ {0} BY PageSizeAssumption
  <2>2. p \div PageSize \in Int BY <1>2, <2>1
  <2>3. QED BY <1>1, <1>4, <2>2 DEF PageIn
<1>7. r.slot # NumSlots BY <1>1, NumSlotsAssumption DEF Slot
<1>8. TableEntry(table, r.slot, p) = table[r.slot][PageIn(p)] * PageSize + PlaceIn(p)
  BY <1>6, <1>7 DEF TableEntry, PageIn, PlaceIn
<1>9. PICK g \in Nat : g = table[r.slot][PageIn(p)] /\ g <= NumPages - 1 BY <1>5, NumPagesAssumption DEF Page
<1>10. PICK s \in Nat \ {0} : s = PageSize BY PageSizeAssumption
<1>11. PICK o \in 0..(s - 1) : o = PlaceIn(p) BY <1>2, <1>10, PositionParts
<1>12. /\ g * s + o \in 0..(NumPages * s - 1) /\ g * s + o \in 0..((NumPages + 1) * s - 1)
  <2>1. PICK d \in Nat : NumPages = g + 1 + d
    <3>1. NumPages - g - 1 \in Nat /\ NumPages = g + 1 + (NumPages - g - 1) BY <1>9, NumPagesAssumption
    <3>2. QED BY <3>1
  <2>2. /\ (g + 1 + d) * s = g * s + s + d * s /\ d * s \in Nat /\ g * s \in Nat
        /\ (g + 1 + d + 1) * s = g * s + s + d * s + s
    BY SMT
  <2>3. QED BY <2>1, <2>2
<1>13. QED BY <1>4, <1>5, <1>8, <1>9, <1>10, <1>11, <1>12 DEF Location

(* A row that begins with the pages of the prefix that its request holds.  *)
Aliased(table, page, r) ==
  \A i \in 1..Len(r.handle) : table[r.slot][i] = page[SubSeq(r.handle, 1, i)]
AliasOK == \A u \in holds : Aliased(pageTable, tree.page, reqs[u])

HeldIn(page, r) == \A i \in 1..Len(r.handle) : SubSeq(r.handle, 1, i) \in DOMAIN page

(* What follows in a row is in no other row and not in the cache.          *)
Apart(table, page, H, req) ==
  /\ \A k \in DOMAIN page : page[k] \in Page
  /\ \A u \in H : /\ RowOK(table, req[u]) /\ table[req[u].slot] \in Seq(Page)
                  /\ Len(req[u].handle) \in Nat
                  /\ Len(req[u].handle) * PageSize <= req[u].cached
                  /\ Aliased(table, page, req[u]) /\ HeldIn(page, req[u])
                  /\ \A g \in Owned(table, req[u]) : \A k \in DOMAIN page : page[k] # g
  /\ \A u, v \in H : u # v => Owned(table, req[u]) \cap Owned(table, req[v]) = {}

ApartNow == Apart(pageTable, tree.page, holds, reqs)

HandlesIn == \A u \in holds : HeldIn(tree.page, reqs[u])

(* What a request has locked is cached.                                    *)
LEMMA HandlesHeld == PagesInv => HandlesIn
<1> SUFFICES ASSUME PagesInv PROVE HandlesIn OBVIOUS
<1>1. PagesRows /\ holds \subseteq Uids BY DEF PagesInv, PagesRows
<1>2. OwnedOK BY <1>1, OwnedOfRow
<1>3. ASSUME NEW u \in holds PROVE HeldIn(tree.page, reqs[u])
  <2>1. reqs[u] \in Request BY <1>1 DEF PagesRows
  <2>2. HeldNow[u] = reqs[u].handle /\ reqs[u] # None /\ u \in Uids /\ reqs[u].handle \in Seq(Block)
    BY <1>1, <1>2, <2>1, NoneAssumption DEF OwnedOK, Request
  <2>3. reqs[u].handle # None BY <2>2, NoneAssumption
  <2>4. KeysOf(reqs[u].handle) \subseteq DOMAIN tree.page
    <3>1. Store!HeldCached BY DEF PagesInv, Store!StoreInv
    <3>2. u \in Store!Active BY <2>2, <2>3 DEF Store!Active, HeldNow
    <3>3. Store!Above(reqs[u].handle) \subseteq DOMAIN tree.page
      BY <3>1, <3>2, <2>2 DEF Store!HeldCached, Store!Keys, HeldNow
    <3>4. Store!Above(reqs[u].handle) = KeysOf(reqs[u].handle) BY DEF Store!Above, KeysOf, Prefixes, Store!Prefixes
    <3>5. QED BY <3>3, <3>4
  <2>5. KeysOf(reqs[u].handle) = {SubSeq(reqs[u].handle, 1, i) : i \in 1..Len(reqs[u].handle)}
    BY <2>2, KeysOfKey
  <2>6. QED BY <2>4, <2>5 DEF HeldIn
<1>4. QED BY <1>3 DEF HandlesIn

LEMMA HandlesHeldNext == PagesInv' => \A u \in holds' : HeldIn(tree'.page, reqs'[u])
<1>1. PagesInv' => HandlesIn' BY HandlesHeld, PTL
<1>2. QED BY <1>1 DEF HandlesIn

LEMMA RowsAreApart == PagesInv /\ AliasOK => ApartNow
<1> SUFFICES ASSUME PagesInv, AliasOK PROVE Apart(pageTable, tree.page, holds, reqs) BY DEF ApartNow
<1>1. PagesRows /\ holds \subseteq Uids BY DEF PagesInv, PagesRows
<1>2. OwnedOK BY <1>1, OwnedOfRow
<1>3. /\ \A u \in Uids : \A p \in OwnedNow[u] : \A k \in DOMAIN tree.page : tree.page[k] # p
      /\ \A u, v \in Uids : u # v => OwnedNow[u] \cap OwnedNow[v] = {}
  BY DEF PagesInv, Store!StoreInv, Store!OnePlace, Store!Keys, OwnedNow
<1>4. \A u \in holds : OwnedNow[u] = Owned(pageTable, reqs[u]) BY <1>2 DEF OwnedOK
<1>5. \A u \in holds : HeldIn(tree.page, reqs[u]) BY HandlesHeld DEF HandlesIn
<1>6. ASSUME NEW u \in holds
      PROVE  /\ RowOK(pageTable, reqs[u]) /\ pageTable[reqs[u].slot] \in Seq(Page)
             /\ Len(reqs[u].handle) \in Nat
             /\ Len(reqs[u].handle) * PageSize <= reqs[u].cached
  <2>1. reqs[u] \in Request /\ RowOK(pageTable, reqs[u]) /\ KeyOK(u, reqs[u])
    BY <1>1 DEF PagesRows
  <2>2. reqs[u].slot \in Slot /\ reqs[u].handle \in Seq(Block) BY <2>1 DEF Request
  <2>3. Len(reqs[u].handle) \in Nat BY <2>2
  <2>4. pageTable \in [Slot -> Seq(Page)] BY <1>1 DEF PagesRows
  <2>5. QED BY <2>1, <2>2, <2>3, <2>4 DEF KeyOK
<1>7. \A u \in holds : Aliased(pageTable, tree.page, reqs[u]) BY DEF AliasOK
<1>8. \A k \in DOMAIN tree.page : tree.page[k] \in Page BY <1>1 DEF PagesRows, Covered
<1>9. QED BY <1>1, <1>3, <1>4, <1>5, <1>6, <1>7, <1>8 DEF Apart

LEMMA RowsAreApartNext ==
  PagesInv' /\ AliasOK' => Apart(pageTable', tree'.page, holds', reqs')
<1>1. PagesInv' /\ AliasOK' => ApartNow' BY RowsAreApart, PTL
<1>2. QED BY <1>1 DEF ApartNow

(* What a request has to itself is in no other row, not in the cache, and  *)
(* not in another place of its own row.                                    *)
LEMMA PlacesDiffer ==
  ASSUME NEW table, NEW page, NEW H, NEW req, Apart(table, page, H, req),
         NEW u \in H, NEW p \in (Len(req[u].handle) * PageSize)..(req[u].cached - 1)
  PROVE  /\ \A v \in H : \A q \in 0..(req[v].cached - 1) :
              TableEntry(table, req[u].slot, p) = TableEntry(table, req[v].slot, q) => u = v /\ p = q
         /\ \A k \in DOMAIN page : \A i \in 0..(PageSize - 1) :
              TableEntry(table, req[u].slot, p) # page[k] * PageSize + i
         /\ p \in 0..(req[u].cached - 1)
<1> DEFINE r == req[u]
           g == table[r.slot][PageIn(p)]
<1>1. /\ RowOK(table, r) /\ table[r.slot] \in Seq(Page) /\ Len(r.handle) \in Nat
      /\ \A x \in Owned(table, r) : \A k \in DOMAIN page : page[k] # x
      /\ Len(r.handle) * PageSize \in Nat /\ r.cached \in Nat
  <2>1. /\ RowOK(table, r) /\ table[r.slot] \in Seq(Page) /\ Len(r.handle) \in Nat
        /\ \A x \in Owned(table, r) : \A k \in DOMAIN page : page[k] # x
    BY DEF Apart
  <2>2. Len(r.handle) * PageSize \in Nat BY <2>1, PageSizeAssumption
  <2>3. QED BY <2>1, <2>2 DEF RowOK
<1>2. p \in 0..(r.cached - 1) /\ p \in Nat BY <1>1
<1>3. /\ PageIn(p) \in 1..PagesFor(r.cached) /\ g \in Page
      /\ TableEntry(table, r.slot, p) = g * PageSize + PlaceIn(p)
  BY <1>1, <1>2, EntryOf
<1>4. PagesFor(r.cached) \in Nat BY <1>1, PagesForTokens
<1>5. PageIn(p) \in Own(r)
  <2>1. ~(p < Len(r.handle) * PageSize) BY <1>1
  <2>2. ~(PageIn(p) <= Len(r.handle)) BY <1>1, <1>2, <2>1, PageOrder
  <2>3. QED BY <1>1, <1>3, <1>4, <2>2 DEF Own
<1>6. g \in Owned(table, r) BY <1>5 DEF Owned, PagesAt
<1>7. PlaceIn(p) \in 0..(PageSize - 1) BY <1>2, PositionParts
<1>8. g \in Nat BY <1>3 DEF Page
<1> HIDE DEF g
<1>9. ASSUME NEW k \in DOMAIN page, NEW i \in 0..(PageSize - 1),
             TableEntry(table, r.slot, p) = page[k] * PageSize + i
      PROVE  FALSE
  <2>1. page[k] \in Page /\ page[k] \in Nat BY DEF Apart, Page
  <2>2. page[k] = g BY <1>3, <1>7, <1>8, <1>9, <2>1, PlaceUnique
  <2>3. QED BY <1>1, <1>6, <2>2
<1>10. ASSUME NEW v \in H, NEW q \in 0..(req[v].cached - 1),
              TableEntry(table, r.slot, p) = TableEntry(table, req[v].slot, q)
       PROVE  u = v /\ p = q
  <2> DEFINE s == req[v]
             x == table[s.slot][PageIn(q)]
  <2>1. /\ RowOK(table, s) /\ table[s.slot] \in Seq(Page) /\ Len(s.handle) \in Nat
        /\ Aliased(table, page, s) /\ HeldIn(page, s) /\ s.cached \in Nat
    BY DEF Apart, RowOK
  <2>2. /\ PageIn(q) \in 1..PagesFor(s.cached) /\ x \in Page
        /\ TableEntry(table, s.slot, q) = x * PageSize + PlaceIn(q)
    BY <2>1, EntryOf
  <2>3. q \in Nat /\ PlaceIn(q) \in 0..(PageSize - 1) /\ PagesFor(s.cached) \in Nat
    <3>1. q \in Nat BY <2>1
    <3>2. QED BY <2>1, <3>1, PositionParts, PagesForTokens
  <2>4. x \in Nat BY <2>2 DEF Page
  <2>5. g = x /\ PlaceIn(p) = PlaceIn(q)
    <3> HIDE DEF x
    <3>1. g * PageSize + PlaceIn(p) = x * PageSize + PlaceIn(q) BY <1>3, <1>10, <2>2
    <3>2. QED BY <1>7, <1>8, <2>3, <2>4, <3>1, PlaceUnique
  <2>6. PageIn(q) \in Own(s)
    <3>1. CASE PageIn(q) <= Len(s.handle)
      <4>1. PageIn(q) \in 1..Len(s.handle) BY <2>1, <2>2, <2>3, <3>1
      <4>2. x = page[SubSeq(s.handle, 1, PageIn(q))] /\ SubSeq(s.handle, 1, PageIn(q)) \in DOMAIN page
        BY <2>1, <4>1 DEF Aliased, HeldIn
      <4>3. QED BY <1>1, <1>6, <2>5, <4>2
    <3>2. CASE ~(PageIn(q) <= Len(s.handle)) BY <2>1, <2>2, <2>3, <3>2 DEF Own
    <3>3. QED BY <3>1, <3>2
  <2>7. x \in Owned(table, s) BY <2>6 DEF Owned, PagesAt
  <2>8. u = v
    <3>1. u # v => Owned(table, r) \cap Owned(table, s) = {} BY DEF Apart
    <3>2. QED BY <1>6, <2>5, <2>7, <3>1
  <2>9. PageIn(p) = PageIn(q)
    <3>1. Distinct(table[r.slot], Own(r)) BY <1>1 DEF RowOK
    <3>2. table[r.slot][PageIn(p)] = table[r.slot][PageIn(q)] BY <2>5, <2>8 DEF g
    <3>3. QED BY <1>5, <2>6, <2>8, <3>1, <3>2 DEF Distinct
  <2>10. p = q
    <3>1. p = (PageIn(p) - 1) * PageSize + PlaceIn(p) BY <1>2, PositionParts
    <3>2. q = (PageIn(q) - 1) * PageSize + PlaceIn(q) BY <2>3, PositionParts
    <3>3. QED BY <2>5, <2>9, <3>1, <3>2
  <2>11. QED BY <2>8, <2>10
<1>11. QED BY <1>2, <1>9, <1>10

(* Running sums of the same numbers are the same.                          *)
LEMMA SumsUnique ==
  ASSUME NEW n \in Nat, NEW e \in [1..n -> Nat], NEW c, Sums(c, e, n),
         NEW g, NEW d, Sums(d, g, n), \A i \in 1..n : g[i] = e[i]
  PROVE  \A i \in 0..n : d[i] = c[i]
<1> DEFINE Bad == {i \in 0..n : d[i] # c[i]}
<1>1. Bad = {}
  <2> SUFFICES ASSUME Bad # {} PROVE FALSE OBVIOUS
  <2>1. Bad \in SUBSET Nat OBVIOUS
  <2>2. PICK m \in Bad : \A k \in Bad : m <= k
    <3> HIDE DEF Bad
    <3>1. QED BY <2>1, LeastNatural
  <2>3. m \in 0..n /\ d[m] # c[m] BY <2>2
  <2>4. m # 0 BY <2>3 DEF Sums
  <2>5. m - 1 \in 0..n /\ m \in 1..n /\ ~(m <= m - 1) BY <2>3, <2>4
  <2>6. m - 1 \notin Bad
    <3> HIDE DEF Bad
    <3>1. QED BY <2>2, <2>5
  <2>7. d[m - 1] = c[m - 1] BY <2>5, <2>6
  <2>8. c[m] = c[m - 1] + e[m] /\ d[m] = d[m - 1] + g[m] BY <2>5 DEF Sums
  <2>9. QED BY <2>3, <2>5, <2>7, <2>8
<1>2. QED BY <1>1

(* A position is in one part.                                              *)
LEMMA PartOf ==
  ASSUME NEW n \in Nat, NEW e \in [1..n -> Nat], NEW c, Sums(c, e, n), NEW f \in 1..c[n]
  PROVE  \E i \in 1..n : \E j \in 1..e[i] : f = c[i - 1] + j
<1> DEFINE S == {i \in 0..n : f <= c[i]}
<1>1. c \in [0..n -> Nat] /\ c[0] = 0 BY DEF Sums
<1>2. n \in S BY <1>1
<1>3. S \in SUBSET Nat OBVIOUS
<1>4. PICK i \in S : \A k \in S : i <= k
  <2> HIDE DEF S
  <2>1. QED BY <1>2, <1>3, LeastNatural
<1>5. i # 0 BY <1>1, <1>4
<1>6. i \in 1..n /\ i - 1 \in 0..n /\ ~(i <= i - 1) BY <1>4, <1>5
<1>7. i - 1 \notin S
  <2> HIDE DEF S
  <2>1. QED BY <1>4, <1>6
<1>8. c[i - 1] \in Nat /\ c[i] = c[i - 1] + e[i] /\ f <= c[i] /\ ~(f <= c[i - 1]) BY <1>1, <1>4, <1>6, <1>7 DEF Sums
<1>9. e[i] \in Nat /\ f - c[i - 1] \in 1..e[i] /\ f = c[i - 1] + (f - c[i - 1]) BY <1>6, <1>8
<1>10. QED BY <1>6, <1>9

LEMMA OnePart ==
  ASSUME NEW n \in Nat, NEW e \in [1..n -> Nat], NEW c, Sums(c, e, n),
         NEW i \in 1..n, NEW j \in 1..e[i]
  PROVE  /\ c[i - 1] \in Nat /\ c[i - 1] + j \in 1..c[n] /\ c[i - 1] + j <= c[i]
         /\ \A k \in 1..n : c[k - 1] < c[i - 1] + j /\ c[i - 1] + j <= c[k] => k = i
<1>1. c \in [0..n -> Nat] /\ n \in 0..n /\ i \in 0..n /\ i - 1 \in 0..n BY DEF Sums
<1>2. c[i] = c[i - 1] + e[i] /\ c[i] <= c[n] /\ e[i] \in Nat
  BY <1>1, SumsGrow DEF Sums
<1>3. ASSUME NEW k \in 1..n, c[k - 1] < c[i - 1] + j, c[i - 1] + j <= c[k] PROVE k = i
  <2>1. k \in 0..n /\ k - 1 \in 0..n OBVIOUS
  <2>2. ~(k < i)
    <3>1. k < i => k \in 0..(i - 1) OBVIOUS
    <3>2. k < i => c[k] <= c[i - 1] BY <1>1, <3>1, SumsGrow
    <3>3. QED BY <1>1, <1>3, <2>1, <3>2
  <2>3. ~(i < k)
    <3>1. i < k => i \in 0..(k - 1) OBVIOUS
    <3>2. i < k => c[i] <= c[k - 1] BY <2>1, <3>1, SumsGrow
    <3>3. QED BY <1>1, <1>2, <1>3, <2>1, <3>2
  <2>4. QED BY <2>2, <2>3
<1>4. QED BY <1>1, <1>2, <1>3

(* cu_seqlens_q holds the positions where the queries of the requests end. *)
LEMMA CuQIs ==
  ASSUME NEW rs, NEW m, NEW n, Padded(rs, m, n), NEW c, Sums(c, SeqlensQ(rs), n)
  PROVE  \A i \in 0..n : CuSeqlensQ(rs)[i] = c[i]
<1>1. n \in Nat /\ DOMAIN rs = 1..n /\ Len(rs) = n BY DEF Padded
<1>2. /\ SeqlensQ(rs) \in Seq(Nat) /\ Len(SeqlensQ(rs)) = n /\ SeqlensQ(rs) \in [1..n -> Nat]
      /\ SeqlensK(rs) \in Seq(Nat) /\ Len(SeqlensK(rs)) = n
      /\ \A i \in 1..n : /\ SeqlensQ(rs)[i] = rs[i].device - rs[i].cached
                         /\ SeqlensK(rs)[i] = rs[i].device
                         /\ ExtendLen(rs[i]) = rs[i].device - rs[i].cached
  BY LengthsOfBatch
<1>3. CASE \A i \in DOMAIN rs : ExtendLen(rs[i]) = 1
  <2>1. CuSeqlensQ(rs) = [i \in 0..n |-> i] BY <1>1, <1>3 DEF CuSeqlensQ
  <2>2. \A i \in 1..n : SeqlensQ(rs)[i] = 1 BY <1>1, <1>2, <1>3
  <2>3. Sums([i \in 0..n |-> i], SeqlensQ(rs), n) BY <1>1, <2>2 DEF Sums
  <2>4. \A i \in 0..n : [k \in 0..n |-> k][i] = c[i] BY <1>1, <1>2, <2>3, SumsUnique
  <2>5. QED BY <2>1, <2>4
<1>4. CASE ~(\A i \in DOMAIN rs : ExtendLen(rs[i]) = 1) /\ \A i \in DOMAIN rs : rs[i].cached = 0
  <2>1. CuSeqlensQ(rs) = Cumulated(SeqlensK(rs)) BY <1>4 DEF CuSeqlensQ
  <2>2. Sums(Cumulated(SeqlensK(rs)), SeqlensK(rs), n) BY <1>2, CumulatedSums
  <2>3. \A i \in 1..n : SeqlensK(rs)[i] = SeqlensQ(rs)[i]
    <3>1. \A i \in 1..n : rs[i].device \in Nat BY DEF Padded
    <3>2. QED BY <1>1, <1>2, <1>4, <3>1
  <2>4. QED BY <1>1, <1>2, <2>1, <2>2, <2>3, SumsUnique
<1>5. CASE /\ ~(\A i \in DOMAIN rs : ExtendLen(rs[i]) = 1)
           /\ ~(\A i \in DOMAIN rs : rs[i].cached = 0)
  <2>1. CuSeqlensQ(rs) = Cumulated(SeqlensQ(rs)) BY <1>5 DEF CuSeqlensQ
  <2>2. Sums(Cumulated(SeqlensQ(rs)), SeqlensQ(rs), n) BY <1>2, CumulatedSums
  <2>3. QED BY <1>1, <1>2, <2>1, <2>2, SumsUnique
<1>6. QED BY <1>3, <1>4, <1>5

(* In a decode each request has one query.                                 *)
LEMMA DecodeSums ==
  ASSUME NEW rs, NEW m, NEW n, Padded(rs, m, n), NEW c, Sums(c, SeqlensQ(rs), n),
         batch.phase = "decode"
  PROVE  /\ \A i \in 1..n : SeqlensQ(rs)[i] = 1 /\ rs[i].device - rs[i].cached = 1
         /\ \A i \in 0..n : c[i] = i
<1>1. n \in Nat BY DEF Padded
<1>2. \A i \in 1..n : SeqlensQ(rs)[i] = 1 /\ rs[i].device - rs[i].cached = 1
  <2>1. \A i \in 1..n : SeqlensQ(rs)[i] = rs[i].device - rs[i].cached BY LengthsOfBatch
  <2>2. \A i \in 1..n : rs[i].cached \in Nat /\ rs[i].device = rs[i].cached + 1 BY DEF Padded
  <2>3. QED BY <2>1, <2>2
<1>3. SeqlensQ(rs) \in [1..n -> Nat] BY LengthsOfBatch
<1>4. Sums([i \in 0..n |-> i], SeqlensQ(rs), n) BY <1>1, <1>2 DEF Sums
<1>5. \A i \in 0..n : [k \in 0..n |-> k][i] = c[i] BY <1>1, <1>3, <1>4, SumsUnique
<1>6. QED BY <1>2, <1>5

QueryOf(rs, f) ==
  IF batch.phase = "decode" /\ BackendOf(batch.phase) # "fa" THEN DecodeQuery(rs, f)
  ELSE VarlenQuery(rs, f)

LEMMA QueryAt ==
  ASSUME NEW rs, NEW m, NEW n, Padded(rs, m, n), NEW c, Sums(c, SeqlensQ(rs), n),
         NEW i \in 1..n, NEW j \in 1..(rs[i].device - rs[i].cached)
  PROVE  QueryOf(rs, c[i - 1] + j) = [req |-> i, pos |-> rs[i].cached + j - 1]
<1> DEFINE e == SeqlensQ(rs)
           f == c[i - 1] + j
<1>1. /\ n \in Nat /\ DOMAIN rs = 1..n /\ e \in [1..n -> Nat] /\ e[i] = rs[i].device - rs[i].cached
      /\ rs[i].cached \in Nat /\ rs[i].device \in Nat
  BY LengthsOfBatch DEF Padded
<1>2. CASE batch.phase = "decode" /\ BackendOf(batch.phase) # "fa"
  <2>1. rs[i].device - rs[i].cached = 1 /\ c[i - 1] = i - 1
    <3>1. i - 1 \in 0..n BY <1>1
    <3>2. QED BY <1>2, <3>1, DecodeSums
  <2>2. j = 1 /\ f = i BY <2>1
  <2>3. rs[i].device - 1 = rs[i].cached + j - 1 BY <1>1, <2>1, <2>2
  <2>4. QueryOf(rs, f) = DecodeQuery(rs, i) BY <1>2, <2>2 DEF QueryOf
  <2>5. QED BY <2>3, <2>4 DEF DecodeQuery
<1>3. CASE ~(batch.phase = "decode" /\ BackendOf(batch.phase) # "fa")
  <2> DEFINE cuQ == CuSeqlensQ(rs)
  <2>1. \A k \in 0..n : cuQ[k] = c[k] BY CuQIs
  <2>2. c \in [0..n -> Nat] /\ c[i] = c[i - 1] + e[i] BY DEF Sums
  <2>3. /\ c[i - 1] \in Nat /\ f <= c[i]
        /\ \A k \in 1..n : c[k - 1] < f /\ f <= c[k] => k = i
    <3>1. j \in 1..e[i] BY <1>1
    <3> HIDE DEF e
    <3>2. Sums(c, e, n) BY DEF e
    <3>3. QED BY <1>1, <3>1, <3>2, OnePart
  <2>4. c[i - 1] < f BY <2>3
  <2>5. \A k \in 1..n : k - 1 \in 0..n /\ k \in 0..n BY <1>1
  <2>6. (CHOOSE k \in DOMAIN rs : cuQ[k - 1] < f /\ f <= cuQ[k]) = i
    <3> HIDE DEF cuQ, f
    <3>1. i \in DOMAIN rs /\ cuQ[i - 1] < f /\ f <= cuQ[i] BY <1>1, <2>1, <2>3, <2>4, <2>5
    <3>2. \A k \in DOMAIN rs : cuQ[k - 1] < f /\ f <= cuQ[k] => k = i BY <1>1, <2>1, <2>3, <2>5
    <3>3. QED BY <3>1, <3>2
  <2>7. cuQ[i] = c[i] BY <2>1, <2>5
  <2>8. rs[i].device - (c[i] - f) - 1 = rs[i].cached + j - 1
    <3>1. PICK a \in Nat : a = c[i - 1] BY <2>3
    <3>2. PICK x \in Nat : x = rs[i].cached BY <1>1
    <3>3. PICK y \in Nat : y = rs[i].device BY <1>1
    <3>4. c[i] = a + (y - x) /\ f = a + j /\ j \in 1..(y - x) BY <1>1, <2>2, <3>1, <3>2, <3>3
    <3>5. QED BY <3>2, <3>3, <3>4
  <2>9. VarlenQuery(rs, f) = [req |-> i, pos |-> rs[i].device - (c[i] - f) - 1]
    <3> HIDE DEF f
    <3>1. QED BY <2>6, <2>7 DEF VarlenQuery
  <2>10. QED BY <1>3, <2>8, <2>9 DEF QueryOf
<1>4. QED BY <1>2, <1>3

(* The rows of the requests of a batch, as far as they will have computed. *)
RowsCover(rs, m) ==
  \A i \in 1..m : \A p \in 0..(rs[i].device - 1) :
    /\ pageTable'[rs[i].slot][PageIn(p)] \in Page
    /\ TableEntry(pageTable', rs[i].slot, p)
         = pageTable'[rs[i].slot][PageIn(p)] * PageSize + PlaceIn(p)

(* Both tables of keys have for each position what the page table has.     *)
LEMMA RaggedAt ==
  ASSUME NEW rs, NEW m, NEW n, Padded(rs, m, n), Entries(rs, n),
         NEW i \in 1..n, NEW q \in 1..rs[i].device
  PROVE  RaggedKeys(rs)[i][q] = TableEntry(pageTable', rs[i].slot, q - 1)
<1> DEFINE v(k, x) == TableEntry(pageTable', rs[k].slot, x - 1)
           parts == [k \in DOMAIN rs |-> [x \in 1..rs[k].device |-> TableEntry(pageTable', rs[k].slot, x - 1)]]
           e == SeqlensK(rs)
           d == Cumulated(SeqlensK(rs))
           all == FlattenSeq(parts)
<1>1. /\ n \in Nat /\ DOMAIN rs = 1..n /\ e \in [1..n -> Nat] /\ e \in Seq(Nat) /\ Len(e) = n
      /\ \A k \in 1..n : rs[k].device \in Nat /\ e[k] = rs[k].device
  <2>1. n \in Nat /\ DOMAIN rs = 1..n /\ \A k \in 1..n : rs[k].device \in Nat BY DEF Padded
  <2>2. /\ e \in [1..n -> Nat] /\ e \in Seq(Nat) /\ Len(e) = n
        /\ \A k \in 1..n : e[k] = rs[k].device
    BY LengthsOfBatch
  <2>3. QED BY <2>1, <2>2
<1>2. Sums(d, e, n)
  <2>1. Sums(Cumulated(e), e, Len(e))
    <3> HIDE DEF e
    <3>1. QED BY <1>1, CumulatedSums
  <2>2. QED BY <1>1, <2>1
<1>3. ASSUME NEW k \in 1..n
      PROVE  parts[k] \in Seq(Location) /\ Len(parts[k]) = e[k] /\ \A x \in 1..e[k] : parts[k][x] = v(k, x)
  <2>1. PICK l \in Nat : l = rs[k].device BY <1>1
  <2>2. parts[k] = [x \in 1..l |-> v(k, x)] BY <1>1, <2>1
  <2>3. \A x \in 1..l : v(k, x) \in Location
    <3>1. \A x \in 1..l : x - 1 \in 0..(rs[k].device - 1) BY <2>1
    <3>2. QED BY <3>1 DEF Entries
  <2> HIDE DEF parts, v
  <2>4. /\ parts[k] \in Seq(Location) /\ Len(parts[k]) = l /\ \A x \in 1..l : parts[k][x] = v(k, x)
    BY <2>2, <2>3
  <2>5. QED BY <1>1, <2>1, <2>4
<1>4. parts \in [1..n -> Seq(Location)] BY <1>1, <1>3
<1>5. Layout(all, parts, d, e, n, Location)
  <2>1. \A k \in 1..n : Len(parts[k]) = e[k] BY <1>3
  <2> HIDE DEF parts, e, d
  <2>2. QED BY <1>1, <1>2, <1>4, <2>1, FlattenLayout
<1>6. RaggedKeys(rs) = [k \in DOMAIN rs |-> SubSeq(all, d[k - 1] + 1, d[k])] BY DEF RaggedKeys
<1> HIDE DEF parts, e, d, all
<1>7. /\ all \in Seq(Location) /\ Len(all) = d[n]
      /\ \A x \in 1..e[i] : all[d[i - 1] + x] = parts[i][x]
  BY <1>5 DEF Layout
<1>8. /\ d[i - 1] \in Nat /\ d[i] \in Nat /\ d[i] = d[i - 1] + e[i] /\ d[i] <= d[n] /\ e[i] \in Nat
  <2>1. d \in [0..n -> Nat] /\ i - 1 \in 0..n /\ i \in 0..n /\ n \in 0..n BY <1>1, <1>2 DEF Sums
  <2>2. d[i] <= d[n] BY <1>1, <1>2, <2>1, SumsGrow
  <2>3. QED BY <1>1, <1>2, <2>1, <2>2 DEF Sums
<1>9. PICK a \in Nat : a = d[i - 1] BY <1>8
<1>10. PICK b \in Nat : b = d[i] BY <1>8
<1>11. a <= b /\ b <= Len(all) /\ q \in 1..(b - a) /\ q \in 1..e[i] BY <1>1, <1>7, <1>8, <1>9, <1>10
<1>12. \A x \in 1..(b - a) : SubSeq(all, a + 1, b)[x] = all[a + x]
  <2>1. PICK s \in Seq(Location) : s = all BY <1>7
  <2>2. a <= b /\ b <= Len(s) BY <1>11, <2>1
  <2>3. \A x \in 1..(b - a) : SubSeq(s, a + 1, b)[x] = s[a + x] BY ONLY <2>2, PartOfRow
  <2>4. QED BY <2>1, <2>3
<1>13. SubSeq(all, a + 1, b)[q] = all[a + q] BY <1>11, <1>12
<1>14. all[a + q] = v(i, q) BY <1>3, <1>7, <1>9, <1>11
<1>15. RaggedKeys(rs)[i] = SubSeq(all, a + 1, b) BY <1>1, <1>6, <1>9, <1>10
<1>16. QED BY <1>13, <1>14, <1>15

LEMMA PagedAt ==
  ASSUME NEW rs, NEW m, NEW n, Padded(rs, m, n), RowsCover(rs, m),
         NEW i \in 1..m, NEW q \in 1..rs[i].device
  PROVE  PagedKeys(rs)[i][q] = TableEntry(pageTable', rs[i].slot, q - 1)
<1> DEFINE row == pageTable'[rs[i].slot]
<1>1. i \in DOMAIN rs /\ rs[i].device \in Nat
  <2>1. i \in 1..n /\ DOMAIN rs = 1..n BY DEF Padded
  <2>2. QED BY <2>1 DEF Padded
<1>2. PICK p \in Nat : p = q - 1 /\ p \in 0..(rs[i].device - 1) BY <1>1
<1>3. PICK s \in Nat \ {0} : s = PageSize BY PageSizeAssumption
<1>4. PICK b \in Nat : b = p \div s
  <2>1. s > 0 OBVIOUS
  <2>2. p \div s \in Nat BY <2>1
  <2>3. QED BY <2>2
<1>5. PageIn(p) = b + 1 /\ PlaceIn(p) = p % s BY <1>3, <1>4 DEF PageIn, PlaceIn
<1>6. PICK o \in Nat : o = PlaceIn(p) BY PositionParts
<1>7. p = b * s + o
  <2>1. (b + 1) - 1 = b OBVIOUS
  <2>2. QED BY <1>3, <1>5, <1>6, <2>1, PositionParts
<1>8. PICK t \in Nat : t = b * s BY SMT
<1>9. t \in 0..(rs[i].device - 1) BY <1>1, <1>2, <1>6, <1>7, <1>8
<1>10. PageIn(t) = b + 1 /\ PlaceIn(t) = 0
  <2>1. PageIn(t) \in Nat \ {0} /\ PlaceIn(t) \in 0..(s - 1) /\ t = (PageIn(t) - 1) * s + PlaceIn(t)
    BY <1>3, PositionParts
  <2>2. PICK c \in Nat : c = PageIn(t) - 1 BY <2>1
  <2>3. 0 \in 0..(s - 1) OBVIOUS
  <2>4. c * s + PlaceIn(t) = b * s + 0 BY <1>8, <2>1, <2>2
  <2>5. c = b /\ PlaceIn(t) = 0 BY <1>3, <2>1, <2>3, <2>4, PlaceUnique
  <2>6. QED BY <2>1, <2>2, <2>5
<1>11. row[b + 1] \in Page /\ TableEntry(pageTable', rs[i].slot, t) = row[b + 1] * s + 0
  BY <1>3, <1>9, <1>10 DEF RowsCover
<1>12. TableEntry(pageTable', rs[i].slot, p) = row[b + 1] * s + o
  BY <1>2, <1>3, <1>5, <1>6 DEF RowsCover
<1>13. PICK g \in Nat : g = row[b + 1] BY <1>11 DEF Page
<1>14. (g * s) \div s = g
  <2>1. s > 0 OBVIOUS
  <2>2. QED BY <2>1
<1>15. TableEntry(pageTable', rs[i].slot, b * s) \div s = g
  <2>1. g * s \in Nat BY SMT
  <2>2. g * s + 0 = g * s BY <2>1
  <2>3. QED BY <1>8, <1>11, <1>13, <1>14, <2>2
<1>16. PagedKeys(rs)[i][q]
         = (TableEntry(pageTable', rs[i].slot, ((q - 1) \div PageSize) * PageSize) \div PageSize) * PageSize
             + ((q - 1) % PageSize)
  BY <1>1 DEF PagedKeys
<1>17. PagedKeys(rs)[i][q] = g * s + o BY <1>2, <1>3, <1>4, <1>5, <1>6, <1>15, <1>16
<1>18. QED BY <1>2, <1>12, <1>13, <1>17

KeysFor(rs) == IF BackendOf(batch.phase) = "fi" THEN RaggedKeys(rs) ELSE PagedKeys(rs)

LEMMA KeyPlaces ==
  ASSUME NEW rs, NEW m, NEW n, Padded(rs, m, n), Entries(rs, n), RowsCover(rs, m),
         NEW i \in 1..m, NEW q \in 1..rs[i].device
  PROVE  KeysFor(rs)[i][q] = TableEntry(pageTable', rs[i].slot, q - 1)
<1>1. i \in 1..n BY DEF Padded
<1>2. RaggedKeys(rs)[i][q] = TableEntry(pageTable', rs[i].slot, q - 1) BY <1>1, RaggedAt
<1>3. PagedKeys(rs)[i][q] = TableEntry(pageTable', rs[i].slot, q - 1) BY PagedAt
<1>4. PICK x : x = TableEntry(pageTable', rs[i].slot, q - 1) OBVIOUS
<1>5. PICK k : k = KeysFor(rs) OBVIOUS
<1>6. k = RaggedKeys(rs) \/ k = PagedKeys(rs) BY <1>5 DEF KeysFor
<1>7. k[i][q] = x BY <1>2, <1>3, <1>4, <1>6
<1>8. QED BY <1>4, <1>5, <1>7

(* The logits are those of the last token of each request.                 *)
LEMMA LastAt ==
  ASSUME NEW rs, NEW m, NEW n, Padded(rs, m, n), NEW c, Sums(c, SeqlensQ(rs), n),
         DOMAIN batch.reqs = 1..m, batch.phase \in {"prefill", "decode"}, NEW i \in 1..m
  PROVE  LastIndices(CuSeqlensQ(rs))[i] = c[i - 1] + (rs[i].device - rs[i].cached)
<1>1. i \in 1..n /\ i \in 0..n /\ i - 1 \in 0..n /\ n \in Nat BY DEF Padded
<1>2. c[i] = c[i - 1] + SeqlensQ(rs)[i] /\ SeqlensQ(rs)[i] = rs[i].device - rs[i].cached
  BY <1>1, LengthsOfBatch DEF Sums
<1>3. CASE batch.phase = "prefill"
  <2>1. CuSeqlensQ(rs)[i] = c[i] BY <1>1, CuQIs
  <2>2. QED BY <1>2, <1>3, <2>1 DEF LastIndices
<1>4. CASE batch.phase = "decode"
  <2>1. c[i] = i BY <1>1, <1>4, DecodeSums
  <2>2. LastIndices(CuSeqlensQ(rs))[i] = i BY <1>4 DEF LastIndices
  <2>3. QED BY <1>2, <2>1, <2>2
<1>5. QED BY <1>3, <1>4

(* What the batch is run with: its requests with their tokens, padded.     *)
PaddedOf(rs, m, n) ==
  /\ m \in Nat \ {0} /\ DOMAIN batch.reqs = 1..m /\ batch.phase \in {"prefill", "decode"}
  /\ Padded(rs, m, n)
  /\ \A i \in 1..m : /\ batch.reqs[i] \in BatchEntry /\ batch.reqs[i].uid \in holds
                     /\ rs[i] = reqs[batch.reqs[i].uid] /\ rs[i] \in Request
                     /\ rs[i].device = Len(rs[i].ids)
  /\ \A i, j \in 1..m : batch.reqs[i].uid = batch.reqs[j].uid => i = j

LEMMA PaddedSizeOK ==
  ASSUME NEW m \in Nat \ {0}, m = Len(batch.reqs)
  PROVE  PaddedSize \in Nat /\ m <= PaddedSize /\ (~CanUseGraph => PaddedSize = m)
<1>1. CASE ~CanUseGraph BY <1>1 DEF PaddedSize
<1>2. CASE CanUseGraph
  <2> DEFINE Fit == {k \in GraphSizes : k >= Len(batch.reqs)}
  <2>1. Fit # {}
    <3>1. SUFFICES ASSUME Fit = {} PROVE FALSE OBVIOUS
    <3>2. \A k \in GraphSizes : k \in 0..(m - 1) BY <3>1, GraphAssumption
    <3>3. GraphSizes \cup {0} \in SUBSET (0..(m - 1)) /\ GraphSizes \cup {0} # {} BY <3>2
    <3>4. m - 1 \in Nat OBVIOUS
    <3>5. Max(GraphSizes \cup {0}) \in 0..(m - 1) BY <3>3, <3>4, MaxIsLargest
    <3>6. m <= GraphMax BY <1>2 DEF CanUseGraph
    <3>7. QED BY <3>5, <3>6 DEF GraphMax
  <2>2. Fit \in SUBSET Nat BY GraphAssumption
  <2>3. \A k \in Fit : k >= m OBVIOUS
  <2>4. PaddedSize = Min(Fit) BY <1>2 DEF PaddedSize
  <2> HIDE DEF Fit
  <2>5. \E k \in Fit : \A l \in Fit : k <= l BY <2>1, <2>2, LeastNatural
  <2>6. Min(Fit) \in Fit BY <2>5 DEF Min
  <2>7. QED BY <1>2, <2>2, <2>3, <2>4, <2>6
<1>3. QED BY <1>1, <1>2

LEMMA PaddedBatch ==
  ASSUME Going, RowsOK, PagesRows, pc = "allocate", ~Overlap, batch.reqs # <<>>
  PROVE  PaddedOf(PaddedReqs, Len(batch.reqs), PaddedSize)
<1>1. PICK m : m = Len(batch.reqs) OBVIOUS
<1>2. PICK n : n = PaddedSize OBVIOUS
<1>3. PICK a : a = BatchReqs OBVIOUS
<1>4. PICK d : d = DummyReq OBVIOUS
<1>5. /\ batch \in Batch /\ m \in Nat \ {0} /\ DOMAIN batch.reqs = 1..m
      /\ \A i \in 1..m : batch.reqs[i] \in BatchEntry
  BY <1>1 DEF Going, Types, Batch
<1>6. Runnable(a, m) BY <1>1, <1>3, BatchRunnable
<1>7. /\ a \in Seq(Request) /\ Len(a) = m
      /\ \A i \in 1..m : batch.reqs[i].uid \in holds /\ a[i] = reqs[batch.reqs[i].uid]
      /\ \A i, j \in 1..m : batch.reqs[i].uid = batch.reqs[j].uid => i = j
  BY <1>6 DEF Runnable
<1>8. batch.phase \in {"prefill", "decode"} BY <1>5 DEF Batch, Going, Phases, BatchOK
<1>9. n \in Nat /\ m <= n /\ (~CanUseGraph => n = m) BY <1>1, <1>2, <1>5, PaddedSizeOK
<1>10. batch.phase # "decode" => n = m BY <1>9 DEF CanUseGraph
<1>11. PICK k \in Nat : n = m + k
  <2>1. n - m \in Nat /\ n = m + (n - m) BY <1>5, <1>9
  <2>2. QED BY <2>1
<1>12. PICK b : b = [i \in 1..k |-> d] OBVIOUS
<1>13. Padding = b
  <2>1. PaddedSize - Len(batch.reqs) = k BY <1>1, <1>2, <1>5, <1>11
  <2>2. QED BY <1>4, <1>12, <2>1 DEF Padding
<1>14. PICK rs : rs = PaddedReqs OBVIOUS
<1>15. rs = a \o b BY <1>3, <1>13, <1>14 DEF PaddedReqs
<1>16. PICK S : S = Request \cup {d} OBVIOUS
<1>17. a \in Seq(S) /\ Len(a) = m /\ b \in Seq(S) /\ Len(b) = k
  <2>1. a \in Seq(S)
    <3>1. \A i \in 1..Len(a) : a[i] \in S BY <1>7, <1>16
    <3>2. a \in [1..Len(a) -> S] BY <1>7, <3>1
    <3>3. QED BY <1>7, <3>2
  <2>2. QED BY <1>7, <1>11, <1>12, <1>16, <2>1
<1>18. rs \in Seq(S) /\ Len(rs) = n /\ DOMAIN rs = 1..n
  <2>1. rs \in Seq(S) BY <1>15, <1>17
  <2>2. Len(rs) = Len(a) + Len(b) BY <1>15, <1>17, ConcatProperties
  <2>3. Len(rs) = n BY <1>5, <1>11, <1>17, <2>2
  <2>4. QED BY <2>1, <2>3
<1>19. \A i \in 1..m : rs[i] = a[i] BY <1>5, <1>7, <1>11, <1>15, <1>17
<1>20. \A i \in (m + 1)..n : rs[i] = d
  <2>1. ASSUME NEW i \in (m + 1)..n PROVE rs[i] = d
    <3>1. i \in 1..(m + k) /\ ~(i <= m) /\ i - m \in 1..k BY <1>5, <1>11
    <3>2. rs[i] = b[i - m] BY <1>15, <1>17, <3>1
    <3>3. QED BY <1>12, <3>1, <3>2
  <2>2. QED BY <2>1
<1>21. ASSUME NEW i \in 1..m
       PROVE  /\ rs[i] \in Request /\ rs[i].cached \in Nat /\ rs[i].device \in Nat /\ rs[i].slot \in Slot
              /\ rs[i].cached < rs[i].device /\ rs[i].device = Len(rs[i].ids)
              /\ batch.phase = "decode" => rs[i].device = rs[i].cached + 1
  <2>1. PICK u : u = batch.reqs[i].uid OBVIOUS
  <2>2. u \in holds /\ rs[i] = reqs[u] /\ u \in Uids /\ batch.reqs[i] \in BatchEntry
    BY <1>5, <1>7, <1>19, <2>1 DEF BatchEntry
  <2>3. PICK r \in Request : r = reqs[u] BY <2>2, HeldFacts
  <2>4. r.cached \in Nat /\ r.device \in Nat /\ r.slot \in Slot /\ Len(r.ids) \in Nat BY DEF Request
  <2>5. u \in InBatch(batch) BY <1>1, <1>5, <2>1 DEF InBatch
  <2>6. CASE batch.phase = "decode"
    <3>1. Fresh = Open(batch, 1) /\ Late = {}
      <4>1. inflight.reqs = <<>> /\ cursor = 1 BY DEF Going, Phases, NoBatch
      <4>2. Late = {} BY <4>1 DEF Late, Open
      <4>3. QED BY <4>1, <4>2 DEF Fresh
    <3>2. u \in Fresh
      <4>1. ~batch.reqs[i].chunked BY <1>5, <2>6 DEF Going, Phases, BatchOK
      <4>2. QED BY <1>1, <2>1, <2>2, <3>1, <4>1 DEF Open
    <3>3. Prefilled(u) BY <2>6, <3>2 DEF Prefilled
    <3>4. DecodeLengths(u) BY <2>2, <3>3 DEF Going, LengthsOK
    <3>5. ToCome(u) = 0 BY <3>1 DEF ToCome
    <3>6. r.device = Len(r.ids) + 0 /\ r.cached = r.device - 1 BY <2>3, <3>4, <3>5 DEF DecodeLengths
    <3>7. QED BY <2>2, <2>3, <2>4, <3>6
  <2>7. CASE batch.phase = "prefill"
    <3>1. Begun(u) BY <2>5, <2>7 DEF Begun
    <3>2. BegunLengths(u) BY <2>2, <3>1 DEF Going, LengthsOK
    <3>3. r.device = Len(r.ids) /\ r.cached < r.device BY <2>3, <3>2 DEF BegunLengths
    <3>4. QED BY <2>2, <2>3, <2>4, <2>7, <3>3
  <2>8. QED BY <1>8, <2>6, <2>7
<1>22. d.cached = 0 /\ d.device = 1 BY <1>4 DEF DummyReq
<1>23. Padded(rs, m, n)
  <2>1. m \in 0..n BY <1>5, <1>9
  <2>2. ASSUME NEW i \in 1..n
        PROVE  /\ rs[i].cached \in Nat /\ rs[i].device \in Nat /\ rs[i].cached < rs[i].device
               /\ batch.phase = "decode" => rs[i].device = rs[i].cached + 1
    <3>1. CASE i \in 1..m BY <1>21, <3>1
    <3>2. CASE i \in (m + 1)..n BY <1>20, <1>22, <3>2
    <3>3. QED BY <1>5, <1>9, <3>1, <3>2
  <2>3. QED BY <1>4, <1>9, <1>10, <1>18, <1>20, <1>21, <2>1, <2>2 DEF Padded
<1>24. QED BY <1>1, <1>2, <1>5, <1>7, <1>8, <1>14, <1>19, <1>21, <1>23 DEF PaddedOf

(* A forward pass leaves what the rows had, and only adds to them.         *)
Advances(u) ==
  /\ reqs[u] \in Request /\ reqs'[u] \in Request /\ reqs[u].slot \in Slot
  /\ reqs'[u].slot = reqs[u].slot /\ reqs'[u].handle = reqs[u].handle /\ reqs'[u].ids = reqs[u].ids
  /\ reqs'[u].cached = IF u \in InBatch(batch) THEN reqs[u].device ELSE reqs[u].cached
  /\ reqs[u].cached \in Nat /\ reqs'[u].cached \in Nat /\ reqs[u].cached <= reqs'[u].cached
  /\ \A j \in 1..PagesFor(reqs[u].cached) : pageTable'[reqs[u].slot][j] = pageTable[reqs[u].slot][j]
  /\ \A p \in 0..(reqs[u].cached - 1) :
       TableEntry(pageTable', reqs[u].slot, p) = TableEntry(pageTable, reqs[u].slot, p)

LEMMA ForwardAdvances ==
  ASSUME Going, RowsOK, PagesInv, PagesInv', Forward
  PROVE  /\ \A u \in holds : Advances(u)
         /\ holds' = holds /\ tree' = tree /\ InBatch(batch) \subseteq holds
<1>1. PICK n : n = Len(batch.reqs) OBVIOUS
<1>2. PICK rs : rs = BatchReqs OBVIOUS
<1>3. /\ pc = "allocate" /\ AllocatePaged(rs) /\ holds' = holds
      /\ reqs' = [u \in Uids |-> IF u \in InBatch(batch) THEN Advanced(reqs[u]) ELSE reqs[u]]
  BY <1>2 DEF Forward
<1>4. /\ PagesRows /\ freePages \in Seq(Page) /\ holds \subseteq Uids
      /\ pageTable \in [Slot -> Seq(Page)]
  BY DEF PagesInv, PagesRows
<1>5. Runnable(rs, n) BY <1>1, <1>2, <1>3, <1>4, BatchRunnable
<1>6. /\ rs \in Seq(Request) /\ Len(rs) = n /\ n \in Nat /\ RowsApart(rs)
      /\ \A i \in 1..n : batch.reqs[i].uid \in holds /\ rs[i] = reqs[batch.reqs[i].uid]
  BY <1>5 DEF Runnable
<1>7. PICK S : Cut(S, rs) BY <1>3, <1>4, <1>6, AllocateCuts
<1>8. InBatch(batch) = {batch.reqs[i].uid : i \in 1..n} /\ InBatch(batch) \subseteq holds
  BY <1>5, InRunnable
<1>9. tree' = tree BY <1>7 DEF Cut
<1>10. ASSUME NEW u \in holds PROVE Advances(u)
  <2>1. PICK r \in Request : r = reqs[u] BY HeldFacts
  <2>2. PICK s \in Request : s = reqs'[u] BY <1>3 DEF PagesInv, PagesRows
  <2>3. s = IF u \in InBatch(batch) THEN Advanced(r) ELSE r BY <1>3, <1>4, <2>1, <2>2
  <2>4. r.cached \in Nat /\ r.device \in Nat /\ s.cached \in Nat /\ r.slot \in Slot BY DEF Request
  <2>5. /\ s.slot = r.slot /\ s.handle = r.handle /\ s.ids = r.ids
        /\ s.cached = IF u \in InBatch(batch) THEN r.device ELSE r.cached
    BY <2>3, AdvancedFacts
  <2>6. /\ \A j \in 1..PagesFor(r.cached) : pageTable'[r.slot][j] = pageTable[r.slot][j]
        /\ r.cached <= s.cached
    <3>1. CASE u \in InBatch(batch)
      <4>1. PICK i \in 1..n : u = batch.reqs[i].uid BY <1>8, <3>1
      <4>2. i \in 1..Len(rs) /\ rs[i] = r BY <1>6, <2>1, <4>1
      <4>3. Grown(r, Handed(S, i), Page)
        <5>1. Grown(rs[i], Handed(S, i), Page) BY <1>4, <1>6, <1>7, <4>2, CutGrows
        <5>2. QED BY <4>2, <5>1
      <4>4. r.cached <= r.device BY <1>6, <4>2 DEF RowsApart
      <4>5. QED BY <2>5, <3>1, <4>3, <4>4 DEF Grown
    <3>2. CASE u \notin InBatch(batch)
      <4>1. \A i \in 1..Len(rs) : rs[i].slot # r.slot
        <5>1. TAKE i \in 1..Len(rs)
        <5>2. batch.reqs[i].uid \in holds /\ rs[i] = reqs[batch.reqs[i].uid] /\ batch.reqs[i].uid # u
          BY <1>6, <1>8, <3>2
        <5>3. QED BY <2>1, <5>2 DEF RowsOK
      <4>2. pageTable'[r.slot] = pageTable[r.slot] BY <1>7, <2>4, <4>1 DEF Cut
      <4>3. QED BY <2>4, <2>5, <3>2, <4>2
    <3>3. QED BY <3>1, <3>2
  <2>7. /\ RowOK(pageTable, r) /\ pageTable[r.slot] \in Seq(Page) BY <1>4, <2>1, <2>4 DEF PagesRows
  <2>8. RowOK(pageTable', s) /\ pageTable'[s.slot] \in Seq(Page)
    <3>1. RowOK(pageTable', s) /\ pageTable' \in [Slot -> Seq(Page)] BY <1>3, <2>2 DEF PagesInv, PagesRows
    <3>2. QED BY <2>4, <2>5, <3>1
  <2>9. ASSUME NEW p \in 0..(r.cached - 1)
        PROVE  TableEntry(pageTable', r.slot, p) = TableEntry(pageTable, r.slot, p)
    <3>1. /\ PageIn(p) \in 1..PagesFor(r.cached)
          /\ TableEntry(pageTable, r.slot, p) = pageTable[r.slot][PageIn(p)] * PageSize + PlaceIn(p)
      BY <2>7, EntryOf
    <3>2. p \in 0..(s.cached - 1) BY <2>4, <2>6
    <3>3. TableEntry(pageTable', s.slot, p) = pageTable'[s.slot][PageIn(p)] * PageSize + PlaceIn(p)
      BY <2>8, <3>2, EntryOf
    <3>4. pageTable'[r.slot][PageIn(p)] = pageTable[r.slot][PageIn(p)] BY <2>6, <3>1
    <3>5. QED BY <2>5, <3>1, <3>3, <3>4
  <2>10. QED BY <2>1, <2>2, <2>4, <2>5, <2>6, <2>9 DEF Advances
<1>11. QED BY <1>3, <1>8, <1>9, <1>10

(* The rows still begin with the pages of the prefixes.                    *)
LEMMA ForwardAliased ==
  ASSUME Going, RowsOK, PagesInv, PagesInv', AliasOK, Forward
  PROVE  AliasOK'
<1>1. /\ \A u \in holds : Advances(u)
      /\ holds' = holds /\ tree' = tree
  BY ForwardAdvances
<1>2. ASSUME NEW u \in holds PROVE Aliased(pageTable', tree'.page, reqs'[u])
  <2>1. Aliased(pageTable, tree.page, reqs[u]) BY DEF AliasOK
  <2>2. Advances(u) BY <1>1
  <2>3. RowOK(pageTable, reqs[u]) BY DEF PagesInv, PagesRows
  <2>4. PICK r \in Request : r = reqs[u] BY <2>2 DEF Advances
  <2>5. Len(r.handle) \in Nat /\ PagesFor(r.cached) \in Nat /\ Len(r.handle) <= PagesFor(r.cached)
    <3>1. r.handle \in Seq(Block) /\ r.cached \in Nat BY DEF Request
    <3>2. RowOK(pageTable, r) BY <2>3, <2>4
    <3>3. Len(r.handle) <= PagesFor(r.cached) BY <3>2 DEF RowOK
    <3>4. PagesFor(r.cached) \in Nat BY <3>1, PagesForTokens
    <3>5. QED BY <3>1, <3>3, <3>4
  <2>6. ASSUME NEW i \in 1..Len(r.handle)
        PROVE  pageTable'[r.slot][i] = tree'.page[SubSeq(r.handle, 1, i)]
    <3>1. i \in 1..PagesFor(r.cached) BY <2>5
    <3>2. pageTable'[r.slot][i] = pageTable[r.slot][i] BY <2>2, <2>4, <3>1 DEF Advances
    <3>3. pageTable[r.slot][i] = tree.page[SubSeq(r.handle, 1, i)] BY <2>1, <2>4 DEF Aliased
    <3>4. QED BY <1>1, <3>2, <3>3
  <2>7. reqs'[u].slot = r.slot /\ reqs'[u].handle = r.handle BY <2>2, <2>4 DEF Advances
  <2>8. QED BY <2>6, <2>7 DEF Aliased
<1>3. QED BY <1>1, <1>2 DEF AliasOK

(* The new tokens of a batch go to places of their own: no other token of  *)
(* the batch, no token of a row, and no page of the cache is there.        *)
OwnPlaces(rs, m, n) ==
  /\ \A i \in 1..m : \A p \in rs[i].cached..(rs[i].device - 1) : \A k \in 1..n : \A q \in 0..(rs[k].device - 1) :
       TableEntry(pageTable', rs[i].slot, p) = TableEntry(pageTable', rs[k].slot, q) => i = k /\ p = q
  /\ \A i \in 1..n : \A p \in rs[i].cached..(rs[i].device - 1) :
       /\ \A u \in holds : \A q \in 0..(reqs[u].cached - 1) :
            TableEntry(pageTable', rs[i].slot, p) # TableEntry(pageTable, reqs[u].slot, q)
       /\ \A k \in DOMAIN tree.page : \A j \in 0..(PageSize - 1) :
            TableEntry(pageTable', rs[i].slot, p) # tree.page[k] * PageSize + j

LEMMA LastPage ==
  ASSUME NEW g \in Page, NEW j \in 0..(PageSize - 1)
  PROVE  /\ g * PageSize + j \in 0..(NumPages * PageSize - 1)
         /\ NumPages * PageSize \in Location /\ NumPages * PageSize \in Nat
<1>1. PICK s \in Nat \ {0} : s = PageSize BY PageSizeAssumption
<1>2. PICK a \in Nat : a = g /\ g <= NumPages - 1 BY NumPagesAssumption DEF Page
<1>3. PICK d \in Nat : NumPages = a + 1 + d
  <2>1. NumPages - a - 1 \in Nat /\ NumPages = a + 1 + (NumPages - a - 1) BY <1>2, NumPagesAssumption
  <2>2. QED BY <2>1
<1>4. /\ (a + 1 + d) * s = a * s + s + d * s /\ d * s \in Nat /\ a * s \in Nat
      /\ (a + 1 + d + 1) * s = a * s + s + d * s + s
  BY SMT
<1>5. QED BY <1>1, <1>2, <1>3, <1>4 DEF Location

LEMMA BatchEntries ==
  ASSUME Going, RowsOK, PagesInv, PagesInv', Forward, NEW rs, NEW m, NEW n, PaddedOf(rs, m, n)
  PROVE  /\ Entries(rs, n) /\ RowsCover(rs, m)
         /\ \A i \in 1..m : /\ reqs'[batch.reqs[i].uid].cached = rs[i].device
                            /\ reqs'[batch.reqs[i].uid].slot = rs[i].slot
                            /\ reqs'[batch.reqs[i].uid].handle = rs[i].handle
         /\ \A i \in (m + 1)..n : /\ TableEntry(pageTable', rs[i].slot, 0) = NumPages * PageSize
                                  /\ rs[i].cached = 0 /\ rs[i].device = 1
<1>1. /\ m \in Nat \ {0} /\ m \in 0..n /\ n \in Nat /\ Padded(rs, m, n) /\ DOMAIN batch.reqs = 1..m
      /\ \A i \in 1..m : /\ batch.reqs[i].uid \in holds /\ rs[i] = reqs[batch.reqs[i].uid]
                         /\ rs[i].device \in Nat
  <2>1. Padded(rs, m, n) BY DEF PaddedOf
  <2>2. \A i \in 1..m : i \in 1..n BY <2>1 DEF Padded
  <2>3. QED BY <2>1, <2>2 DEF PaddedOf, Padded
<1>2. ASSUME NEW i \in 1..m
      PROVE  /\ reqs'[batch.reqs[i].uid].cached = rs[i].device
             /\ reqs'[batch.reqs[i].uid].slot = rs[i].slot
             /\ reqs'[batch.reqs[i].uid].handle = rs[i].handle
             /\ \A p \in 0..(rs[i].device - 1) :
                  /\ TableEntry(pageTable', rs[i].slot, p) \in Location
                  /\ pageTable'[rs[i].slot][PageIn(p)] \in Page
                  /\ TableEntry(pageTable', rs[i].slot, p)
                       = pageTable'[rs[i].slot][PageIn(p)] * PageSize + PlaceIn(p)
  <2>1. PICK u : u = batch.reqs[i].uid OBVIOUS
  <2>2. u \in holds /\ rs[i] = reqs[u] /\ u \in InBatch(batch)
    <3>1. \E k \in 1..Len(batch.reqs) : batch.reqs[k].uid = u
      <4>1. i \in 1..Len(batch.reqs)
        <5>1. batch.reqs \in Seq(BatchEntry) BY DEF Going, Types, Batch
        <5>2. QED BY <1>1, <5>1
      <4>2. QED BY <2>1, <4>1
    <3>2. QED BY <1>1, <2>1, <3>1 DEF InBatch
  <2>3. Advances(u) /\ holds' = holds BY <2>2, ForwardAdvances
  <2>4. PICK s : s = reqs'[u] OBVIOUS
  <2>5. s.cached = rs[i].device /\ s.slot = rs[i].slot /\ s.handle = rs[i].handle /\ s.slot \in Slot
    BY <2>2, <2>3, <2>4 DEF Advances
  <2>6. RowOK(pageTable', s) /\ pageTable' \in [Slot -> Seq(Page)]
    BY <2>2, <2>3, <2>4 DEF PagesInv, PagesRows
  <2>7. ASSUME NEW p \in 0..(s.cached - 1)
        PROVE  /\ TableEntry(pageTable', s.slot, p) \in Location
               /\ pageTable'[s.slot][PageIn(p)] \in Page
               /\ TableEntry(pageTable', s.slot, p)
                    = pageTable'[s.slot][PageIn(p)] * PageSize + PlaceIn(p)
    <3>1. pageTable'[s.slot] \in Seq(Page) BY <2>5, <2>6
    <3>2. QED BY <2>6, <3>1, EntryOf
  <2>8. QED BY <2>1, <2>4, <2>5, <2>7
<1>3. ASSUME NEW i \in (m + 1)..n
      PROVE  /\ TableEntry(pageTable', rs[i].slot, 0) = NumPages * PageSize
             /\ rs[i].cached = 0 /\ rs[i].device = 1
  <2>1. rs[i].slot = NumSlots /\ rs[i].cached = 0 /\ rs[i].device = 1
    BY <1>1 DEF Padded, DummyReq
  <2>2. QED BY <2>1 DEF TableEntry, DummyLocation
<1>4. NumPages * PageSize \in Location
  <2>1. 0 \in Page /\ 0 \in 0..(PageSize - 1) BY NumPagesAssumption, PageSizeAssumption DEF Page
  <2>2. QED BY <2>1, LastPage
<1>5. Entries(rs, n)
  <2>1. ASSUME NEW i \in 1..n, NEW p \in 0..(rs[i].device - 1)
        PROVE  TableEntry(pageTable', rs[i].slot, p) \in Location
    <3>1. CASE i \in 1..m BY <1>2, <3>1
    <3>2. CASE i \in (m + 1)..n
      <4>1. p = 0 BY <1>3, <3>2
      <4>2. QED BY <1>3, <1>4, <3>2, <4>1
    <3>3. QED BY <1>1, <3>1, <3>2
  <2>2. QED BY <2>1 DEF Entries
<1>6. RowsCover(rs, m) BY <1>2 DEF RowsCover
<1>7. QED BY <1>2, <1>3, <1>5, <1>6

LEMMA BatchPlaces ==
  ASSUME Going, RowsOK, PagesInv, PagesInv', AliasOK, Forward,
         NEW rs, NEW m, NEW n, PaddedOf(rs, m, n)
  PROVE  OwnPlaces(rs, m, n)
<1>1. /\ m \in Nat \ {0} /\ m \in 0..n /\ n \in Nat
      /\ \A i \in 1..m : /\ batch.reqs[i].uid \in holds /\ rs[i] = reqs[batch.reqs[i].uid]
                         /\ rs[i].device \in Nat /\ rs[i].cached \in Nat
      /\ \A i, j \in 1..m : batch.reqs[i].uid = batch.reqs[j].uid => i = j
  <2>1. Padded(rs, m, n) BY DEF PaddedOf
  <2>2. \A i \in 1..m : i \in 1..n BY <2>1 DEF Padded
  <2>3. QED BY <2>1, <2>2 DEF PaddedOf, Padded
<1>2. /\ RowsCover(rs, m)
      /\ \A i \in 1..m : /\ reqs'[batch.reqs[i].uid].cached = rs[i].device
                         /\ reqs'[batch.reqs[i].uid].slot = rs[i].slot
                         /\ reqs'[batch.reqs[i].uid].handle = rs[i].handle
      /\ \A i \in (m + 1)..n : /\ TableEntry(pageTable', rs[i].slot, 0) = NumPages * PageSize
                               /\ rs[i].cached = 0 /\ rs[i].device = 1
  BY BatchEntries
<1>3. holds' = holds /\ tree' = tree /\ \A u \in holds : Advances(u) BY ForwardAdvances
<1>4. Apart(pageTable', tree'.page, holds', reqs') BY ForwardAliased, RowsAreApartNext
<1>5. NumPages * PageSize \in Nat
  <2>1. 0 \in Page /\ 0 \in 0..(PageSize - 1) BY NumPagesAssumption, PageSizeAssumption DEF Page
  <2>2. QED BY <2>1, LastPage
<1>6. ASSUME NEW u \in holds, NEW q \in 0..(reqs'[u].cached - 1)
      PROVE  TableEntry(pageTable', reqs'[u].slot, q) # NumPages * PageSize
  <2>1. RowOK(pageTable', reqs'[u]) /\ pageTable'[reqs'[u].slot] \in Seq(Page) BY <1>3, <1>4 DEF Apart
  <2>2. PICK s : s = reqs'[u] OBVIOUS
  <2>3. TableEntry(pageTable', s.slot, q) \in 0..(NumPages * PageSize - 1) BY <2>1, <2>2, EntryOf
  <2>4. QED BY <1>5, <2>2, <2>3
<1>7. \A k \in DOMAIN tree.page : \A j \in 0..(PageSize - 1) :
        tree.page[k] * PageSize + j # NumPages * PageSize
  <2>1. \A k \in DOMAIN tree.page : tree.page[k] \in Page BY <1>3, <1>4 DEF Apart
  <2>2. QED BY <1>5, <2>1, LastPage
<1>8. ASSUME NEW i \in 1..m, NEW p \in rs[i].cached..(rs[i].device - 1), NEW u, u = batch.reqs[i].uid
      PROVE  /\ u \in holds /\ p \in 0..(reqs'[u].cached - 1)
             /\ \A v \in holds : \A q \in 0..(reqs'[v].cached - 1) :
                  TableEntry(pageTable', rs[i].slot, p) = TableEntry(pageTable', reqs'[v].slot, q)
                    => u = v /\ p = q
             /\ \A k \in DOMAIN tree.page : \A j \in 0..(PageSize - 1) :
                  TableEntry(pageTable', rs[i].slot, p) # tree.page[k] * PageSize + j
  <2>1. u \in holds /\ rs[i] = reqs[u] BY <1>1, <1>8
  <2>2. Len(rs[i].handle) * PageSize <= rs[i].cached /\ Len(rs[i].handle) \in Nat
    <3>1. KeyOK(u, reqs[u]) /\ reqs[u] \in Request BY <2>1 DEF PagesInv, PagesRows
    <3>2. reqs[u].handle \in Seq(Block) BY <3>1 DEF Request
    <3>3. QED BY <2>1, <3>1, <3>2 DEF KeyOK
  <2>3. Len(rs[i].handle) * PageSize \in Nat BY <2>2, PageSizeAssumption
  <2>4. p \in (Len(reqs'[u].handle) * PageSize)..(reqs'[u].cached - 1)
    <3>1. PICK h \in Nat : h = Len(rs[i].handle) * PageSize BY <2>3
    <3>2. p \in h..(rs[i].device - 1) BY <1>1, <2>2, <3>1
    <3>3. QED BY <1>2, <1>8, <3>1, <3>2
  <2>5. u \in holds' BY <1>3, <2>1
  <2>6. /\ \A v \in holds' : \A q \in 0..(reqs'[v].cached - 1) :
             TableEntry(pageTable', reqs'[u].slot, p) = TableEntry(pageTable', reqs'[v].slot, q)
               => u = v /\ p = q
        /\ \A k \in DOMAIN tree'.page : \A j \in 0..(PageSize - 1) :
             TableEntry(pageTable', reqs'[u].slot, p) # tree'.page[k] * PageSize + j
        /\ p \in 0..(reqs'[u].cached - 1)
    BY <1>4, <2>4, <2>5, PlacesDiffer
  <2>7. reqs'[u].slot = rs[i].slot BY <1>2, <1>8
  <2>8. QED BY <1>3, <2>1, <2>6, <2>7
<1>9. ASSUME NEW i \in 1..m, NEW p \in rs[i].cached..(rs[i].device - 1),
             NEW k \in 1..n, NEW q \in 0..(rs[k].device - 1),
             TableEntry(pageTable', rs[i].slot, p) = TableEntry(pageTable', rs[k].slot, q)
      PROVE  i = k /\ p = q
  <2>1. PICK u : u = batch.reqs[i].uid OBVIOUS
  <2>2. /\ u \in holds /\ p \in 0..(reqs'[u].cached - 1)
        /\ \A v \in holds : \A x \in 0..(reqs'[v].cached - 1) :
             TableEntry(pageTable', rs[i].slot, p) = TableEntry(pageTable', reqs'[v].slot, x)
               => u = v /\ p = x
    BY <1>8, <2>1
  <2>3. CASE k \in 1..m
    <3>1. PICK v : v = batch.reqs[k].uid OBVIOUS
    <3>2. v \in holds /\ q \in 0..(reqs'[v].cached - 1) /\ reqs'[v].slot = rs[k].slot
      BY <1>1, <1>2, <2>3, <3>1
    <3>3. u = v /\ p = q BY <1>9, <2>2, <3>2
    <3>4. QED BY <1>1, <2>1, <2>3, <3>1, <3>3
  <2>4. CASE k \in (m + 1)..n
    <3>1. q = 0 BY <1>2, <2>4
    <3>2. TableEntry(pageTable', rs[k].slot, q) = NumPages * PageSize BY <1>2, <2>4, <3>1
    <3>3. TableEntry(pageTable', reqs'[u].slot, p) # NumPages * PageSize BY <1>6, <2>2
    <3>4. QED BY <1>2, <1>9, <2>1, <3>2, <3>3
  <2>5. QED BY <1>1, <2>3, <2>4
<1>10. ASSUME NEW i \in 1..n, NEW p \in rs[i].cached..(rs[i].device - 1)
       PROVE  /\ \A u \in holds : \A q \in 0..(reqs[u].cached - 1) :
                   TableEntry(pageTable', rs[i].slot, p) # TableEntry(pageTable, reqs[u].slot, q)
              /\ \A k \in DOMAIN tree.page : \A j \in 0..(PageSize - 1) :
                   TableEntry(pageTable', rs[i].slot, p) # tree.page[k] * PageSize + j
  <2>1. ASSUME NEW v \in holds, NEW q \in 0..(reqs[v].cached - 1)
        PROVE  TableEntry(pageTable', rs[i].slot, p) # TableEntry(pageTable, reqs[v].slot, q)
    <3>1. /\ TableEntry(pageTable', reqs'[v].slot, q) = TableEntry(pageTable, reqs[v].slot, q)
          /\ q \in 0..(reqs'[v].cached - 1) /\ reqs[v].cached \in Nat
      <4>1. Advances(v) BY <1>3
      <4>2. QED BY <4>1 DEF Advances
    <3>2. CASE i \in 1..m
      <4>1. PICK u : u = batch.reqs[i].uid OBVIOUS
      <4>2. SUFFICES ASSUME TableEntry(pageTable', rs[i].slot, p) = TableEntry(pageTable', reqs'[v].slot, q)
                     PROVE  FALSE
        BY <3>1
      <4>3. u = v /\ p = q BY <1>8, <3>1, <3>2, <4>1, <4>2
      <4>4. rs[i].cached = reqs[v].cached BY <1>1, <3>2, <4>1, <4>3
      <4>5. QED BY <1>1, <3>1, <3>2, <4>3, <4>4
    <3>3. CASE i \in (m + 1)..n
      <4>1. p = 0 BY <1>2, <3>3
      <4>2. TableEntry(pageTable', rs[i].slot, p) = NumPages * PageSize BY <1>2, <3>3, <4>1
      <4>3. QED BY <1>6, <3>1, <4>2
    <3>4. QED BY <1>1, <3>2, <3>3
  <2>2. ASSUME NEW k \in DOMAIN tree.page, NEW j \in 0..(PageSize - 1)
        PROVE  TableEntry(pageTable', rs[i].slot, p) # tree.page[k] * PageSize + j
    <3>1. CASE i \in 1..m BY <1>8, <3>1
    <3>2. CASE i \in (m + 1)..n
      <4>1. p = 0 BY <1>2, <3>2
      <4>2. TableEntry(pageTable', rs[i].slot, p) = NumPages * PageSize BY <1>2, <3>2, <4>1
      <4>3. QED BY <1>7, <4>2
    <3>3. QED BY <1>1, <3>1, <3>2
  <2>3. QED BY <2>1, <2>2
<1>11. QED BY <1>9, <1>10 DEF OwnPlaces

(* The memory, and what it has for a request: its tokens in the pool, and  *)
(* in its row what they were computed from.                                *)
Tokens == Token \cup {0}
MemTyped ==
  /\ late = {}
  /\ pool \in [Slot \cup {NumSlots} -> [1..TableWidth -> Tokens]]
  /\ kv \in [Location -> Seq(Tokens)]

RowHolds(mem, table, r) ==
  \A p \in 0..(r.cached - 1) : mem[TableEntry(table, r.slot, p)] = SubSeq(r.ids, 1, p + 1)
PoolHolds(rows, r) == \A p \in 1..Len(r.ids) : rows[r.slot][p] = r.ids[p]

(* A batch as it was prepared.                                             *)
Prep(b, rs) ==
  /\ b.positions = Positions(rs) /\ b.rows = InputRows(rs) /\ b.outLoc = OutLoc(rs)
  /\ b.keys = KeysFor(rs)
  /\ \A f \in DOMAIN Positions(rs) : b.query[f] = QueryOf(rs, f)
  /\ b.last = LastIndices(CuSeqlensQ(rs))

LEMMA PreparedIs == Prep(Prepared, PaddedReqs)
<1>1. PICK rs : rs = PaddedReqs OBVIOUS
<1>2. /\ Prepared.positions = Positions(rs) /\ Prepared.rows = InputRows(rs)
      /\ Prepared.last = LastIndices(CuSeqlensQ(rs))
  BY <1>1 DEF Prepared
<1>3. Prepared.outLoc = OutLoc(rs) BY <1>1 DEF Prepared, OutLoc
<1>4. Prepared.keys = KeysFor(rs) BY <1>1 DEF Prepared, KeysFor
<1>5. \A f \in DOMAIN Positions(rs) : Prepared.query[f] = QueryOf(rs, f)
  BY <1>1 DEF Prepared, QueryOf
<1>6. QED BY <1>1, <1>2, <1>3, <1>4, <1>5 DEF Prep

(* The new tokens of the requests of the batch, with the tokens up to each.*)
Contents(F, w, rs, m, N, c) ==
  /\ F \in SUBSET (1..N) /\ w \in [F -> Seq(Tokens)]
  /\ \A i \in 1..m : \A j \in 1..(rs[i].device - rs[i].cached) :
       /\ c[i - 1] + j \in F
       /\ w[c[i - 1] + j] = SubSeq(rs[i].ids, 1, rs[i].cached + j)
  /\ \A f \in F : \E i \in 1..m : \E j \in 1..(rs[i].device - rs[i].cached) : f = c[i - 1] + j

LEMMA ContentsExist ==
  ASSUME NEW rs, NEW m, NEW n, PaddedOf(rs, m, n), NEW c, Sums(c, SeqlensQ(rs), n)
  PROVE  \E F : \E w : Contents(F, w, rs, m, c[n], c)
<1> DEFINE e == SeqlensQ(rs)
           F == {f \in 1..c[n] : \E i \in 1..m : \E j \in 1..(rs[i].device - rs[i].cached) : f = c[i - 1] + j}
           i_(f) == CHOOSE k \in 1..n : c[k - 1] < f /\ f <= c[k]
           w == [f \in F |-> SubSeq(rs[i_(f)].ids, 1, rs[i_(f)].cached + (f - c[i_(f) - 1]))]
<1>1. Padded(rs, m, n) BY DEF PaddedOf
<1>2. /\ n \in Nat /\ m \in 0..n /\ e \in [1..n -> Nat] /\ Sums(c, e, n)
      /\ \A i \in 1..n : /\ e[i] = rs[i].device - rs[i].cached
                         /\ rs[i].device \in Nat /\ rs[i].cached \in Nat
  BY <1>1, LengthsOfBatch DEF Padded
<1> HIDE DEF e
<1>3. ASSUME NEW i \in 1..m, NEW j \in 1..(rs[i].device - rs[i].cached)
      PROVE  /\ c[i - 1] + j \in F /\ i_(c[i - 1] + j) = i
             /\ SubSeq(rs[i].ids, 1, rs[i].cached + j) \in Seq(Tokens)
             /\ (c[i - 1] + j) - c[i - 1] = j
  <2>1. i \in 1..n /\ j \in 1..e[i] BY <1>2
  <2>2. /\ c[i - 1] \in Nat /\ c[i - 1] + j \in 1..c[n] /\ c[i - 1] + j <= c[i]
        /\ \A k \in 1..n : c[k - 1] < c[i - 1] + j /\ c[i - 1] + j <= c[k] => k = i
    <3>1. PICK d : d = e OBVIOUS
    <3>2. n \in Nat /\ d \in [1..n -> Nat] /\ Sums(c, d, n) BY <1>2, <3>1
    <3>3. i \in 1..n /\ j \in 1..d[i] BY <2>1, <3>1
    <3>4. QED BY ONLY <3>2, <3>3, OnePart
  <2>3. c[i - 1] + j \in F BY <2>2
  <2>4. c[i - 1] < c[i - 1] + j /\ (c[i - 1] + j) - c[i - 1] = j BY <2>1, <2>2
  <2>5. i_(c[i - 1] + j) = i BY <2>1, <2>2, <2>4
  <2>6. SubSeq(rs[i].ids, 1, rs[i].cached + j) \in Seq(Tokens)
    <3>1. PICK r \in Request : r = rs[i] BY DEF PaddedOf
    <3>2. r.ids \in Seq(Token) /\ r.device = Len(r.ids) BY <3>1 DEF PaddedOf, Request
    <3>3. r.ids \in Seq(Tokens) BY <3>2 DEF Tokens
    <3>6. /\ rs[i].cached \in Nat /\ r.device \in Nat /\ rs[i].device = r.device
          /\ j \in 1..(rs[i].device - rs[i].cached)
      BY <1>2, <2>1, <3>1
    <3>4. rs[i].cached + j \in 0..Len(r.ids)
      <4>1. rs[i].cached + j <= r.device /\ rs[i].cached + j \in Nat BY <3>6
      <4>2. QED BY <4>1, <3>2
    <3>5. QED BY <3>1, <3>3, <3>4, FirstPart
  <2>7. QED BY <2>3, <2>4, <2>5, <2>6
<1> HIDE DEF i_
<1>4. \A f \in F : \E i \in 1..m : \E j \in 1..(rs[i].device - rs[i].cached) : f = c[i - 1] + j
  OBVIOUS
<1>5. \A i \in 1..m : \A j \in 1..(rs[i].device - rs[i].cached) :
        w[c[i - 1] + j] = SubSeq(rs[i].ids, 1, rs[i].cached + j)
  <2>1. TAKE i \in 1..m
  <2>2. TAKE j \in 1..(rs[i].device - rs[i].cached)
  <2>3. PICK f \in F : f = c[i - 1] + j BY <1>3
  <2>4. i_(f) = i /\ f - c[i - 1] = j BY <1>3, <2>3
  <2>5. QED BY <2>3, <2>4
<1> HIDE DEF F
<1>6. w \in [F -> Seq(Tokens)]
  <2>1. ASSUME NEW f \in F PROVE w[f] \in Seq(Tokens)
    <3>1. PICK i \in 1..m : \E j \in 1..(rs[i].device - rs[i].cached) : f = c[i - 1] + j BY <1>4
    <3>2. PICK j \in 1..(rs[i].device - rs[i].cached) : f = c[i - 1] + j BY <3>1
    <3>3. QED BY <1>3, <1>5, <3>2
  <2>2. QED BY <2>1
<1>7. F \in SUBSET (1..c[n]) BY DEF F
<1> HIDE DEF w
<1>8. \A i \in 1..m : \A j \in 1..(rs[i].device - rs[i].cached) : c[i - 1] + j \in F BY <1>3
<1>9. Contents(F, w, rs, m, c[n], c) BY ONLY <1>4, <1>5, <1>6, <1>7, <1>8 DEF Contents
<1>10. QED BY <1>9

(* Each new token of a batch finds what it attends to.                     *)
LEMMA TokenAttends ==
  ASSUME NEW rs, NEW m, NEW n, PaddedOf(rs, m, n), Entries(rs, n), RowsCover(rs, m), OwnPlaces(rs, m, n),
         NEW c, Sums(c, SeqlensQ(rs), n), NEW b, Prep(b, rs),
         NEW F, NEW w, Contents(F, w, rs, m, c[n], c),
         NEW input, input = [f \in DOMAIN b.rows |-> pool[b.rows[f]][b.positions[f] + 1]],
         \A u \in holds : Advances(u) /\ RowHolds(kv, pageTable, reqs[u]) /\ PoolHolds(pool, reqs[u]),
         NEW i \in 1..m, NEW j \in 1..(rs[i].device - rs[i].cached)
  PROVE  Attends(b, input, c[n], F, w, c[i - 1] + j)
<1> DEFINE f == c[i - 1] + j
           p == rs[i].cached + j - 1
           E(k, x) == TableEntry(pageTable', rs[k].slot, x)
<1>1. Padded(rs, m, n) /\ SeqlensQ(rs) \in [1..n -> Nat] /\ n \in Nat /\ m \in 0..n
  BY LengthsOfBatch DEF PaddedOf, Padded
<1>2. \A k \in 1..n : /\ rs[k].cached \in Nat /\ rs[k].device \in Nat
                      /\ SeqlensQ(rs)[k] = rs[k].device - rs[k].cached
  BY <1>1, LengthsOfBatch DEF Padded
<1>3. PICK r \in Request : r = rs[i] BY DEF PaddedOf
<1>4. /\ batch.reqs[i].uid \in holds /\ r = reqs[batch.reqs[i].uid] /\ r.device = Len(r.ids)
      /\ r.ids \in Seq(Token)
  BY <1>3 DEF PaddedOf, Request
<1>5. /\ i \in 1..n /\ j \in 1..(r.device - r.cached) /\ p = r.cached + j - 1 /\ p \in Nat
      /\ p + 1 \in 1..r.device /\ p \in 0..(r.device - 1) /\ p + 1 = r.cached + j /\ r.cached \in Nat
      /\ p \in r.cached..(r.device - 1) /\ r.device \in Nat /\ j \in 1..SeqlensQ(rs)[i]
  <2>1. i \in 1..n BY <1>1
  <2>2. /\ r.cached \in Nat /\ r.device \in Nat /\ j \in 1..(r.device - r.cached)
        /\ SeqlensQ(rs)[i] = r.device - r.cached
    BY <1>2, <1>3, <2>1
  <2>3. PICK a \in Nat : a = r.cached BY <2>2
  <2>4. PICK d \in Nat : d = r.device BY <2>2
  <2>5. j \in 1..(d - a) BY <2>2, <2>3, <2>4
  <2>6. /\ a + j - 1 \in Nat /\ (a + j - 1) + 1 \in 1..d /\ a + j - 1 \in 0..(d - 1)
        /\ (a + j - 1) + 1 = a + j /\ a + j - 1 \in a..(d - 1)
    BY <2>5
  <2>7. p = a + j - 1 BY <1>3, <2>3
  <2> HIDE DEF p
  <2>8. QED BY <2>1, <2>2, <2>3, <2>4, <2>6, <2>7
<1>55. i \in 1..n BY <1>1
<1>6. f \in 1..c[n]
  <2>1. PICK e : e = SeqlensQ(rs) OBVIOUS
  <2>2. n \in Nat /\ e \in [1..n -> Nat] /\ Sums(c, e, n) /\ i \in 1..n /\ j \in 1..e[i]
    BY <1>1, <1>5, <2>1
  <2>3. QED BY ONLY <2>2, OnePart
(* What the batch has for the token.                                       *)
<1>7. b.positions[f] = p /\ DOMAIN Positions(rs) = 1..c[n]
  <2>1. Positions(rs)[f] = p /\ DOMAIN Positions(rs) = 1..c[n]
    <3>4. \A k \in 1..n : \A l \in 1..(rs[k].device - rs[k].cached) :
            Positions(rs)[c[k - 1] + l] = rs[k].cached + l - 1
      <4>1. Padded(rs, m, n) /\ Sums(c, SeqlensQ(rs), n) BY <1>1
      <4>2. PositionsAre(rs, n, c) BY ONLY <4>1, PositionsAt
      <4>3. QED BY ONLY <4>2 DEF PositionsAre
    <3>1. Positions(rs)[c[i - 1] + j] = rs[i].cached + j - 1 BY <1>55, <3>4
    <3>2. Positions(rs) \in Seq(Nat) /\ Len(Positions(rs)) = c[n] BY <1>1, PositionsAt DEF PositionsAre
    <3>3. QED BY <3>1, <3>2
  <2>2. QED BY <2>1 DEF Prep
<1>8. b.query[f] = [req |-> i, pos |-> p]
  <2>1. QueryOf(rs, f) = [req |-> i, pos |-> p] BY <1>1, <1>55, QueryAt
  <2>2. QED BY <1>6, <1>7, <2>1 DEF Prep
<1>9. \A k \in 1..n : \A l \in 1..(rs[k].device - rs[k].cached) :
        /\ b.outLoc[c[k - 1] + l] = E(k, rs[k].cached + l - 1)
        /\ rs[k].cached + l - 1 \in rs[k].cached..(rs[k].device - 1)
        /\ rs[k].cached + l - 1 \in 0..(rs[k].device - 1)
  <2>1. TAKE k \in 1..n
  <2>2. TAKE l \in 1..(rs[k].device - rs[k].cached)
  <2>3. OutLoc(rs)[c[k - 1] + l] = E(k, rs[k].cached + l - 1) BY <1>1, OutLocAt
  <2>4. PICK a \in Nat : a = rs[k].cached BY <1>2
  <2>5. PICK d \in Nat : d = rs[k].device BY <1>2
  <2>6. a + l - 1 \in a..(d - 1) /\ a + l - 1 \in 0..(d - 1) BY <2>4, <2>5
  <2>7. QED BY <2>3, <2>4, <2>5, <2>6 DEF Prep
<1>10. b.outLoc[f] = E(i, p) /\ E(i, p) \in Location
  BY <1>3, <1>5, <1>9 DEF Entries
<1>11. \A q \in 1..r.device : b.keys[i][q] = E(i, q - 1)
  BY <1>1, <1>3, KeyPlaces DEF Prep
<1>12. w[f] = SubSeq(r.ids, 1, p + 1) /\ f \in F BY <1>3, <1>5 DEF Contents
<1>13. Len(w[f]) = p + 1 /\ w[f][p + 1] = r.ids[p + 1] 
  <2>1. PICK k \in Nat : k = p + 1 BY <1>5
  <2>2. r.ids \in Seq(Token) /\ k \in 1..Len(r.ids) BY <1>4, <1>5, <2>1
  <2>3. Len(SubSeq(r.ids, 1, k)) = k /\ SubSeq(r.ids, 1, k)[k] = r.ids[k] BY <2>2
  <2>4. QED BY <1>12, <2>1, <2>3
<1>14. input[f] = r.ids[p + 1]
  <2>1. b.rows[f] = r.slot /\ f \in DOMAIN b.rows
    <3>1. InputRows(rs)[c[i - 1] + j] = rs[i].slot BY <1>1, <1>55, RowsAt
    <3>2. DOMAIN InputRows(rs) = 1..c[n] BY <1>1, RowsAt
    <3>3. QED BY <1>3, <1>6, <3>1, <3>2 DEF Prep
  <2>2. p + 1 \in 1..Len(r.ids) BY <1>4, <1>5
  <2>3. pool[r.slot][p + 1] = r.ids[p + 1] BY <1>4, <2>2 DEF PoolHolds
  <2>4. QED BY <1>7, <2>1, <2>3
<1>15. \A g \in 1..c[n] : \E k \in 1..n : \E l \in 1..(rs[k].device - rs[k].cached) : g = c[k - 1] + l
  <2>1. TAKE g \in 1..c[n]
  <2>2. PICK e : e = SeqlensQ(rs) OBVIOUS
  <2>3. n \in Nat /\ e \in [1..n -> Nat] /\ Sums(c, e, n) BY <1>1, <2>2
  <2>6. g \in 1..c[n] OBVIOUS
  <2>4. \E k \in 1..n : \E l \in 1..e[k] : g = c[k - 1] + l BY ONLY <2>3, <2>6, PartOf
  <2>5. QED BY <1>2, <2>2, <2>4
<1> HIDE DEF f, p, E
<1>16. \A g \in (1..c[n]) \ {f} : b.outLoc[g] # b.outLoc[f]
  <2>1. SUFFICES ASSUME NEW g \in 1..c[n], b.outLoc[g] = b.outLoc[f] PROVE g = f OBVIOUS
  <2>2. PICK k \in 1..n : \E l \in 1..(rs[k].device - rs[k].cached) : g = c[k - 1] + l BY <1>15
  <2>3. PICK l \in 1..(rs[k].device - rs[k].cached) : g = c[k - 1] + l BY <2>2
  <2>4. PICK a \in Nat : a = rs[k].cached + l - 1 BY <1>2
  <2>5. E(i, p) = E(k, a) /\ a \in 0..(rs[k].device - 1) BY <1>9, <1>10, <2>1, <2>3, <2>4
  <2>6. i = k /\ p = a BY <1>3, <1>5, <2>5 DEF OwnPlaces, E
  <2>7. l = j
    <3>1. PICK s \in Nat : s = r.cached BY <1>5
    <3>2. p = s + j - 1 /\ a = s + l - 1 BY <1>3, <2>4, <2>6, <3>1 DEF p
    <3>3. PICK d \in Int : d = rs[i].device - rs[i].cached /\ j \in 1..d BY <1>2, <1>55
    <3>4. l \in Int /\ j \in Int BY <1>2, <3>3
    <3>5. s + j - 1 = s + l - 1 BY <2>6, <3>2
    <3>6. QED BY <3>1, <3>4, <3>5
  <2>8. QED BY <2>3, <2>6, <2>7 DEF f
<1>17. ASSUME NEW q \in 1..p, q <= r.cached
       PROVE  /\ b.keys[i][q] \in Location /\ \A g \in 1..c[n] : b.outLoc[g] # b.keys[i][q]
              /\ kv[b.keys[i][q]] = SubSeq(w[f], 1, q)
  <2>1. q \in 1..r.device /\ q - 1 \in 0..(r.cached - 1) /\ q - 1 \in 0..(r.device - 1)
        /\ (q - 1) + 1 = q /\ q \in 0..(p + 1) /\ p + 1 \in 0..Len(r.ids)
    <3>1. PICK a \in Nat : a = r.cached BY <1>5
    <3>2. PICK d \in Nat : d = r.device BY <1>5
    <3>3. PICK z \in Nat : z = p BY <1>5
    <3>4. a <= z /\ z + 1 \in 1..d /\ q \in 1..z /\ q <= a /\ d = Len(r.ids) BY <1>4, <1>5, <1>17, <3>1, <3>2, <3>3
    <3>5. /\ q \in 1..d /\ q - 1 \in 0..(a - 1) /\ q - 1 \in 0..(d - 1)
          /\ (q - 1) + 1 = q /\ q \in 0..(z + 1) /\ z + 1 \in 0..d
      BY <3>4
    <3>6. QED BY <3>1, <3>2, <3>3, <3>4, <3>5
  <2>2. PICK u \in holds : u = batch.reqs[i].uid BY <1>4
  <2>3. b.keys[i][q] = TableEntry(pageTable', r.slot, q - 1) BY <1>3, <1>11, <2>1 DEF E
  <2>4. TableEntry(pageTable', r.slot, q - 1) = TableEntry(pageTable, r.slot, q - 1)
    BY <1>4, <2>1, <2>2 DEF Advances
  <2>5. b.keys[i][q] \in Location BY <1>3, <1>5, <2>1, <2>3 DEF Entries
  <2>6. ASSUME NEW g \in 1..c[n] PROVE b.outLoc[g] # b.keys[i][q]
    <3>1. PICK k \in 1..n : \E l \in 1..(rs[k].device - rs[k].cached) : g = c[k - 1] + l BY <1>15
    <3>2. PICK l \in 1..(rs[k].device - rs[k].cached) : g = c[k - 1] + l BY <3>1
    <3>3. PICK a : a = rs[k].cached + l - 1 OBVIOUS
    <3>4. b.outLoc[g] = TableEntry(pageTable', rs[k].slot, a) /\ a \in rs[k].cached..(rs[k].device - 1)
      BY <1>9, <3>2, <3>3 DEF E
    <3>5. TableEntry(pageTable', rs[k].slot, a) # TableEntry(pageTable, reqs[u].slot, q - 1)
      BY <1>4, <2>1, <2>2, <3>4 DEF OwnPlaces
    <3>6. QED BY <1>4, <2>2, <2>3, <2>4, <3>4, <3>5
  <2>7. kv[TableEntry(pageTable, r.slot, q - 1)] = SubSeq(r.ids, 1, q)
    BY <1>4, <2>1, <2>2 DEF RowHolds
  <2>8. SubSeq(w[f], 1, q) = SubSeq(r.ids, 1, q) BY <1>4, <1>12, <2>1, PrefixOfPrefix
  <2>9. QED BY <2>3, <2>4, <2>5, <2>6, <2>7, <2>8
<1>18. ASSUME NEW q \in 1..p, ~(q <= r.cached)
       PROVE  \E g \in F : g < f /\ b.keys[i][q] = b.outLoc[g] /\ w[g] = SubSeq(w[f], 1, q)
  <2>1. PICK l \in Int : l = q - r.cached BY <1>5
  <2>2. /\ l \in 1..(r.device - r.cached) /\ l < j /\ q = r.cached + l /\ r.cached + l - 1 = q - 1
        /\ q \in 1..r.device /\ q \in 0..(p + 1) /\ p + 1 \in 0..Len(r.ids)
    <3>1. PICK a \in Nat : a = r.cached BY <1>5
    <3>2. PICK d \in Nat : d = r.device BY <1>5
    <3>3. PICK z \in Nat : z = p BY <1>5
    <3>4. /\ z + 1 = a + j /\ z + 1 \in 1..d /\ q \in 1..z /\ ~(q <= a) /\ d = Len(r.ids)
          /\ l = q - a /\ j \in 1..(d - a)
      BY <1>4, <1>5, <1>18, <2>1, <3>1, <3>2, <3>3
    <3>5. /\ l \in 1..(d - a) /\ l < j /\ q = a + l /\ a + l - 1 = q - 1
          /\ q \in 1..d /\ q \in 0..(z + 1) /\ z + 1 \in 0..d
      BY <3>4
    <3>6. QED BY <3>1, <3>2, <3>3, <3>4, <3>5
  <2>3. PICK g : g = c[i - 1] + l OBVIOUS
  <2>4. g \in F /\ w[g] = SubSeq(r.ids, 1, q) BY <1>3, <2>2, <2>3 DEF Contents
  <2>5. c[i - 1] \in Nat BY <1>1, <1>5 DEF Sums
  <2>6. g < f BY <2>2, <2>3, <2>5 DEF f
  <2>7. b.outLoc[g] = E(i, q - 1) BY <1>3, <1>5, <1>9, <2>2, <2>3
  <2>8. SubSeq(w[f], 1, q) = SubSeq(r.ids, 1, q) BY <1>4, <1>12, <2>2, PrefixOfPrefix
  <2>9. QED BY <1>11, <2>2, <2>4, <2>6, <2>7, <2>8
<1>19. b.query[f].pos = p /\ b.query[f].req = i BY <1>8
<1>20. b.keys[i][p + 1] = b.outLoc[f] BY <1>5, <1>10, <1>11
<1>21. Attends(b, input, c[n], F, w, f)
  BY <1>5, <1>7, <1>10, <1>13, <1>14, <1>16, <1>17, <1>18, <1>19, <1>20 DEF Attends
<1>22. QED BY <1>21 DEF f

(* What attention computes for a token is always some text or Garbage.     *)
LEMMA AttentionTyped ==
  ASSUME NEW n \in Nat, NEW b, NEW input, DOMAIN b.outLoc = 1..n, NEW f \in 1..n,
         input[f] \in Tokens,
         NEW mem \in [Location -> Seq(Tokens)],
         \/ b.query[f].pos = 0
         \/ b.keys[b.query[f].req][b.query[f].pos] \in Location
  PROVE  AttendTo(mem, b, f, input[f]) \in Seq(Tokens)
<1> DEFINE keys == b.keys[b.query[f].req]
           before == IF b.query[f].pos = 0 THEN <<>> ELSE mem[keys[b.query[f].pos]]
<1>1. before \in Seq(Tokens) OBVIOUS
<1>2. <<>> \in Seq(Tokens) OBVIOUS
<1>3. AttendTo(mem, b, f, input[f]) \in {Append(before, input[f]), <<>>} BY DEF AttendTo, Garbage
<1> HIDE DEF before
<1>4. Append(before, input[f]) \in Seq(Tokens) BY <1>1
<1>5. QED BY <1>2, <1>3, <1>4

(* A token has a column in its row, and an answer has as many as it needs. *)
LEMMA WidthOK ==
  ASSUME Going, NEW u \in holds
  PROVE  /\ 1 <= TableWidth /\ Len(Prompt[u]) < TableWidth /\ Len(Prompt[u]) \in Nat
         /\ OutputLen(u) \in Nat /\ FullLength(u) <= TableWidth /\ TableWidth \in Nat
<1>1. u \in Uids /\ ~TooLong(u) BY DEF Going, Types, HoldsOK
<1>2. Len(Prompt[u]) \in Nat /\ MaxTokens[u] \in Nat \ {0} BY <1>1, RequestAssumption
<1>3. MaxSeqLen \in Nat /\ TableWidth \in Nat /\ TableWidth >= MaxSeqLen
  BY BudgetAssumption, TableWidthAssumption
<1>4. Len(Prompt[u]) < MaxSeqLen BY <1>1, <1>2, <1>3 DEF TooLong
<1>5. OutputLen(u) \in Nat /\ OutputLen(u) <= MaxSeqLen - Len(Prompt[u])
  <2>1. PICK a \in Int : a = MaxTokens[u] /\ a > 0 BY <1>2
  <2>2. PICK b \in Int : b = MaxSeqLen - Len(Prompt[u]) /\ b > 0
    <3>1. PICK x \in Nat : x = Len(Prompt[u]) BY <1>2
    <3>2. PICK y \in Nat : y = MaxSeqLen BY <1>3
    <3>3. x < y BY <1>4, <3>1, <3>2
    <3>4. y - x \in Int /\ y - x > 0 BY <3>3
    <3>5. QED BY <3>1, <3>2, <3>4
  <2>3. OutputLen(u) = Min({a, b}) BY <2>1, <2>2 DEF OutputLen
  <2>4. Min({a, b}) \in {a, b} /\ Min({a, b}) <= b BY MinOfTwo
  <2>5. QED BY <2>1, <2>2, <2>3, <2>4
<1>6. QED BY <1>2, <1>3, <1>4, <1>5 DEF FullLength

(* The forward pass computes each new token of the batch from the tokens   *)
(* up to it, stores that where the row has it, and nothing elsewhere.      *)
Stored(after, rs, m, n) ==
  /\ after \in [Location -> Seq(Tokens)]
  /\ \A i \in 1..m : \A p \in rs[i].cached..(rs[i].device - 1) :
       after[TableEntry(pageTable', rs[i].slot, p)] = SubSeq(rs[i].ids, 1, p + 1)
  /\ \A l \in Location :
       (\A i \in 1..n : \A p \in rs[i].cached..(rs[i].device - 1) :
          TableEntry(pageTable', rs[i].slot, p) # l) => after[l] = kv[l]

LEMMA InputTyped ==
  ASSUME NEW rs, NEW m, NEW n, PaddedOf(rs, m, n),
         NEW c, Sums(c, SeqlensQ(rs), n), NEW b, Prep(b, rs),
         NEW F, NEW w, Contents(F, w, rs, m, c[n], c),
         NEW input, input = [f \in DOMAIN b.rows |-> pool[b.rows[f]][b.positions[f] + 1]],
         pool \in [Slot \cup {NumSlots} -> [1..TableWidth -> Tokens]], 1 <= TableWidth,
         TableWidth \in Nat,
         \A f \in F : Attends(b, input, c[n], F, w, f),
         \A f \in 1..c[n] : b.outLoc[f] \in Location
  PROVE  \A f \in 1..c[n] : /\ input[f] \in Tokens
                            /\ \/ b.query[f].pos = 0
                               \/ b.keys[b.query[f].req][b.query[f].pos] \in Location
<1>1. /\ Padded(rs, m, n) /\ n \in Nat /\ m \in 0..n
      /\ \A i \in 1..n : rs[i].cached \in Nat /\ rs[i].device \in Nat
      /\ \A i \in (m + 1)..n : rs[i] = DummyReq
  BY DEF PaddedOf, Padded
<1>2. /\ SeqlensQ(rs) \in [1..n -> Nat]
      /\ \A i \in 1..n : SeqlensQ(rs)[i] = rs[i].device - rs[i].cached
  BY <1>1, LengthsOfBatch
<1>3. TAKE f \in 1..c[n]
<1>4. CASE f \in F
  <2>1. PICK p : p = b.positions[f] OBVIOUS
  <2>2. /\ p \in Nat /\ b.query[f].pos = p /\ Len(w[f]) = p + 1 /\ input[f] = w[f][p + 1]
        /\ \A q \in 1..p : \/ \E g \in F : b.keys[b.query[f].req][q] = b.outLoc[g]
                           \/ b.keys[b.query[f].req][q] \in Location
    BY <1>4, <2>1 DEF Attends
  <2>3. w[f] \in Seq(Tokens) /\ F \in SUBSET (1..c[n]) BY <1>4 DEF Contents
  <2>4. input[f] \in Tokens
    <3>1. p + 1 \in 1..Len(w[f]) BY <2>2
    <3>2. QED BY <2>2, <2>3, <3>1
  <2>5. p = 0 \/ p \in 1..p BY <2>2
  <2>6. QED BY <2>2, <2>3, <2>4, <2>5
<1>5. CASE f \notin F
  <2>1. PICK e : e = SeqlensQ(rs) OBVIOUS
  <2>2. n \in Nat /\ e \in [1..n -> Nat] /\ Sums(c, e, n) /\ f \in 1..c[n] BY <1>1, <1>2, <2>1
  <2>3. \E k \in 1..n : \E l \in 1..e[k] : f = c[k - 1] + l BY ONLY <2>2, PartOf
  <2>4. PICK k \in 1..n : \E l \in 1..e[k] : f = c[k - 1] + l BY <2>3
  <2>5. PICK l \in 1..e[k] : f = c[k - 1] + l BY <2>4
  <2>6. e[k] = rs[k].device - rs[k].cached BY <1>2, <2>1
  <2>7. k \notin 1..m
    <3>1. SUFFICES ASSUME k \in 1..m PROVE FALSE OBVIOUS
    <3>2. f \in F BY <2>5, <2>6, <3>1 DEF Contents
    <3>3. QED BY <1>5, <3>2
  <2>8. k \in (m + 1)..n BY <1>1, <2>7
  <2>9. rs[k].cached = 0 /\ rs[k].device = 1 /\ rs[k].slot = NumSlots BY <1>1, <2>8 DEF DummyReq
  <2>10. l = 1 /\ e[k] = 1 BY <2>6, <2>9
  <2>11. l \in 1..(rs[k].device - rs[k].cached) /\ rs[k].cached + l - 1 = 0 BY <2>9, <2>10
  <2>12. b.positions[f] = 0 /\ DOMAIN Positions(rs) = 1..c[n]
    <3>1. Padded(rs, m, n) /\ Sums(c, SeqlensQ(rs), n) BY <1>1
    <3>8. PositionsAre(rs, n, c) BY ONLY <3>1, PositionsAt
    <3>6. \A i \in 1..n : \A j \in 1..(rs[i].device - rs[i].cached) :
            Positions(rs)[c[i - 1] + j] = rs[i].cached + j - 1
      BY ONLY <3>8 DEF PositionsAre
    <3>7. Positions(rs) \in Seq(Nat) /\ Len(Positions(rs)) = c[n]
      BY ONLY <3>8 DEF PositionsAre
    <3>3. Positions(rs)[f] = 0 BY <2>5, <2>11, <3>6
    <3>4. DOMAIN Positions(rs) = 1..c[n] BY <3>7
    <3>5. QED BY <3>3, <3>4 DEF Prep
  <2>13. b.query[f].pos = 0
    <3>1. QueryOf(rs, c[k - 1] + l) = [req |-> k, pos |-> rs[k].cached + l - 1]
      BY <1>1, <2>11, QueryAt
    <3>2. b.query[f] = QueryOf(rs, f) BY <2>12 DEF Prep
    <3>3. QED BY <2>5, <2>11, <3>1, <3>2
  <2>14. b.rows[f] = NumSlots /\ f \in DOMAIN b.rows
    <3>1. Padded(rs, m, n) /\ Sums(c, SeqlensQ(rs), n) BY <1>1
    <3>2. InputRows(rs)[c[k - 1] + l] = rs[k].slot BY <2>11, <3>1, RowsAt
    <3>3. DOMAIN InputRows(rs) = 1..c[n] BY ONLY <3>1, RowsAt
    <3>4. InputRows(rs)[f] = rs[k].slot BY <2>5, <2>11, <3>2
    <3>5. QED BY <2>9, <3>3, <3>4 DEF Prep
  <2>15. input[f] = pool[NumSlots][1] BY <2>12, <2>14
  <2>16. 1 \in 1..TableWidth OBVIOUS
  <2>17. QED BY <2>13, <2>15, <2>16
<1>6. QED BY <1>4, <1>5

InParts(c, e, n) == n \in Nat /\ e \in [1..n -> Nat] /\ Sums(c, e, n)

LEMMA PartOfEach ==
  ASSUME NEW n, NEW e, NEW c, InParts(c, e, n)
  PROVE  \A f \in 1..c[n] : \E i \in 1..n : \E j \in 1..e[i] : f = c[i - 1] + j
<1>1. TAKE f \in 1..c[n]
<1>2. n \in Nat /\ e \in [1..n -> Nat] /\ Sums(c, e, n) /\ f \in 1..c[n] BY DEF InParts
<1>3. QED BY ONLY <1>2, PartOf

LEMMA ComputesExactly ==
  ASSUME NEW rs, NEW m, NEW n, PaddedOf(rs, m, n), Entries(rs, n), RowsCover(rs, m), OwnPlaces(rs, m, n),
         NEW b, Prep(b, rs),
         NEW input, input = [f \in DOMAIN b.rows |-> pool[b.rows[f]][b.positions[f] + 1]],
         pool \in [Slot \cup {NumSlots} -> [1..TableWidth -> Tokens]],
         kv \in [Location -> Seq(Tokens)], 1 <= TableWidth, TableWidth \in Nat,
         \A u \in holds : Advances(u) /\ RowHolds(kv, pageTable, reqs[u]) /\ PoolHolds(pool, reqs[u])
  PROVE  /\ Stored(Computed(b, input).kv, rs, m, n)
         /\ \A i \in 1..m : Computed(b, input).from[b.last[i]] = rs[i].ids
<1>1. /\ Padded(rs, m, n) /\ n \in Nat /\ m \in 0..n
      /\ \A i \in 1..n : rs[i].cached \in Nat /\ rs[i].device \in Nat /\ rs[i].cached < rs[i].device
  BY DEF PaddedOf, Padded
<1>2. PICK e : e = SeqlensQ(rs) OBVIOUS
<1>3. e \in [1..n -> Nat] /\ \A i \in 1..n : e[i] = rs[i].device - rs[i].cached
  BY <1>1, <1>2, LengthsOfBatch
<1>4. PICK c : Sums(c, e, n) BY <1>1, <1>3, SumsExist
<1>5. Sums(c, SeqlensQ(rs), n) BY <1>2, <1>4
<1>6. PICK F : \E w : Contents(F, w, rs, m, c[n], c) BY <1>5, ContentsExist
<1>7. PICK w : Contents(F, w, rs, m, c[n], c) BY <1>6
<1>24. \A f \in 1..c[n] : \E k \in 1..n : \E j \in 1..e[k] : f = c[k - 1] + j
  <2>1. InParts(c, e, n) BY <1>1, <1>3, <1>4 DEF InParts
  <2>2. QED BY ONLY <2>1, PartOfEach
<1>8. PICK N \in Nat : N = c[n]
  <2>1. c[n] \in Nat BY <1>1, <1>4 DEF Sums
  <2>2. QED BY <2>1
<1>9. F \in SUBSET (1..N) /\ w \in [F -> Seq(Tokens)]
      /\ \A f \in F : \E i \in 1..m : \E j \in 1..(rs[i].device - rs[i].cached) : f = c[i - 1] + j
  BY <1>7, <1>8 DEF Contents
<1>10. \A f \in F : Attends(b, input, N, F, w, f)
  <2>1. TAKE f \in F
  <2>2. PICK i \in 1..m : \E j \in 1..(rs[i].device - rs[i].cached) : f = c[i - 1] + j BY <1>9
  <2>3. PICK j \in 1..(rs[i].device - rs[i].cached) : f = c[i - 1] + j BY <2>2
  <2>4. Attends(b, input, c[n], F, w, c[i - 1] + j) BY <1>5, <1>7, TokenAttends
  <2>5. QED BY <1>8, <2>3, <2>4
<1>11. /\ b.outLoc \in Seq(Location) /\ DOMAIN b.outLoc = 1..N
       /\ \A i \in 1..n : \A j \in 1..(rs[i].device - rs[i].cached) :
            b.outLoc[c[i - 1] + j] = TableEntry(pageTable', rs[i].slot, rs[i].cached + j - 1)
  <2>1. OutLoc(rs) \in Seq(Location) /\ DOMAIN OutLoc(rs) = 1..c[n] BY <1>1, <1>5, OutLocAt
  <2>2. \A i \in 1..n : \A j \in 1..(rs[i].device - rs[i].cached) :
          OutLoc(rs)[c[i - 1] + j] = TableEntry(pageTable', rs[i].slot, rs[i].cached + j - 1)
    <3>1. TAKE i \in 1..n
    <3>2. TAKE j \in 1..(rs[i].device - rs[i].cached)
    <3>4. OutLoc(rs)[c[i - 1] + j] = TableEntry(pageTable', rs[i].slot, rs[i].cached + j - 1)
      BY <1>1, <1>5, OutLocAt, SMTT(30)
    <3>3. QED BY <3>4
  <2>3. QED BY <1>8, <2>1, <2>2 DEF Prep
<1>12. \A f \in 1..N : b.outLoc[f] \in Location BY <1>11
<1>13. DOMAIN input = 1..N
  <2>1. DOMAIN InputRows(rs) = 1..c[n] BY <1>1, <1>5, RowsAt
  <2>2. QED BY <1>8, <2>1 DEF Prep
<1>14. \A f \in 1..N : /\ input[f] \in Tokens
                       /\ \/ b.query[f].pos = 0
                          \/ b.keys[b.query[f].req][b.query[f].pos] \in Location
  <2>1. /\ \A f \in F : Attends(b, input, c[n], F, w, f)
        /\ \A f \in 1..c[n] : b.outLoc[f] \in Location
    BY <1>8, <1>10, <1>12
  <2>2. QED BY <1>5, <1>7, <1>8, <2>1, InputTyped
<1>15. \A mem \in [Location -> Seq(Tokens)] : \A f \in 1..N : AttendTo(mem, b, f, input[f]) \in Seq(Tokens)
  BY <1>11, <1>14, AttentionTyped
<1>16. \E K : \E R : Attended(Tokens, K, R, b, input, N, F, w)
  <2>1. PICK K \in [0..N -> [Location -> Seq(Tokens)]], R \in [1..N -> Seq(Tokens)] : Chain(K, R, b, input, N)
    BY <1>13, <1>15, ComputedChain
  <2>2. DOMAIN b.outLoc = 1..N BY <1>11
  <2>3. Attended(Tokens, K, R, b, input, N, F, w) BY <1>9, <1>10, <2>1, <2>2 DEF Attended
  <2>4. QED BY <2>3
<1>25. PICK K : \E R : Attended(Tokens, K, R, b, input, N, F, w) BY <1>16
<1>26. PICK R : Attended(Tokens, K, R, b, input, N, F, w) BY <1>25
<1>27. /\ K \in [0..N -> [Location -> Seq(Tokens)]] /\ R \in [1..N -> Seq(Tokens)]
       /\ Chain(K, R, b, input, N)
  BY <1>26 DEF Attended
<1>17. /\ \A f \in F : R[f] = w[f] /\ K[N][b.outLoc[f]] = w[f]
       /\ \A l \in Location : (\A g \in 1..N : b.outLoc[g] # l) => K[N][l] = kv[l]
  BY <1>26, ChainExact
<1>18. /\ Computed(b, input).kv = K[N] /\ \A f \in 1..N : Computed(b, input).from[f] = R[f]
  BY <1>27 DEF Chain
<1>19. K[N] \in [Location -> Seq(Tokens)]
  <2>1. N \in 0..N OBVIOUS
  <2>2. QED BY <1>27, <2>1
<1>20. ASSUME NEW i \in 1..m, NEW p \in rs[i].cached..(rs[i].device - 1)
       PROVE  K[N][TableEntry(pageTable', rs[i].slot, p)] = SubSeq(rs[i].ids, 1, p + 1)
  <2>10. i \in 1..n BY <1>1
  <2>1. PICK x \in Nat : x = rs[i].cached BY <1>1, <2>10
  <2>2. PICK d \in Nat : d = rs[i].device BY <1>1, <2>10
  <2>3. PICK j \in 1..(d - x) : p = x + j - 1 /\ x + j = p + 1
    <3>1. p - x + 1 \in 1..(d - x) /\ p = x + (p - x + 1) - 1 /\ x + (p - x + 1) = p + 1
      <4>1. p \in x..(d - 1) BY <2>1, <2>2
      <4>2. PICK z \in Int : z = p /\ z \in x..(d - 1) BY <4>1
      <4>3. z - x + 1 \in 1..(d - x) /\ z = x + (z - x + 1) - 1 /\ x + (z - x + 1) = z + 1 BY <4>2
      <4>4. QED BY <4>2, <4>3
    <3>2. QED BY <3>1
  <2>4. /\ c[i - 1] + j \in F /\ w[c[i - 1] + j] = SubSeq(rs[i].ids, 1, p + 1)
    BY <1>7, <2>1, <2>2, <2>3 DEF Contents
  <2>5. i \in 1..n BY <1>1
  <2>6. b.outLoc[c[i - 1] + j] = TableEntry(pageTable', rs[i].slot, p)
    BY <1>11, <2>1, <2>2, <2>3, <2>5
  <2>7. QED BY <1>17, <2>4, <2>6
<1>21. ASSUME NEW l \in Location,
              \A i \in 1..n : \A p \in rs[i].cached..(rs[i].device - 1) :
                TableEntry(pageTable', rs[i].slot, p) # l
       PROVE  K[N][l] = kv[l]
  <2>1. ASSUME NEW g \in 1..N PROVE b.outLoc[g] # l
    <3>2. \E k \in 1..n : \E j \in 1..e[k] : g = c[k - 1] + j BY <1>8, <1>24
    <3>3. PICK k \in 1..n : \E j \in 1..e[k] : g = c[k - 1] + j BY <3>2
    <3>4. PICK j \in 1..e[k] : g = c[k - 1] + j BY <3>3
    <3>5. PICK x \in Nat : x = rs[k].cached BY <1>1
    <3>6. PICK d \in Nat : d = rs[k].device BY <1>1
    <3>7. j \in 1..(d - x) BY <1>3, <3>4, <3>5, <3>6
    <3>8. x + j - 1 \in x..(d - 1) BY <3>7
    <3>9. b.outLoc[g] = TableEntry(pageTable', rs[k].slot, x + j - 1)
      BY <1>11, <3>4, <3>5, <3>6, <3>7
    <3>10. QED BY <1>21, <3>5, <3>6, <3>8, <3>9
  <2>2. QED BY <1>17, <2>1
<1>22. ASSUME NEW i \in 1..m PROVE R[b.last[i]] = rs[i].ids /\ b.last[i] \in 1..N
  <2>10. i \in 1..n BY <1>1
  <2>1. PICK x \in Nat : x = rs[i].cached BY <1>1, <2>10
  <2>2. PICK d \in Nat : d = rs[i].device BY <1>1, <2>10
  <2>11. x < d BY <1>1, <2>1, <2>2, <2>10
  <2>3. d - x \in 1..(d - x) /\ x + (d - x) = d BY <2>11
  <2>4. LastIndices(CuSeqlensQ(rs))[i] = c[i - 1] + (rs[i].device - rs[i].cached)
    BY <1>1, <1>5, LastAt DEF PaddedOf
  <2>5. b.last[i] = c[i - 1] + (d - x) BY <2>1, <2>2, <2>4 DEF Prep
  <2>6. c[i - 1] + (d - x) \in F /\ w[c[i - 1] + (d - x)] = SubSeq(rs[i].ids, 1, x + (d - x))
    BY <1>7, <2>1, <2>2, <2>3 DEF Contents
  <2>7. rs[i].ids \in Seq(Token) /\ d = Len(rs[i].ids)
    <3>1. PICK r \in Request : r = rs[i] BY DEF PaddedOf
    <3>2. r.ids \in Seq(Token) /\ r.device = Len(r.ids) BY <3>1 DEF PaddedOf, Request
    <3>3. QED BY <2>2, <3>1, <3>2
  <2>8. SubSeq(rs[i].ids, 1, d) = rs[i].ids BY <2>7
  <2>9. QED BY <1>9, <1>17, <2>3, <2>5, <2>6, <2>8
<1>23. Stored(K[N], rs, m, n) BY <1>19, <1>20, <1>21 DEF Stored
<1>28. QED BY <1>18, <1>22, <1>23

(* What is stored for the cache, and what the results to come were sampled *)
(* from and left in the pool.                                              *)
CacheHolds(mem, page) ==
  \A k \in DOMAIN page : \A j \in 1..PageSize :
    mem[page[k] * PageSize + (j - 1)] = SubSeq(FlattenSeq(k), 1, (Len(k) - 1) * PageSize + j)

SampledFrom(i, r) ==
  /\ sampled[i].from = r.ids
  /\ pool[r.slot][Len(r.ids) + 1] = sampled[i].token

SampledOK ==
  pc = "process" =>
    \A i \in cursor..Len(batch.reqs) :
      ~batch.reqs[i].chunked => SampledFrom(i, reqs[batch.reqs[i].uid])

(* The inductive invariant of the memory in normal_loop.                   *)
RowsHold == \A u \in holds : RowHolds(kv, pageTable, reqs[u]) /\ PoolHolds(pool, reqs[u])
ExactNow == MemTyped /\ RowsHold /\ AliasOK /\ CacheHolds(kv, tree.page) /\ SampledOK
ExactInv == /\ pc = "allocate" => batch.reqs # <<>>
            /\ ~spoilt => ExactNow

(* Nothing is computed that is not known.                                  *)
LEMMA KnownTokens ==
  ASSUME Going, ~Overlap, NEW u \in holds
  PROVE  /\ reqs[u] \in Request /\ reqs[u].cached \in Nat /\ reqs[u].ids \in Seq(Token)
         /\ reqs[u].cached <= Len(reqs[u].ids)
<1> USE DEF Going
<1>1. u \in Uids /\ reqs[u] \in Request BY HeldFacts
<1>2. /\ reqs[u].cached \in Nat /\ reqs[u].device \in Nat /\ reqs[u].ids \in Seq(Token)
      /\ Len(reqs[u].ids) \in Nat
  BY <1>1 DEF Request
<1>3. u \in running \cup Late \cup Fresh \/ ChunkWaits(u) BY DEF HoldsOK
<1>4. Late = {}
  <2>1. inflight.reqs = <<>> BY DEF Phases, NoBatch
  <2>2. cursor \in Nat \ {0} BY DEF Types
  <2>3. QED BY <2>1, <2>2 DEF Late, Open
<1>5. CASE Prefilled(u)
  <2>1. DecodeLengths(u) BY <1>1, <1>5 DEF LengthsOK
  <2>2. reqs[u].device = Len(reqs[u].ids) + ToCome(u) /\ reqs[u].cached = reqs[u].device - 1
    BY <2>1 DEF DecodeLengths
  <2>3. ToCome(u) \in {0, 1} BY <1>4 DEF ToCome
  <2>4. QED BY <1>1, <1>2, <2>2, <2>3
<1>6. CASE Begun(u)
  <2>1. BegunLengths(u) BY <1>1, <1>6 DEF LengthsOK
  <2>2. reqs[u].cached < reqs[u].device /\ reqs[u].device = Len(reqs[u].ids)
    BY <2>1 DEF BegunLengths
  <2>3. QED BY <1>1, <1>2, <2>2
<1>7. CASE ChunkWaits(u) /\ ~Begun(u)
  <2>1. ChunkLengths(u) BY <1>1, <1>7 DEF LengthsOK
  <2>2. QED BY <1>1, <1>2, <2>1 DEF ChunkLengths
<1>8. CASE u \in Fresh
  <2>1. PICK i : i \in 1..Len(batch.reqs) /\ batch.reqs[i].uid = u
    <3>1. cursor \in Nat \ {0} /\ Len(batch.reqs) \in Nat BY DEF Types, Batch
    <3>2. QED BY <1>8, <3>1 DEF Fresh, Open
  <2>2. u \in InBatch(batch) BY <2>1 DEF InBatch
  <2>3. batch.phase # "none"
    <3>1. batch.phase = "none" => Len(batch.reqs) = 0 BY DEF Phases, BatchOK
    <3>2. QED BY <2>1, <3>1
  <2>4. batch.phase \in {"prefill", "decode"} BY <2>3 DEF Types, Batch
  <2>5. pc # "receive" BY <1>8, Receiving
  <2>6. pc \in {"admit", "allocate", "process"} BY <2>5 DEF Types
  <2>7. Prefilled(u) \/ Begun(u) BY <1>8, <2>2, <2>4, <2>6 DEF Prefilled, Begun
  <2>8. QED BY <1>5, <1>6, <2>7
<1>9. CASE u \in running \cup Late BY <1>5, <1>9 DEF Prefilled
<1>10. QED BY <1>3, <1>6, <1>7, <1>8, <1>9

(* Without overlap no write is late: the pool is what it is.               *)
LEMMA NothingLands ==
  ASSUME MemTyped
  PROVE  AllLanded(pool, late) = pool
<1>1. /\ late = {} /\ pool \in [Slot \cup {NumSlots} -> [1..TableWidth -> Tokens]] BY DEF MemTyped
<1>2. \A s \in Slot \cup {NumSlots} : Landed(pool[s], {w \in late : w.row = s}) = pool[s]
  <2>1. TAKE s \in Slot \cup {NumSlots}
  <2>2. {w \in late : w.row = s} = {} BY <1>1
  <2>3. Landed(pool[s], {}) = [p \in 1..TableWidth |-> pool[s][p]] BY DEF Landed
  <2>4. pool[s] \in [1..TableWidth -> Tokens] BY <1>1
  <2>5. QED BY <2>2, <2>3, <2>4
<1>3. DOMAIN pool = Slot \cup {NumSlots} BY <1>1
<1>4. AllLanded(pool, late) = [s \in Slot \cup {NumSlots} |-> pool[s]] BY <1>2, <1>3 DEF AllLanded
<1>5. QED BY <1>1, <1>4

(* What a batch that is run leaves in the memory.                          *)
Writes(tokens) ==
  {[row |-> BatchReqs[i].slot, token |-> tokens[i],
    pos |-> WritePosition(BatchReqs[i], batch.reqs[i].chunked)] : i \in DOMAIN batch.reqs}

LEMMA RunStores ==
  ASSUME Going, RowsOK, PagesInv, PagesInv', ~Overlap, pc = "allocate", batch.reqs # <<>>,
         Forward, RunBatch, MemTyped, RowsHold, AliasOK,
         NEW rs, rs = PaddedReqs, NEW m, m = Len(batch.reqs), NEW n, n = PaddedSize
  PROVE  /\ PaddedOf(rs, m, n) /\ OwnPlaces(rs, m, n) /\ Stored(kv', rs, m, n)
         /\ late' = {} /\ spoilt' = spoilt
         /\ \E tokens \in [DOMAIN batch.reqs -> Vocab] :
              /\ pool' = AllLanded(pool, Writes(tokens))
              /\ \A i \in 1..m : /\ sampled'[i].from = rs[i].ids
                                 /\ sampled'[i].token = tokens[i]
<1>1. PaddedOf(rs, m, n) BY PaddedBatch DEF PagesInv
<1>2. Entries(rs, n) /\ RowsCover(rs, m) BY <1>1, BatchEntries
<1>3. OwnPlaces(rs, m, n) BY <1>1, BatchPlaces
<1>4. \A u \in holds : Advances(u) BY ForwardAdvances
<1>5. 1 <= TableWidth /\ TableWidth \in Nat
  <2>1. 1 \in 1..m /\ \A i \in 1..m : batch.reqs[i].uid \in holds BY <1>1 DEF PaddedOf
  <2>2. PICK u \in holds : u = batch.reqs[1].uid BY <2>1
  <2>3. QED BY WidthOK
<1> DEFINE input == [f \in DOMAIN Prepared.rows |-> pool[Prepared.rows[f]][Prepared.positions[f] + 1]]
           after == Computed(Prepared, input)
<1>6. Prep(Prepared, rs) BY PreparedIs
<1>7. Stored(after.kv, rs, m, n) /\ \A i \in 1..m : after.from[Prepared.last[i]] = rs[i].ids
  <2>1. PICK b : b = Prepared OBVIOUS
  <2>2. PICK inp : inp = input OBVIOUS
  <2>3. inp = [f \in DOMAIN b.rows |-> pool[b.rows[f]][b.positions[f] + 1]] BY <2>1, <2>2
  <2>4. Prep(b, rs) BY <1>6, <2>1
  <2>5. /\ pool \in [Slot \cup {NumSlots} -> [1..TableWidth -> Tokens]]
        /\ kv \in [Location -> Seq(Tokens)]
    BY DEF MemTyped
  <2>6. \A u \in holds : Advances(u) /\ RowHolds(kv, pageTable, reqs[u]) /\ PoolHolds(pool, reqs[u])
    BY <1>4 DEF RowsHold
  <2>7. /\ Stored(Computed(b, inp).kv, rs, m, n)
        /\ \A i \in 1..m : Computed(b, inp).from[b.last[i]] = rs[i].ids
    BY <1>1, <1>2, <1>3, <1>5, <2>3, <2>4, <2>5, <2>6, ComputesExactly
  <2>8. QED BY <2>1, <2>2, <2>7
<1>8. AllLanded(pool, late) = pool BY NothingLands
<1>9. \E tokens \in [DOMAIN batch.reqs -> Vocab] :
        /\ kv' = after.kv
        /\ sampled' = [i \in DOMAIN batch.reqs |-> [token |-> tokens[i], from |-> after.from[Prepared.last[i]]]]
        /\ pool' = AllLanded(pool, Writes(tokens))
        /\ late' = {} /\ spoilt' = spoilt
  <2> DEFINE before == AllLanded(pool, late)
             out == Computed(Prepared, [f \in DOMAIN Prepared.rows |->
                                          before[Prepared.rows[f]][Prepared.positions[f] + 1]])
  <2>1. \E tokens \in [DOMAIN batch.reqs -> Vocab] :
          /\ kv' = out.kv
          /\ sampled' = [i \in DOMAIN batch.reqs |->
                          [token |-> tokens[i], from |-> out.from[Prepared.last[i]]]]
          /\ pool' = IF Overlap THEN before ELSE AllLanded(before, Writes(tokens))
          /\ late' = IF Overlap THEN Writes(tokens) ELSE {}
          /\ UNCHANGED <<lastSampled, spoilt>>
    BY Zenon DEF RunBatch, Writes
  <2>2. before = pool BY <1>8
  <2>3. out = after BY <2>2
  <2> HIDE DEF before, out, after
  <2>4. QED BY <2>1, <2>2, <2>3
<1> HIDE DEF after
<1>10. PICK tokens \in [DOMAIN batch.reqs -> Vocab] :
        /\ kv' = after.kv
        /\ sampled' = [i \in DOMAIN batch.reqs |-> [token |-> tokens[i], from |-> after.from[Prepared.last[i]]]]
        /\ pool' = AllLanded(pool, Writes(tokens))
        /\ late' = {} /\ spoilt' = spoilt
  BY <1>9
<1>11. DOMAIN batch.reqs = 1..m BY <1>1 DEF PaddedOf
<1>12. \A i \in 1..m : sampled'[i].from = rs[i].ids /\ sampled'[i].token = tokens[i]
  BY <1>7, <1>10, <1>11
<1>13. QED BY <1>1, <1>3, <1>7, <1>10, <1>12

(* Where the samples of a batch are written: in the row of their request,  *)
(* behind all it knows; and right behind it, when they will be read.       *)
WritesOf(slot, tokens, pos, m) ==
  {[row |-> slot[i], token |-> tokens[i], pos |-> pos[i]] : i \in 1..m}

OneEach(slot, tokens, pos, m) ==
  /\ TableWidth \in Nat /\ m \in Nat /\ slot \in [1..m -> Slot]
  /\ tokens \in [1..m -> Tokens] /\ pos \in [1..m -> 0..(TableWidth - 1)]
  /\ \A i, j \in 1..m : slot[i] = slot[j] => i = j

Lands(after, slot, tokens, pos, m) ==
  /\ after \in [Slot \cup {NumSlots} -> [1..TableWidth -> Tokens]]
  /\ \A s \in Slot : \A p \in 1..TableWidth :
       (\A i \in 1..m : slot[i] = s => pos[i] # p - 1) => after[s][p] = pool[s][p]
  /\ \A i \in 1..m : after[slot[i]][pos[i] + 1] = tokens[i]

LEMMA SampleLands ==
  ASSUME MemTyped, NEW m, NEW slot, NEW tokens, NEW pos, OneEach(slot, tokens, pos, m),
         NEW after, after = AllLanded(pool, WritesOf(slot, tokens, pos, m))
  PROVE  Lands(after, slot, tokens, pos, m)
<1>0. /\ TableWidth \in Nat /\ m \in Nat /\ slot \in [1..m -> Slot]
      /\ tokens \in [1..m -> Tokens] /\ pos \in [1..m -> 0..(TableWidth - 1)]
      /\ \A i, j \in 1..m : slot[i] = slot[j] => i = j
  BY DEF OneEach
<1> DEFINE W == WritesOf(slot, tokens, pos, m)
           R(s) == {w \in W : w.row = s}
           Hit(s, p) == \E w \in R(s) : w.pos = p - 1
           It(s, p) == CHOOSE w \in R(s) : w.pos = p - 1
<1>1. pool \in [Slot \cup {NumSlots} -> [1..TableWidth -> Tokens]] BY DEF MemTyped
<1>2. after = [s \in Slot \cup {NumSlots} |-> [p \in 1..TableWidth |->
                 IF Hit(s, p) THEN It(s, p).token ELSE pool[s][p]]]
  BY <1>1 DEF AllLanded, Landed
<1>3. \A w \in W : \E i \in 1..m : w.row = slot[i] /\ w.token = tokens[i] /\ w.pos = pos[i]
  BY DEF WritesOf
<1>4. ASSUME NEW i \in 1..m PROVE \E w \in W : w.row = slot[i] /\ w.token = tokens[i] /\ w.pos = pos[i]
  <2>1. [row |-> slot[i], token |-> tokens[i], pos |-> pos[i]] \in W BY DEF WritesOf
  <2> HIDE DEF W
  <2>2. QED BY <2>1
<1> HIDE DEF W
<1>5. \A s : \A w \in R(s) : w \in W /\ w.row = s OBVIOUS
<1>6. \A s : \A w \in W : w.row = s => w \in R(s) OBVIOUS
<1> HIDE DEF R
<1>7. \A s : \A p : Hit(s, p) => It(s, p) \in R(s) /\ It(s, p).pos = p - 1 OBVIOUS
<1> HIDE DEF It
<1>8. ASSUME NEW s \in Slot \cup {NumSlots}, NEW p \in 1..TableWidth
      PROVE  (IF Hit(s, p) THEN It(s, p).token ELSE pool[s][p]) \in Tokens
  <2>1. pool[s][p] \in Tokens BY <1>1
  <2>2. Hit(s, p) => It(s, p).token \in Tokens BY <1>0, <1>3, <1>5, <1>7
  <2> HIDE DEF Hit
  <2>3. QED BY <2>1, <2>2
<1>9. ASSUME NEW s \in Slot, NEW p \in 1..TableWidth, \A i \in 1..m : slot[i] = s => pos[i] # p - 1
      PROVE  ~Hit(s, p)
  BY <1>3, <1>5, <1>9
<1>10. ASSUME NEW i \in 1..m
       PROVE  /\ pos[i] + 1 \in 1..TableWidth /\ Hit(slot[i], pos[i] + 1)
              /\ It(slot[i], pos[i] + 1).token = tokens[i]
  <2>1. pos[i] \in Nat /\ pos[i] + 1 \in 1..TableWidth /\ (pos[i] + 1) - 1 = pos[i]
    <3>1. pos[i] \in 0..(TableWidth - 1) BY <1>0
    <3>2. QED BY <1>0, <3>1
  <2>2. Hit(slot[i], pos[i] + 1) BY <1>4, <1>6, <2>1
  <2>3. It(slot[i], pos[i] + 1) \in R(slot[i]) BY <1>7, <2>2
  <2>4. PICK j \in 1..m : /\ It(slot[i], pos[i] + 1).row = slot[j]
                          /\ It(slot[i], pos[i] + 1).token = tokens[j]
    BY <1>3, <1>5, <2>3
  <2>5. j = i BY <1>0, <1>5, <2>3, <2>4
  <2>6. QED BY <2>1, <2>2, <2>4, <2>5
<1> HIDE DEF Hit
<1>11. after \in [Slot \cup {NumSlots} -> [1..TableWidth -> Tokens]] BY <1>2, <1>8
<1>12. \A s \in Slot : \A p \in 1..TableWidth :
         (\A i \in 1..m : slot[i] = s => pos[i] # p - 1) => after[s][p] = pool[s][p]
  BY <1>2, <1>9
<1>13. ASSUME NEW i \in 1..m PROVE after[slot[i]][pos[i] + 1] = tokens[i]
  <2>1. slot[i] \in Slot BY <1>0
  <2>2. QED BY <1>2, <1>10, <2>1
<1>14. QED BY <1>11, <1>12, <1>13 DEF Lands

LEMMA WritesBehind ==
  ASSUME Going, RowsOK, PagesRows, ~Overlap, pc = "allocate",
         NEW rs, NEW m, m = Len(batch.reqs), NEW n, PaddedOf(rs, m, n),
         NEW i \in 1..m
  PROVE  /\ BatchReqs[i] = rs[i] /\ TableWidth \in Nat
         /\ Len(rs[i].ids) \in 0..(TableWidth - 1)
         /\ WritePosition(BatchReqs[i], batch.reqs[i].chunked) \in 0..(TableWidth - 1)
         /\ WritePosition(BatchReqs[i], batch.reqs[i].chunked) >= Len(rs[i].ids)
         /\ ~batch.reqs[i].chunked =>
              WritePosition(BatchReqs[i], batch.reqs[i].chunked) = Len(rs[i].ids)
<1>1. PICK u : u = batch.reqs[i].uid OBVIOUS
<1>2. PICK r \in Request : r = rs[i] /\ r.device = Len(r.ids) /\ r = reqs[u] /\ u \in holds
  BY <1>1 DEF PaddedOf
<1>3. /\ Runnable(BatchReqs, m) BY BatchRunnable
<1>4. BatchReqs[i] = r BY <1>1, <1>2, <1>3 DEF Runnable
<1>5. u \in InBatch(batch) BY <1>1 DEF InBatch
<1>6. /\ u \in Uids /\ r.device <= FullLength(u) - 1 BY <1>2, <1>5, BatchLengths
<1>7. FullLength(u) <= TableWidth /\ TableWidth \in Nat /\ OutputLen(u) \in Nat /\ Len(Prompt[u]) \in Nat
  BY <1>2, WidthOK
<1>8. ~TooLong(u) BY <1>2 DEF Going, HoldsOK
<1>9. OutputLen(u) \in Nat \ {0} BY <1>6, <1>8, RequestFacts
<1>10. r.device \in Nat /\ r.maxDevice \in Nat /\ r.device = Len(r.ids) BY <1>2 DEF Request
<1>11. r.device \in 0..(TableWidth - 1)
  <2>1. FullLength(u) \in Nat BY <1>7 DEF FullLength
  <2>2. QED BY <1>6, <1>7, <1>10, <2>1
<1>12. ASSUME ~batch.reqs[i].chunked PROVE CanDecode(r)
  <2>1. i \in 1..Len(batch.reqs) /\ cursor = 1 BY DEF Going, Phases
  <2>2. u \in Fresh BY <1>1, <1>6, <1>12, <2>1 DEF Fresh, Open
  <2>3. CASE batch.phase = "decode"
    <3>1. u \in running BY <2>2, <2>3 DEF OpenOK, Going
    <3>2. DecodeLengths(u) BY <1>6, <3>1 DEF LengthsOK, Prefilled, Going
    <3>3. r.maxDevice = FullLength(u) /\ FullLength(u) \in Nat BY <1>2, <1>7, <3>2 DEF DecodeLengths, FullLength
    <3>4. r.maxDevice - r.device > 0 BY <1>6, <1>10, <3>3
    <3>5. QED BY <3>4 DEF CanDecode, RemainLen
  <2>4. CASE batch.phase = "prefill"
    <3>1. Begun(u) BY <1>5, <2>4 DEF Begun
    <3>2. BegunLengths(u) BY <1>6, <3>1 DEF LengthsOK, Going
    <3>3. r.maxDevice = r.device + OutputLen(u) BY <1>2, <3>2 DEF BegunLengths
    <3>4. r.maxDevice - r.device > 0 BY <1>9, <1>10, <3>3
    <3>5. QED BY <3>4 DEF CanDecode, RemainLen
  <2>5. QED BY <2>3, <2>4 DEF PaddedOf
<1>13. WritePosition(r, batch.reqs[i].chunked)
         = IF CanDecode(r) /\ ~batch.reqs[i].chunked THEN r.device ELSE TableWidth - 1
  BY DEF WritePosition
<1>14. PICK d \in Nat : d = r.device BY <1>10
<1>15. d \in 0..(TableWidth - 1) /\ TableWidth - 1 \in 0..(TableWidth - 1) /\ TableWidth - 1 >= d
  BY <1>7, <1>11, <1>14
<1>16. QED BY <1>2, <1>4, <1>7, <1>10, <1>12, <1>13, <1>14, <1>15

(* The page of a key is in the memory.                                     *)
LEMMA PagesStored ==
  ASSUME NEW g \in Page, NEW j \in 1..PageSize
  PROVE  g * PageSize + (j - 1) \in Location /\ j - 1 \in 0..(PageSize - 1)
<1>1. PageSize \in Nat \ {0} BY PageSizeAssumption
<1>2. j - 1 \in 0..(PageSize - 1) BY <1>1
<1>3. PICK i \in 0..(PageSize - 1) : i = j - 1 BY <1>2
<1>4. /\ g * PageSize + i \in 0..(NumPages * PageSize - 1)
      /\ NumPages * PageSize \in Location /\ NumPages * PageSize \in Nat
  BY LastPage
<1>5. PICK x \in Nat : x = NumPages * PageSize BY <1>4
<1>6. PICK y : y = (NumPages + 1) * PageSize - 1 OBVIOUS
<1>7. x \in 0..y /\ g * PageSize + i \in 0..(x - 1) BY <1>4, <1>5, <1>6 DEF Location
<1>8. (NumPages + 1) * PageSize - 1 \in Int BY <1>1, NumPagesAssumption
<1>9. g * PageSize + i \in 0..y
  <2>1. PICK z : z = g * PageSize + i OBVIOUS
  <2>2. y \in Int BY <1>6, <1>8
  <2>3. z \in 0..(x - 1) BY <1>7, <2>1
  <2>4. z \in 0..y BY <1>7, <2>2, <2>3
  <2>5. QED BY <2>1, <2>4
<1>10. QED BY <1>2, <1>3, <1>6, <1>9 DEF Location

(* The rows of the requests after a batch.                                 *)
LEMMA RunRows ==
  ASSUME NEW rs, NEW m, NEW n, PaddedOf(rs, m, n), OwnPlaces(rs, m, n), Stored(kv', rs, m, n),
         DOMAIN batch.reqs = 1..m, RowsHold, PagesInv, m = Len(batch.reqs),
         NEW u \in holds, Advances(u)
  PROVE  RowHolds(kv', pageTable', reqs'[u])
<1>1. PICK r \in Request : r = reqs[u] BY DEF Advances
<1>2. PICK s \in Request : s = reqs'[u] BY DEF Advances
<1>3. /\ s.slot = r.slot /\ s.ids = r.ids /\ r.cached \in Nat /\ s.cached \in Nat /\ r.slot \in Slot
      /\ s.cached = IF u \in InBatch(batch) THEN r.device ELSE r.cached
      /\ \A p \in 0..(r.cached - 1) : TableEntry(pageTable', r.slot, p) = TableEntry(pageTable, r.slot, p)
  BY <1>1, <1>2 DEF Advances
<1>4. ASSUME NEW p \in 0..(s.cached - 1)
      PROVE  kv'[TableEntry(pageTable', s.slot, p)] = SubSeq(s.ids, 1, p + 1)
  <2>1. CASE p < r.cached
    <3>1. p \in 0..(r.cached - 1) BY <1>3, <1>4, <2>1
    <3>2. PICK l : l = TableEntry(pageTable, r.slot, p) OBVIOUS
    <3>3. l \in Location
      <4>1. RowOK(pageTable, r) /\ pageTable[r.slot] \in Seq(Page) BY <1>1, <1>3 DEF PagesInv, PagesRows
      <4>2. QED BY <3>1, <3>2, <4>1, EntryOf
    <3>4. \A i \in 1..n : \A q \in rs[i].cached..(rs[i].device - 1) : TableEntry(pageTable', rs[i].slot, q) # l
      BY <1>1, <3>1, <3>2 DEF OwnPlaces
    <3>5. kv'[l] = kv[l] BY <3>3, <3>4 DEF Stored
    <3>6. kv[l] = SubSeq(r.ids, 1, p + 1) BY <1>1, <3>1, <3>2 DEF RowsHold, RowHolds
    <3>7. QED BY <1>3, <3>1, <3>2, <3>5, <3>6
  <2>2. CASE ~(p < r.cached)
    <3>1. u \in InBatch(batch) /\ s.cached = r.device BY <1>3, <1>4, <2>2
    <3>2. PICK i \in 1..m : u = batch.reqs[i].uid BY <3>1 DEF InBatch
    <3>3. rs[i] = r BY <1>1, <3>2 DEF PaddedOf
    <3>4. p \in r.cached..(r.device - 1) BY <1>3, <1>4, <2>2, <3>1
    <3>5. kv'[TableEntry(pageTable', r.slot, p)] = SubSeq(r.ids, 1, p + 1)
      BY <3>3, <3>4 DEF Stored
    <3>6. QED BY <1>3, <3>5
  <2>3. QED BY <2>1, <2>2
<1>5. QED BY <1>2, <1>4 DEF RowHolds

(* No batch stores anything in the cache.                                  *)
LEMMA RunCache ==
  ASSUME NEW rs, NEW m, NEW n, OwnPlaces(rs, m, n), Stored(kv', rs, m, n),
         CacheHolds(kv, tree.page), tree' = tree, PagesInv
  PROVE  CacheHolds(kv', tree'.page)
<1>1. PICK page : page = tree.page OBVIOUS
<1>2. ASSUME NEW k \in DOMAIN page, NEW j \in 1..PageSize
      PROVE  kv'[page[k] * PageSize + (j - 1)] = kv[page[k] * PageSize + (j - 1)]
  <2>1. page[k] \in Page BY <1>1 DEF PagesInv, PagesRows
  <2>2. PICK g \in Page : g = page[k] BY <2>1
  <2>3. PICK l : l = g * PageSize + (j - 1) OBVIOUS
  <2>4. l \in Location /\ j - 1 \in 0..(PageSize - 1) BY <2>3, PagesStored
  <2>5. \A i \in 1..n : \A q \in rs[i].cached..(rs[i].device - 1) : TableEntry(pageTable', rs[i].slot, q) # l
    BY <1>1, <2>2, <2>3, <2>4 DEF OwnPlaces
  <2>6. kv'[l] = kv[l] BY <2>4, <2>5 DEF Stored
  <2>7. QED BY <2>2, <2>3, <2>6
<1>3. \A k \in DOMAIN page : \A j \in 1..PageSize :
        kv[page[k] * PageSize + (j - 1)] = SubSeq(FlattenSeq(k), 1, (Len(k) - 1) * PageSize + j)
  BY <1>1 DEF CacheHolds
<1>4. tree'.page = page BY <1>1
<1>5. QED BY <1>2, <1>3, <1>4 DEF CacheHolds

(* A row of the pool is wide enough for what is known of a request.        *)
LEMMA KnownFits ==
  ASSUME Going, ~Overlap, NEW u \in holds
  PROVE  Len(reqs[u].ids) \in 0..TableWidth
<1> USE DEF Going
<1>1. u \in Uids /\ reqs[u] \in Request BY HeldFacts
<1>2. /\ reqs[u].cached \in Nat /\ reqs[u].device \in Nat /\ Len(reqs[u].ids) \in Nat
  BY <1>1 DEF Request
<1>3. u \in running \cup Late \cup Fresh \/ ChunkWaits(u) BY DEF HoldsOK
<1>4. /\ Len(Prompt[u]) < TableWidth /\ Len(Prompt[u]) \in Nat
      /\ FullLength(u) <= TableWidth /\ TableWidth \in Nat /\ OutputLen(u) \in Nat
  BY WidthOK
<1>5. FullLength(u) \in Nat BY <1>4 DEF FullLength
<1>6. CASE Prefilled(u)
  <2>1. DecodeLengths(u) BY <1>1, <1>6 DEF LengthsOK
  <2>2. reqs[u].device = Len(reqs[u].ids) + ToCome(u) /\ reqs[u].device <= FullLength(u)
    BY <2>1 DEF DecodeLengths
  <2>3. ToCome(u) \in Nat BY DEF ToCome
  <2>4. QED BY <1>2, <1>4, <1>5, <2>2, <2>3
<1>7. CASE Begun(u)
  <2>1. BegunLengths(u) BY <1>1, <1>7 DEF LengthsOK
  <2>2. reqs[u].device <= Len(Prompt[u]) /\ reqs[u].device = Len(reqs[u].ids)
    BY <1>2, <1>4, <2>1 DEF BegunLengths
  <2>3. QED BY <1>2, <1>4, <2>2
<1>8. CASE ChunkWaits(u) /\ ~Begun(u)
  <2>1. ChunkLengths(u) BY <1>1, <1>8 DEF LengthsOK
  <2>2. QED BY <1>2, <1>4, <2>1 DEF ChunkLengths
<1>9. CASE u \in Fresh
  <2>1. PICK i : i \in 1..Len(batch.reqs) /\ batch.reqs[i].uid = u
    <3>1. cursor \in Nat \ {0} /\ Len(batch.reqs) \in Nat BY DEF Types, Batch
    <3>2. QED BY <1>9, <3>1 DEF Fresh, Open
  <2>2. u \in InBatch(batch) BY <2>1 DEF InBatch
  <2>3. batch.phase # "none"
    <3>1. batch.phase = "none" => Len(batch.reqs) = 0 BY DEF Phases, BatchOK
    <3>2. QED BY <2>1, <3>1
  <2>4. batch.phase \in {"prefill", "decode"} BY <2>3 DEF Types, Batch
  <2>5. pc # "receive" BY <1>9, Receiving
  <2>6. pc \in {"admit", "allocate", "process"} BY <2>5 DEF Types
  <2>7. Prefilled(u) \/ Begun(u) BY <1>9, <2>2, <2>4, <2>6 DEF Prefilled, Begun
  <2>8. QED BY <1>6, <1>7, <2>7
<1>10. CASE u \in running \cup Late BY <1>6, <1>10 DEF Prefilled
<1>11. QED BY <1>3, <1>7, <1>8, <1>9, <1>10

(* The pool after a batch: what the requests know is still there, and the  *)
(* samples are where they will be looked for.                              *)
PoolAfter(rs, m, tokens) ==
  /\ pool' \in [Slot \cup {NumSlots} -> [1..TableWidth -> Tokens]]
  /\ \A u \in holds : PoolHolds(pool', reqs[u])
  /\ \A i \in 1..m : ~batch.reqs[i].chunked => pool'[rs[i].slot][Len(rs[i].ids) + 1] = tokens[i]

LEMMA RunPool ==
  ASSUME Going, RowsOK, PagesRows, ~Overlap, pc = "allocate", MemTyped, RowsHold,
         NEW rs, NEW m, m = Len(batch.reqs), NEW n, PaddedOf(rs, m, n),
         NEW tokens \in [DOMAIN batch.reqs -> Vocab], pool' = AllLanded(pool, Writes(tokens))
  PROVE  PoolAfter(rs, m, tokens)
<1>1. /\ DOMAIN batch.reqs = 1..m /\ m \in Nat \ {0}
      /\ \A i \in 1..m : /\ batch.reqs[i].uid \in holds /\ rs[i] = reqs[batch.reqs[i].uid]
                         /\ rs[i] \in Request
      /\ \A i, j \in 1..m : batch.reqs[i].uid = batch.reqs[j].uid => i = j
  BY DEF PaddedOf
<1> DEFINE slot == [i \in 1..m |-> rs[i].slot]
           pos == [i \in 1..m |-> WritePosition(BatchReqs[i], batch.reqs[i].chunked)]
<1>2. \A i \in 1..m :
        /\ BatchReqs[i] = rs[i] /\ TableWidth \in Nat /\ Len(rs[i].ids) \in 0..(TableWidth - 1)
        /\ pos[i] \in 0..(TableWidth - 1) /\ pos[i] >= Len(rs[i].ids)
        /\ ~batch.reqs[i].chunked => pos[i] = Len(rs[i].ids)
  BY WritesBehind
<1>3. Writes(tokens) = WritesOf(slot, tokens, pos, m)
  <2>1. \A i \in 1..m : /\ BatchReqs[i].slot = slot[i]
                       /\ WritePosition(BatchReqs[i], batch.reqs[i].chunked) = pos[i]
    BY <1>2
  <2>2. DOMAIN batch.reqs = 1..m BY <1>1
  <2> HIDE DEF slot, pos
  <2>3. QED BY ONLY <2>1, <2>2, Zenon DEF Writes, WritesOf
<1>4. slot \in [1..m -> Slot]
  <2>1. \A i \in 1..m : rs[i].slot \in Slot BY <1>1 DEF Request
  <2>2. QED BY <2>1
<1>5. tokens \in [1..m -> Tokens] BY <1>1 DEF Tokens, Token
<1>6. pos \in [1..m -> 0..(TableWidth - 1)] BY <1>2
<1>7. \A i, j \in 1..m : slot[i] = slot[j] => i = j
  <2>1. TAKE i, j \in 1..m
  <2>2. HAVE slot[i] = slot[j]
  <2>3. batch.reqs[i].uid = batch.reqs[j].uid BY <1>1, <2>2 DEF RowsOK
  <2>4. QED BY <1>1, <2>3
<1>8. TableWidth \in Nat
  <2>1. 1 \in 1..m BY <1>1
  <2>2. QED BY <1>2, <2>1
<1>9. \A i \in 1..m : slot[i] = rs[i].slot OBVIOUS
<1> HIDE DEF slot, pos
<1>10. /\ pool' \in [Slot \cup {NumSlots} -> [1..TableWidth -> Tokens]]
       /\ \A s \in Slot : \A p \in 1..TableWidth :
            (\A i \in 1..m : slot[i] = s => pos[i] # p - 1) => pool'[s][p] = pool[s][p]
       /\ \A i \in 1..m : pool'[slot[i]][pos[i] + 1] = tokens[i]
  <2>1. m \in Nat BY <1>1
  <2>2. pool' = AllLanded(pool, WritesOf(slot, tokens, pos, m)) BY <1>3
  <2>3. OneEach(slot, tokens, pos, m) BY <1>4, <1>5, <1>6, <1>7, <1>8, <2>1 DEF OneEach
  <2>4. Lands(pool', slot, tokens, pos, m) BY <2>2, <2>3, SampleLands
  <2>5. QED BY <2>4 DEF Lands
<1>11. ASSUME NEW u \in holds, NEW p \in 1..Len(reqs[u].ids)
       PROVE  pool'[reqs[u].slot][p] = reqs[u].ids[p]
  <2>1. reqs[u] \in Request /\ reqs[u].slot \in Slot BY DEF PagesRows, Request
  <2>2. pool[reqs[u].slot][p] = reqs[u].ids[p] BY DEF RowsHold, PoolHolds
  <2>3. \A i \in 1..m : slot[i] = reqs[u].slot => rs[i] = reqs[u] BY <1>1, <1>9 DEF RowsOK
  <2>4. p \in 1..TableWidth
    <3>1. Len(reqs[u].ids) \in 0..TableWidth BY KnownFits
    <3>2. QED BY <1>8, <3>1
  <2>5. ASSUME NEW i \in 1..m, slot[i] = reqs[u].slot PROVE pos[i] # p - 1
    <3>1. rs[i] = reqs[u] BY <2>3, <2>5
    <3>2. pos[i] >= Len(reqs[u].ids) /\ pos[i] \in 0..(TableWidth - 1) BY <1>2, <3>1
    <3>3. Len(reqs[u].ids) \in Nat BY <2>1 DEF Request
    <3>4. QED BY <1>8, <3>2, <3>3
  <2>6. QED BY <1>10, <2>1, <2>2, <2>4, <2>5
<1>12. ASSUME NEW i \in 1..m, ~batch.reqs[i].chunked
       PROVE  pool'[rs[i].slot][Len(rs[i].ids) + 1] = tokens[i]
  BY <1>2, <1>9, <1>10, <1>12
<1>13. QED BY <1>10, <1>11, <1>12 DEF PoolAfter, PoolHolds

(* The forward pass keeps the invariant of the memory.                     *)
LEMMA RunExact ==
  ASSUME Going, RowsOK, PagesInv, PagesInv', ~Overlap, pc = "allocate", batch.reqs # <<>>,
         Forward, RunBatch, ExactNow
  PROVE  ExactNow' /\ spoilt' = spoilt /\ pc' = "process"
<1>1. /\ MemTyped /\ RowsHold /\ AliasOK /\ CacheHolds(kv, tree.page) /\ PagesRows
  BY DEF ExactNow, PagesInv
<1>2. PICK rs : rs = PaddedReqs OBVIOUS
<1>3. PICK m : m = Len(batch.reqs) OBVIOUS
<1>4. PICK n : n = PaddedSize OBVIOUS
<1>5. /\ PaddedOf(rs, m, n) /\ OwnPlaces(rs, m, n) /\ Stored(kv', rs, m, n)
      /\ late' = {} /\ spoilt' = spoilt
      /\ \E tokens \in [DOMAIN batch.reqs -> Vocab] :
           /\ pool' = AllLanded(pool, Writes(tokens))
           /\ \A i \in 1..m : /\ sampled'[i].from = rs[i].ids
                              /\ sampled'[i].token = tokens[i]
  BY <1>1, <1>2, <1>3, <1>4, RunStores
<1>6. PICK tokens \in [DOMAIN batch.reqs -> Vocab] :
        /\ pool' = AllLanded(pool, Writes(tokens))
        /\ \A i \in 1..m : /\ sampled'[i].from = rs[i].ids
                           /\ sampled'[i].token = tokens[i]
  BY <1>5
<1>7. PoolAfter(rs, m, tokens) BY <1>1, <1>3, <1>5, <1>6, RunPool
<1>8. /\ \A u \in holds : Advances(u)
      /\ holds' = holds /\ tree' = tree
  BY ForwardAdvances
<1>9. pc' = "process" /\ batch' = batch BY DEF Forward
<1>10. MemTyped' BY <1>5, <1>7 DEF MemTyped, Stored, PoolAfter
<1>11. RowsHold'
  <2>1. ASSUME NEW u \in holds
        PROVE  RowHolds(kv', pageTable', reqs'[u]) /\ PoolHolds(pool', reqs'[u])
    <3>1. Advances(u) BY <1>8
    <3>2. DOMAIN batch.reqs = 1..m BY <1>5 DEF PaddedOf
    <3>3. RowHolds(kv', pageTable', reqs'[u]) BY <1>1, <1>3, <1>5, <3>1, <3>2, RunRows
    <3>4. PoolHolds(pool', reqs[u]) BY <1>7 DEF PoolAfter
    <3>5. PoolHolds(pool', reqs'[u]) BY <3>1, <3>4 DEF PoolHolds, Advances
    <3>6. QED BY <3>3, <3>5
  <2>2. QED BY <1>8, <2>1 DEF RowsHold
<1>12. AliasOK' BY <1>1, ForwardAliased
<1>13. CacheHolds(kv', tree'.page) BY <1>1, <1>5, <1>8, RunCache
<1>14. SampledOK'
  <2>1. cursor' = 1 /\ m = Len(batch'.reqs)
    BY <1>3, <1>9 DEF Going, Phases, Forward
  <2>2. ASSUME NEW i \in 1..m, ~batch.reqs[i].chunked
        PROVE  /\ sampled'[i].from = reqs'[batch.reqs[i].uid].ids
               /\ pool'[reqs'[batch.reqs[i].uid].slot][Len(reqs'[batch.reqs[i].uid].ids) + 1]
                    = sampled'[i].token
    <3>1. batch.reqs[i].uid \in holds /\ rs[i] = reqs[batch.reqs[i].uid] BY <1>5 DEF PaddedOf
    <3>2. Advances(batch.reqs[i].uid) BY <1>8, <3>1
    <3>3. /\ reqs'[batch.reqs[i].uid].ids = rs[i].ids
          /\ reqs'[batch.reqs[i].uid].slot = rs[i].slot
      BY <3>1, <3>2 DEF Advances
    <3>4. pool'[rs[i].slot][Len(rs[i].ids) + 1] = tokens[i] BY <1>7, <2>2 DEF PoolAfter
    <3>5. QED BY <1>6, <3>3, <3>4
  <2>3. QED BY <1>9, <2>1, <2>2 DEF SampledOK, SampledFrom
<1>15. QED BY <1>5, <1>9, <1>10, <1>11, <1>12, <1>13, <1>14 DEF ExactNow, CacheHolds

(* A step that leaves the memory and the rows: what was cached may leave   *)
(* the cache, and requests may end.                                        *)
LEMMA ExactKept ==
  ASSUME ExactNow, PagesInv', pool' = pool, kv' = kv, late' = late, pageTable' = pageTable,
         \A k \in DOMAIN tree'.page : k \in DOMAIN tree.page /\ tree'.page[k] = tree.page[k],
         \A u \in holds' : u \in holds /\ reqs'[u] = reqs[u],
         SampledOK'
  PROVE  ExactNow'
<1>1. MemTyped /\ RowsHold /\ AliasOK /\ CacheHolds(kv, tree.page) BY DEF ExactNow
<1>2. MemTyped' BY <1>1 DEF MemTyped
<1>3. RowsHold' BY <1>1 DEF RowsHold, RowHolds, PoolHolds, TableEntry
<1>4. AliasOK'
  <2>1. ASSUME NEW u \in holds' PROVE Aliased(pageTable', tree'.page, reqs'[u])
    <3>1. u \in holds /\ reqs'[u] = reqs[u] OBVIOUS
    <3>2. Aliased(pageTable, tree.page, reqs[u]) BY <1>1, <3>1 DEF AliasOK
    <3>3. HeldIn(tree'.page, reqs'[u]) BY HandlesHeldNext
    <3>4. QED BY <3>1, <3>2, <3>3 DEF Aliased, HeldIn
  <2>2. QED BY <2>1 DEF AliasOK
<1>5. CacheHolds(kv', tree'.page) BY <1>1 DEF CacheHolds
<1>6. QED BY <1>2, <1>3, <1>4, <1>5 DEF ExactNow, CacheHolds

(* A batch to decode is not empty.                                         *)
LEMMA DecodesSome ==
  ASSUME Types, HoldsOK, ScheduleDecode
  PROVE  /\ pc' = "allocate" => batch'.reqs # <<>>
         /\ pc' = "process" => batch'.reqs = <<>>
<1>1. /\ pc' = "process" => batch' = NoBatch
      /\ \A u : (u \in Open(batch, 1)' <=> u \in running)
  BY DecodeBatch
<1>2. pc' = "allocate" => running # {} BY DEF ScheduleDecode
<1>3. batch'.reqs = <<>> => \A u : u \notin Open(batch, 1)'
  <2>1. Len(<<>>) = 0 /\ 1..0 = {} OBVIOUS
  <2>2. QED BY <2>1 DEF Open
<1>4. QED BY <1>1, <1>2, <1>3 DEF NoBatch

(* The steps that have nothing to do with the memory.                      *)
LEMMA QuietExact ==
  ASSUME Going, TreeOK, PagesInv, PagesInv', ~Overlap, ExactNow,
         pc = "allocate" => batch.reqs # <<>>, UNCHANGED memVars,
         \/ \E u \in Uids : ReceiveUser(u)
         \/ BecomeUrgent \/ StartPrefill \/ SkipPrefill \/ StopAdmitting
         \/ EvictForBatch \/ EvictFails \/ SkipChunk
  PROVE  ExactNow' /\ (pc' = "allocate" => batch'.reqs # <<>>)
<1>1. /\ pool' = pool /\ kv' = kv /\ late' = late /\ sampled' = sampled BY DEF memVars
<1>2. Types /\ HoldsOK /\ Phases /\ cursor \in Nat /\ Len(batch.reqs) \in Nat
  BY DEF Going, Types, Batch
<1>3. CASE \/ \E u \in Uids : ReceiveUser(u)
           \/ BecomeUrgent \/ StartPrefill \/ EvictFails
  <2>1. /\ UNCHANGED <<reqs, holds, tree, pageTable>> /\ pc' \notin {"process", "allocate"}
    BY <1>3 DEF ReceiveUser, BecomeUrgent, StartPrefill, EvictFails, Crash, cacheVars
  <2>2. SampledOK' BY <2>1 DEF SampledOK
  <2>3. QED BY <1>1, <2>1, <2>2, ExactKept
<1>4. CASE SkipPrefill
  <2>1. /\ UNCHANGED <<reqs, holds, tree, pageTable, cursor>> /\ ScheduleDecode
    BY <1>4 DEF SkipPrefill, cacheVars
  <2>2. (pc' = "allocate" => batch'.reqs # <<>>) /\ (pc' = "process" => batch'.reqs = <<>>)
    BY <1>2, <2>1, DecodesSome
  <2>3. cursor' = 1 BY <1>2, <1>4, <2>1 DEF SkipPrefill, Phases
  <2>4. SampledOK'
    <3>1. Len(<<>>) = 0 /\ 1..0 = {} OBVIOUS
    <3>2. QED BY <2>2, <2>3, <3>1 DEF SampledOK
  <2>5. QED BY <1>1, <2>1, <2>2, <2>4, ExactKept
<1>5. CASE StopAdmitting
  <2>1. /\ UNCHANGED <<reqs, holds, freePages, pageTable, cursor>> /\ pc = "admit"
    BY <1>5 DEF StopAdmitting
  <2>2. tree'.page = tree.page BY <1>5, StopAdmittingPages DEF Abstract!vars
  <2>3. (pc' = "allocate" => batch'.reqs # <<>>) /\ (pc' = "process" => batch'.reqs = <<>>)
    <3>1. CASE batch.reqs = <<>> BY <1>2, <1>5, <3>1, DecodesSome DEF StopAdmitting
    <3>2. CASE batch.reqs # <<>> BY <1>5, <3>2 DEF StopAdmitting
    <3>3. QED BY <3>1, <3>2
  <2>4. cursor' = 1 BY <1>2, <2>1 DEF Phases
  <2>5. SampledOK'
    <3>1. Len(<<>>) = 0 /\ 1..0 = {} OBVIOUS
    <3>2. QED BY <2>3, <2>4, <3>1 DEF SampledOK
  <2>6. QED BY <1>1, <2>1, <2>2, <2>3, <2>5, ExactKept
<1>6. CASE EvictForBatch
  <2>1. /\ EvictOne(BatchReqs) /\ UNCHANGED <<reqs, holds, pageTable, pc, batch>> /\ pc = "allocate"
    BY <1>6 DEF EvictForBatch, schedVars, EvictOne
  <2>2. /\ WellShaped(tree, Block) /\ freePages \in Seq(Page)
        /\ tree.page \in [Covered(tree) -> Page]
    BY DEF PagesInv, PagesRows, TreeOK
  <2>3. /\ Covered(tree)' \subseteq Covered(tree)
        /\ tree'.page = [q \in Covered(tree)' |-> tree.page[q]]
    BY <2>1, <2>2, EvictPages
  <2>4. \A k \in DOMAIN tree'.page : k \in DOMAIN tree.page /\ tree'.page[k] = tree.page[k]
    BY <2>3 DEF Covered
  <2>5. SampledOK' BY <2>1 DEF SampledOK
  <2>6. QED BY <1>1, <2>1, <2>4, <2>5, ExactKept
<1>7. CASE SkipChunk
  <2>1. /\ UNCHANGED <<pc, reqs, holds, tree, pageTable, batch>> /\ cursor' = cursor + 1
        /\ pc = "process"
    BY <1>7 DEF SkipChunk, cacheVars
  <2>2. SampledOK'
    <3>1. SampledOK BY DEF ExactNow
    <3>2. \A i \in (cursor + 1)..Len(batch.reqs) : i \in cursor..Len(batch.reqs) BY <1>2
    <3>3. QED BY <1>1, <2>1, <3>1, <3>2 DEF SampledOK, SampledFrom
  <2>3. QED BY <1>1, <2>1, <2>2, ExactKept
<1>8. QED BY <1>3, <1>4, <1>5, <1>6, <1>7

(* The blocks of a key, one after the other, are the tokens it was made of.*)
LEMMA KeyFlat ==
  ASSUME NEW s \in Seq(Token), NEW i \in 1..Len(Key(s))
  PROVE  /\ FlattenSeq(SubSeq(Key(s), 1, i)) = SubSeq(s, 1, i * PageSize)
         /\ i * PageSize \in 0..Len(s)
<1>1. Radix
  <2>1. ~Radix => Key(s) = <<>> BY RadixAssumption DEF Key
  <2>2. QED BY <2>1
<1>2. PageSize \in Nat \ {0} BY PageSizeAssumption
<1>3. PICK n \in Nat : n = Len(s) OBVIOUS
<1>4. /\ Key(s) \in Seq(Seq(Token)) /\ Len(Key(s)) = n \div PageSize
      /\ \A a \in 1..(n \div PageSize) : Key(s)[a] = SubSeq(s, (a - 1) * PageSize + 1, a * PageSize)
  BY <1>1, <1>3, KeyType, KeyBlocks
<1>5. i \in Nat \ {0} /\ i <= Len(Key(s)) /\ Len(Key(s)) * PageSize <= n /\ Len(Key(s)) \in Nat
  <2>1. Len(Key(s)) * PageSize <= n BY <1>3, KeyType
  <2>2. Len(Key(s)) \in Nat BY <1>4
  <2>3. QED BY <2>1, <2>2
<1>6. i * PageSize \in 0..n
  <2>1. i * PageSize <= Len(Key(s)) * PageSize /\ i * PageSize \in Nat BY <1>2, <1>5
  <2>2. Len(Key(s)) * PageSize \in Nat BY <1>2, <1>5
  <2>3. QED BY <1>3, <1>5, <2>1, <2>2
<1> DEFINE parts == SubSeq(Key(s), 1, i)
           e == [a \in 1..i |-> PageSize]
           c == [a \in 0..i |-> a * PageSize]
<1>7. parts \in Seq(Seq(Token)) /\ Len(parts) = i /\ \A a \in 1..i : parts[a] = Key(s)[a]
  BY <1>4, <1>5, FirstPart
<1>8. \A a \in 1..i : /\ (a - 1) * PageSize \in Nat /\ a * PageSize \in Nat
                      /\ a * PageSize = (a - 1) * PageSize + PageSize /\ a * PageSize <= n
  <2>1. TAKE a \in 1..i
  <2>2. (a - 1) * PageSize \in Nat /\ a * PageSize \in Nat BY <1>2, <1>5
  <2>3. a * PageSize = (a - 1) * PageSize + PageSize BY <1>2, <1>5
  <2>4. a * PageSize <= i * PageSize BY <1>2, <1>5
  <2>5. QED BY <1>6, <2>2, <2>3, <2>4
<1>9. ASSUME NEW a \in 1..i
      PROVE  /\ Len(parts[a]) = PageSize
             /\ \A b \in 1..PageSize : parts[a][b] = s[(a - 1) * PageSize + b]
  <2>1. PICK lo \in Nat : lo = (a - 1) * PageSize BY <1>8
  <2>2. lo + PageSize <= n /\ a * PageSize = lo + PageSize BY <1>8, <2>1
  <2>3. a \in 1..(n \div PageSize) BY <1>4, <1>5
  <2>4. parts[a] = SubSeq(s, lo + 1, lo + PageSize) BY <1>4, <1>7, <2>1, <2>2, <2>3
  <2>5. /\ Len(SubSeq(s, lo + 1, lo + PageSize)) = (lo + PageSize) - lo
        /\ \A b \in 1..((lo + PageSize) - lo) : SubSeq(s, lo + 1, lo + PageSize)[b] = s[lo + b]
    BY <1>2, <1>3, <2>2, PartOfRow
  <2>6. QED BY <1>2, <2>1, <2>4, <2>5
<1>10. Sums(c, e, i)
  <2>1. c \in [0..i -> Nat]
    <3>1. \A a \in 0..i : a * PageSize \in Nat BY <1>2, <1>5
    <3>2. QED BY <3>1
  <2>2. c[0] = 0
    <3>1. 0 \in 0..i BY <1>5
    <3>2. 0 * PageSize = 0 BY <1>2
    <3>3. QED BY <3>1, <3>2
  <2>3. \A a \in 1..i : c[a] = c[a - 1] + e[a]
    <3>1. \A a \in 1..i : a \in 0..i /\ a - 1 \in 0..i BY <1>5
    <3>2. QED BY <1>8, <3>1
  <2>4. QED BY <2>1, <2>2, <2>3 DEF Sums
<1>11. c[i] = i * PageSize /\ \A a \in 1..i : c[a - 1] = (a - 1) * PageSize /\ e[a] = PageSize
  BY <1>5
<1>12. e \in [1..i -> Nat] BY <1>2
<1>13. parts \in [1..i -> Seq(Token)]
  <2>1. parts \in Seq(Seq(Token)) /\ Len(parts) = i BY <1>7
  <2> HIDE DEF parts
  <2>2. DOMAIN parts = 1..i /\ \A a \in 1..i : parts[a] \in Seq(Token) BY <2>1
  <2>3. parts = [a \in 1..i |-> parts[a]] BY <2>1
  <2>4. QED BY <2>2, <2>3
<1> HIDE DEF parts, e, c
<1>14. Layout(FlattenSeq(parts), parts, c, e, i, Token)
  <2>1. \A a \in 1..i : Len(parts[a]) = e[a] BY <1>9, <1>11
  <2>2. i \in Nat BY <1>5
  <2>3. QED BY <1>10, <1>12, <1>13, <2>1, <2>2, FlattenLayout
<1>15. PICK q : q = FlattenSeq(parts) OBVIOUS
<1>16. /\ q \in Seq(Token) /\ Len(q) = i * PageSize
       /\ \A a \in 1..i : \A b \in 1..PageSize : q[(a - 1) * PageSize + b] = parts[a][b]
  BY <1>11, <1>14, <1>15 DEF Layout
<1>17. ASSUME NEW f \in 1..(i * PageSize) PROVE q[f] = s[f]
  <2>1. f - 1 \in Nat BY <1>6
  <2>2. PICK p \in Nat : p = f - 1 BY <2>1
  <2>3. PICK a \in Nat \ {0}, b \in 0..(PageSize - 1) : p = (a - 1) * PageSize + b /\ a = PageIn(p)
    BY PositionParts
  <2>4. a \in 1..i
    <3>1. p < i * PageSize BY <1>6, <2>2
    <3>2. a <= i BY <1>5, <2>3, <3>1, PageOrder
    <3>3. QED BY <1>5, <3>2
  <2>5. PICK d \in 1..PageSize : d = b + 1 BY <1>2
  <2>6. f = (a - 1) * PageSize + d
    <3>1. (a - 1) * PageSize \in Nat BY <1>8, <2>4
    <3>2. QED BY <1>6, <2>2, <2>3, <2>5, <3>1
  <2>7. q[(a - 1) * PageSize + d] = s[(a - 1) * PageSize + d] BY <1>9, <1>16, <2>4
  <2>8. QED BY <2>6, <2>7
<1>18. /\ SubSeq(s, 1, i * PageSize) \in Seq(Token) /\ Len(SubSeq(s, 1, i * PageSize)) = i * PageSize
       /\ \A f \in 1..(i * PageSize) : SubSeq(s, 1, i * PageSize)[f] = s[f]
  BY <1>3, <1>6, FirstPart
<1>19. q = SubSeq(s, 1, i * PageSize) BY <1>6, <1>16, <1>17, <1>18
<1>20. QED BY <1>3, <1>6, <1>15, <1>19 DEF parts

(* What is kept for a page of a key: the tokens up to each place in it.    *)
LEMMA KeyHolds ==
  ASSUME NEW s \in Seq(Token), NEW i \in 1..Len(Key(s)), NEW j \in 1..PageSize
  PROVE  /\ (i - 1) * PageSize + j \in 1..Len(s)
         /\ SubSeq(FlattenSeq(SubSeq(Key(s), 1, i)), 1, (i - 1) * PageSize + j)
              = SubSeq(s, 1, (i - 1) * PageSize + j)
<1>1. PageSize \in Nat \ {0} /\ i \in Nat \ {0}
  <2>1. Key(s) \in Seq(Seq(Token)) BY KeyType
  <2>2. Len(Key(s)) \in Nat BY <2>1
  <2>3. QED BY <2>2, PageSizeAssumption
<1>2. i * PageSize \in 0..Len(s) /\ FlattenSeq(SubSeq(Key(s), 1, i)) = SubSeq(s, 1, i * PageSize)
  BY KeyFlat
<1>3. (i - 1) * PageSize \in Nat /\ i * PageSize = (i - 1) * PageSize + PageSize
  <2>1. (i - 1) * PageSize \in Nat BY <1>1
  <2>2. i * PageSize = (i - 1) * PageSize + PageSize BY <1>1
  <2>3. QED BY <2>1, <2>2
<1>4. PICK p \in Nat : p = (i - 1) * PageSize + j BY <1>3
<1>5. p \in 0..(i * PageSize) /\ p \in 1..Len(s) BY <1>1, <1>2, <1>3, <1>4
<1>6. SubSeq(SubSeq(s, 1, i * PageSize), 1, p) = SubSeq(s, 1, p) BY <1>2, <1>5, PrefixOfPrefix
<1>7. QED BY <1>2, <1>4, <1>5, <1>6

(* cache_req on the tree, page by page.                                    *)
LEMMA ReqPages ==
  ASSUME WellShaped(tree, Block), NEW r, ReqKey(r) \in Seq(Block),
         NEW finished \in BOOLEAN, CacheReq(r, finished)
  PROVE  /\ \A q \in DOMAIN tree.page : q \in DOMAIN tree'.page /\ tree'.page[q] = tree.page[q]
         /\ \A q \in DOMAIN tree'.page : \/ q \in DOMAIN tree.page
              \/ /\ Len(q) \in (MatchLen(tree, ReqKey(r)) + 1)..Len(ReqKey(r))
                 /\ q = SubSeq(ReqKey(r), 1, Len(q))
                 /\ tree'.page[q] = pageTable[r.slot][Len(q)]
<1> DEFINE key == ReqKey(r)
           row == pageTable[r.slot]
           m == MatchLen(tree, key)
           u == Insert(tree, key, row)
           v == UnlockHandle(u, r.handle)
<1>1. tree'.page = u.page
  <2>1. WellShaped(u, Block) BY InsertShape
  <2>2. u = Reinserted(r) BY DEF Reinserted
  <2> HIDE DEF u, key
  <2>3. WellShaped(v, Block) /\ v.page = u.page BY <2>1, UnlockShape
  <2> HIDE DEF v
  <2>4. tree' = IF finished THEN v ELSE LockHandle(v, key) BY <2>2 DEF CacheReq, CacheReqTree, v, key
  <2>5. LockHandle(v, key).page = v.page BY <2>3, LockShape
  <2>6. QED BY <2>3, <2>4, <2>5
<1>2. /\ \A q \in Covered(tree) : q \in Covered(u) /\ u.page[q] = tree.page[q]
      /\ \A i \in (m + 1)..Len(key) : /\ SubSeq(key, 1, i) \in Covered(u) \ Covered(tree)
                                      /\ u.page[SubSeq(key, 1, i)] = row[i]
      /\ \A q \in Covered(u) \ Covered(tree) : /\ Len(q) \in (m + 1)..Len(key)
                                               /\ q = SubSeq(key, 1, Len(q))
  BY InsertPages
<1> HIDE DEF u, key, row, m, v
<1>3. DOMAIN tree'.page = Covered(u) /\ DOMAIN tree.page = Covered(tree) BY <1>1 DEF Covered
<1>4. \A q \in Covered(u) \ Covered(tree) : /\ Len(q) \in (m + 1)..Len(key)
                                            /\ q = SubSeq(key, 1, Len(q)) /\ u.page[q] = row[Len(q)]
  <2>1. TAKE q \in Covered(u) \ Covered(tree)
  <2>2. PICK i \in (m + 1)..Len(key) : i = Len(q) /\ q = SubSeq(key, 1, i) BY <1>2
  <2>3. u.page[SubSeq(key, 1, i)] = row[i] BY <1>2
  <2>4. QED BY <2>2, <2>3
<1>5. QED BY <1>1, <1>2, <1>3, <1>4 DEF key, row, m

(* The rows of a request that is cached hold what its keys stand for.      *)
LEMMA ReqCached ==
  ASSUME PagesInv, TreeOK, NEW u \in holds, NEW r \in Request, r.slot = reqs[u].slot,
         r.handle = reqs[u].handle, r.cached = reqs[u].cached, IsPrefix(reqs[u].ids, r.ids),
         reqs[u].cached <= Len(reqs[u].ids), RowHolds(kv, pageTable, reqs[u]),
         CacheHolds(kv, tree.page), NEW finished \in BOOLEAN, CacheReq(r, finished)
  PROVE  CacheHolds(kv, tree'.page)
<1>1. /\ PagesRows /\ reqs[u] \in Request /\ RowOK(pageTable, reqs[u])
      /\ reqs[u].ids \in Seq(Token) /\ r.ids \in Seq(Token) /\ reqs[u].cached \in Nat
      /\ Len(reqs[u].ids) \in Nat /\ Len(r.ids) \in Nat /\ reqs[u].slot \in Slot
  BY DEF PagesInv, PagesRows, Request
<1>2. Len(reqs[u].ids) <= Len(r.ids) /\ \A i \in 1..Len(reqs[u].ids) : r.ids[i] = reqs[u].ids[i]
  BY <1>1 DEF IsPrefix
<1>3. PICK t : t = SubSeq(r.ids, 1, r.cached) OBVIOUS
<1>4. /\ t \in Seq(Token) /\ Len(t) = r.cached /\ r.cached \in 0..Len(r.ids)
      /\ ReqKey(r) = Key(t) /\ Key(t) \in Seq(Block)
  <2>1. r.cached \in 0..Len(r.ids) BY <1>1, <1>2
  <2>2. t \in Seq(Token) /\ Len(t) = r.cached BY <1>1, <1>3, <2>1, FirstPart
  <2>3. Key(t) \in Seq(Seq(Token)) BY <2>2, KeyType
  <2>4. QED BY <1>3, <2>1, <2>2, <2>3 DEF ReqKey, Block
<1>5. ASSUME NEW p \in 1..Len(t) PROVE SubSeq(t, 1, p) = SubSeq(reqs[u].ids, 1, p)
  <2>1. p \in 0..r.cached /\ p \in 0..Len(reqs[u].ids) BY <1>1, <1>4
  <2>2. SubSeq(t, 1, p) = SubSeq(r.ids, 1, p) BY <1>1, <1>3, <1>4, <2>1, PrefixOfPrefix
  <2>3. p \in 0..Len(r.ids) BY <1>1, <1>2, <2>1
  <2>4. /\ SubSeq(r.ids, 1, p) \in Seq(Token) /\ Len(SubSeq(r.ids, 1, p)) = p
        /\ \A i \in 1..p : SubSeq(r.ids, 1, p)[i] = r.ids[i]
    BY <1>1, <2>3, FirstPart
  <2>5. /\ SubSeq(reqs[u].ids, 1, p) \in Seq(Token) /\ Len(SubSeq(reqs[u].ids, 1, p)) = p
        /\ \A i \in 1..p : SubSeq(reqs[u].ids, 1, p)[i] = reqs[u].ids[i]
    BY <1>1, <2>1, FirstPart
  <2>6. \A i \in 1..p : i \in 1..Len(reqs[u].ids) BY <1>1, <2>1
  <2>7. SubSeq(r.ids, 1, p) = SubSeq(reqs[u].ids, 1, p) BY <1>2, <2>1, <2>4, <2>5, <2>6
  <2>8. QED BY <2>2, <2>7
<1>6. WellShaped(tree, Block) BY DEF TreeOK
<1>7. /\ \A q \in DOMAIN tree.page : q \in DOMAIN tree'.page /\ tree'.page[q] = tree.page[q]
      /\ \A q \in DOMAIN tree'.page : \/ q \in DOMAIN tree.page
           \/ /\ Len(q) \in (MatchLen(tree, ReqKey(r)) + 1)..Len(ReqKey(r))
              /\ q = SubSeq(ReqKey(r), 1, Len(q))
              /\ tree'.page[q] = pageTable[r.slot][Len(q)]
  BY <1>4, <1>6, ReqPages
<1>8. MatchLen(tree, ReqKey(r)) \in Nat
  <2>1. IsPrefix(reqs[u].ids, r.ids) /\ r.cached <= Len(r.ids) BY <1>4
  <2>2. Cacheable(r, Block) BY <1>1, <2>1, RequestCacheable
  <2>3. QED BY <1>6, <2>2, CacheableLengths
<1>9. ASSUME NEW q \in DOMAIN tree'.page, q \notin DOMAIN tree.page, NEW j \in 1..PageSize
      PROVE  kv[tree'.page[q] * PageSize + (j - 1)]
               = SubSeq(FlattenSeq(q), 1, (Len(q) - 1) * PageSize + j)
  <2>1. PICK i : i = Len(q) OBVIOUS
  <2>2. i \in 1..Len(Key(t)) /\ q = SubSeq(Key(t), 1, i) /\ tree'.page[q] = pageTable[r.slot][i]
    <3>1. i \in (MatchLen(tree, ReqKey(r)) + 1)..Len(ReqKey(r)) BY <1>7, <1>9, <2>1
    <3>2. Len(ReqKey(r)) \in Nat BY <1>4
    <3>3. i \in 1..Len(Key(t)) BY <1>4, <1>8, <3>1, <3>2
    <3>4. QED BY <1>4, <1>7, <1>9, <2>1, <3>3
  <2>3. PICK p \in Nat : p = (i - 1) * PageSize + (j - 1)
    <3>1. i \in Nat \ {0} BY <1>4, <2>2
    <3>2. (i - 1) * PageSize \in Nat /\ j - 1 \in Nat BY <3>1, PageSizeAssumption
    <3>3. QED BY <3>2
  <2>4. p + 1 = (i - 1) * PageSize + j /\ i \in Nat \ {0}
    <3>1. i \in Nat \ {0} BY <1>4, <2>2
    <3>2. (i - 1) * PageSize \in Nat BY <3>1, PageSizeAssumption
    <3>3. QED BY <2>3, <3>1, <3>2
  <2>5. p + 1 \in 1..Len(t) /\ SubSeq(FlattenSeq(q), 1, p + 1) = SubSeq(t, 1, p + 1)
    BY <1>4, <2>2, <2>4, KeyHolds
  <2>6. PageIn(p) = i /\ PlaceIn(p) = j - 1
    <3>1. /\ PageIn(p) \in Nat \ {0} /\ PlaceIn(p) \in 0..(PageSize - 1)
          /\ p = (PageIn(p) - 1) * PageSize + PlaceIn(p)
      BY PositionParts
    <3>2. PICK a \in Nat, b \in 0..(PageSize - 1) : a = PageIn(p) - 1 /\ b = PlaceIn(p) BY <3>1
    <3>3. PICK c \in Nat, d \in 0..(PageSize - 1) : c = i - 1 /\ d = j - 1
      BY <2>4, PageSizeAssumption
    <3>4. a * PageSize + b = c * PageSize + d BY <2>3, <3>1, <3>2, <3>3
    <3>5. a = c /\ b = d BY <3>4, PlaceUnique
    <3>6. QED BY <2>4, <3>1, <3>2, <3>3, <3>5
  <2>7. p \in 0..(reqs[u].cached - 1) BY <1>1, <1>4, <2>5
  <2>8. TableEntry(pageTable, reqs[u].slot, p) = pageTable[reqs[u].slot][i] * PageSize + (j - 1)
    <3>1. pageTable[reqs[u].slot] \in Seq(Page) BY <1>1 DEF PagesRows
    <3>2. QED BY <1>1, <2>6, <2>7, <3>1, EntryOf
  <2>9. kv[pageTable[reqs[u].slot][i] * PageSize + (j - 1)] = SubSeq(reqs[u].ids, 1, p + 1)
    BY <2>7, <2>8 DEF RowHolds
  <2>10. SubSeq(t, 1, p + 1) = SubSeq(reqs[u].ids, 1, p + 1) BY <1>5, <2>5
  <2>11. QED BY <2>1, <2>2, <2>4, <2>5, <2>9, <2>10
<1>10. QED BY <1>7, <1>9 DEF CacheHolds

(* A request that ends: its pages go to the cache or are free, the others  *)
(* keep theirs.                                                            *)
LEMMA EndExact ==
  ASSUME Going, ~Overlap, TreeOK, PagesInv, PagesInv', ExactNow, pool' = pool, kv' = kv, late' = late,
         NEW u \in holds, NEW r \in Request, r.slot = reqs[u].slot, r.handle = reqs[u].handle,
         r.cached = reqs[u].cached, IsPrefix(reqs[u].ids, r.ids), CacheReq(r, TRUE),
         holds' = holds \ {u}, \A v \in holds \ {u} : reqs'[v] = reqs[v], SampledOK'
  PROVE  ExactNow'
<1>1. MemTyped /\ RowsHold /\ AliasOK /\ CacheHolds(kv, tree.page) BY DEF ExactNow
<1>2. reqs[u].cached <= Len(reqs[u].ids) BY KnownTokens
<1>3. RowHolds(kv, pageTable, reqs[u]) BY <1>1 DEF RowsHold
<1>4. CacheHolds(kv, tree'.page) BY <1>1, <1>2, <1>3, ReqCached
<1>5. pageTable' = pageTable BY DEF CacheReq
<1>6. \A k \in DOMAIN tree.page : k \in DOMAIN tree'.page /\ tree'.page[k] = tree.page[k]
  <2>1. WellShaped(tree, Block) BY DEF TreeOK
  <2>2. ReqKey(r) \in Seq(Block)
    <3>1. reqs[u] \in Request BY KnownTokens
    <3>2. reqs[u].ids \in Seq(Token) /\ r.ids \in Seq(Token) /\ r.cached \in Nat /\ reqs[u].cached \in Nat
      BY <3>1 DEF Request
    <3>3. r.cached <= Len(r.ids) BY <1>2, <3>2 DEF IsPrefix
    <3>4. Key(SubSeq(r.ids, 1, r.cached)) \in Seq(Seq(Token)) BY <3>2, <3>3, FirstTokens
    <3>5. QED BY <3>4 DEF ReqKey, Block
  <2>3. QED BY <2>1, <2>2, ReqPages
<1>7. MemTyped' BY <1>1 DEF MemTyped
<1>8. RowsHold' BY <1>1, <1>5 DEF RowsHold, RowHolds, PoolHolds, TableEntry
<1>9. AliasOK'
  <2>1. ASSUME NEW v \in holds' PROVE Aliased(pageTable', tree'.page, reqs'[v])
    <3>1. v \in holds /\ reqs'[v] = reqs[v] OBVIOUS
    <3>2. Aliased(pageTable, tree.page, reqs[v]) BY <1>1, <3>1 DEF AliasOK
    <3>3. HeldIn(tree.page, reqs[v]) BY <3>1, HandlesHeld DEF HandlesIn
    <3>4. QED BY <1>5, <1>6, <3>1, <3>2, <3>3 DEF Aliased, HeldIn
  <2>2. QED BY <2>1 DEF AliasOK
<1>10. QED BY <1>4, <1>7, <1>8, <1>9 DEF ExactNow, CacheHolds

LEMMA AbortExact ==
  ASSUME Going, ~Overlap, TreeOK, PagesInv, PagesInv', ExactNow, UNCHANGED memVars,
         NEW u \in Uids, ReceiveAbort(u)
  PROVE  ExactNow' /\ pc' = "receive"
<1>1. pc = "receive" /\ pc' = pc /\ reqs' = reqs BY DEF ReceiveAbort
<1>2. pool' = pool /\ kv' = kv /\ late' = late BY DEF memVars
<1>3. SampledOK' BY <1>1 DEF SampledOK
<1>4. CASE ~AbortFrees(u)
  <2>1. UNCHANGED <<pageTable, holds, tree>> BY <1>4 DEF ReceiveAbort, cacheVars
  <2>2. QED BY <1>1, <1>2, <1>3, <2>1, ExactKept
<1>5. CASE AbortFrees(u)
  <2>1. u \in holds /\ reqs[u] \in Request BY <1>5, AbortedHolds
  <2>2. CacheReq(reqs[u], TRUE) /\ holds' = holds \ {u}
    BY <1>5 DEF ReceiveAbort, FreeReqResources
  <2>3. PICK r \in Request : r = reqs[u] BY <2>1
  <2>4. IsPrefix(reqs[u].ids, r.ids)
    <3>1. r.ids \in Seq(Token) BY DEF Request
    <3>2. QED BY <2>3, <3>1, PrefixReflexive
  <2>5. /\ r.slot = reqs[u].slot /\ r.handle = reqs[u].handle /\ r.cached = reqs[u].cached
        /\ CacheReq(r, TRUE) /\ \A v \in holds \ {u} : reqs'[v] = reqs[v]
    BY <1>1, <2>2, <2>3
  <2>6. QED BY <1>1, <1>2, <1>3, <2>1, <2>2, <2>4, <2>5, EndExact
<1>6. QED BY <1>4, <1>5

(* A request with its next token, that was written to the pool before.     *)
LEMMA LongerHolds ==
  ASSUME NEW o \in Request, NEW s, NEW token, Longer(o, s, token), o.cached <= Len(o.ids),
         RowHolds(kv, pageTable, o), PoolHolds(pool, o), pool[o.slot][Len(o.ids) + 1] = token
  PROVE  RowHolds(kv, pageTable, s) /\ PoolHolds(pool, s)
<1>1. /\ s.ids = Append(o.ids, token) /\ Len(s.ids) = Len(o.ids) + 1
      /\ s.slot = o.slot /\ s.cached = o.cached /\ s \in Request
  BY DEF Longer
<1>2. /\ o.ids \in Seq(Token) /\ s.ids \in Seq(Token) /\ o.cached \in Nat
      /\ Len(o.ids) \in Nat
  BY <1>1 DEF Request
<1>3. \A p \in 1..Len(o.ids) : s.ids[p] = o.ids[p] BY <1>1, <1>2
<1>4. s.ids[Len(o.ids) + 1] = token BY <1>1, <1>2
<1>5. ASSUME NEW p \in 0..(o.cached - 1)
      PROVE  kv[TableEntry(pageTable, o.slot, p)] = SubSeq(s.ids, 1, p + 1)
  <2>1. p + 1 \in 0..Len(o.ids) /\ p + 1 \in 0..Len(s.ids) BY <1>1, <1>2
  <2>2. /\ SubSeq(o.ids, 1, p + 1) \in Seq(Token) /\ Len(SubSeq(o.ids, 1, p + 1)) = p + 1
        /\ \A i \in 1..(p + 1) : SubSeq(o.ids, 1, p + 1)[i] = o.ids[i]
    BY <1>2, <2>1, FirstPart
  <2>3. /\ SubSeq(s.ids, 1, p + 1) \in Seq(Token) /\ Len(SubSeq(s.ids, 1, p + 1)) = p + 1
        /\ \A i \in 1..(p + 1) : SubSeq(s.ids, 1, p + 1)[i] = s.ids[i]
    BY <1>2, <2>1, FirstPart
  <2>4. \A i \in 1..(p + 1) : i \in 1..Len(o.ids) BY <1>2, <2>1
  <2>5. SubSeq(s.ids, 1, p + 1) = SubSeq(o.ids, 1, p + 1) BY <1>3, <2>1, <2>2, <2>3, <2>4
  <2>6. kv[TableEntry(pageTable, o.slot, p)] = SubSeq(o.ids, 1, p + 1) BY DEF RowHolds
  <2>7. QED BY <2>5, <2>6
<1>6. ASSUME NEW p \in 1..Len(s.ids) PROVE pool[o.slot][p] = s.ids[p]
  <2>1. CASE p = Len(o.ids) + 1 BY <1>4, <2>1
  <2>2. CASE p \in 1..Len(o.ids) BY <1>3, <2>2 DEF PoolHolds
  <2>3. QED BY <1>1, <1>2, <2>1, <2>2
<1>7. QED BY <1>1, <1>5, <1>6 DEF RowHolds, PoolHolds

(* A request that goes on after its prefill holds the key of its prompt;   *)
(* its row has the pages of that key, unless duplicates were freed.        *)
LEMMA KeyAliased ==
  ASSUME TreeOK, PagesInv, PagesInv', AliasOK, NEW u \in holds, NEW r \in Request,
         r.slot = reqs[u].slot, r.handle = reqs[u].handle, r.cached = reqs[u].cached,
         IsPrefix(reqs[u].ids, r.ids), r.cached <= Len(r.ids), CacheReq(r, FALSE),
         FreedPages(r, FALSE) = <<>>, u \in holds', reqs'[u].handle = ReqKey(r),
         reqs'[u].slot = r.slot
  PROVE  Aliased(pageTable', tree'.page, reqs'[u])
<1> DEFINE key == ReqKey(r)
           h == reqs[u].handle
           m == MatchLen(tree, key)
           row == pageTable[r.slot]
<1>1. WellShaped(tree, Block) /\ PagesRows BY DEF TreeOK, PagesInv
<1>2. Cacheable(r, Block) BY <1>1, RequestCacheable
<1>3. /\ Len(h) \in Nat /\ Len(key) \in Nat /\ m \in Nat /\ Len(h) <= m /\ m <= Len(key)
      /\ Len(key) <= PagesFor(r.cached)
  BY <1>1, <1>2, CacheableLengths
<1>4. key \in Seq(Block) /\ IsPrefix(h, key) /\ RowOK(pageTable, r) /\ h \in Seq(Block)
  BY <1>2 DEF Cacheable
<1>5. row \in Seq(Page) /\ PagesFor(r.cached) <= Len(row) /\ PagesFor(r.cached) \in Nat
  BY <1>1, <1>4, PagesForTokens DEF RowOK, PagesRows
<1>6. m = Len(h)
  <2>1. SubSeq(row, Len(h) + 1, m) = <<>> BY DEF FreedPages
  <2>2. m <= Len(row) BY <1>3, <1>5
  <2>3. Len(SubSeq(row, Len(h) + 1, m)) = m - Len(h) BY <1>3, <1>5, <2>2, PartOfRow
  <2> HIDE DEF row, m, h
  <2>4. Len(SubSeq(row, Len(h) + 1, m)) = 0
    <3>1. PICK e : e = SubSeq(row, Len(h) + 1, m) OBVIOUS
    <3>2. e = <<>> BY ONLY <2>1, <3>1, Zenon
    <3>3. Len(e) = 0 BY ONLY <3>2
    <3>4. QED BY ONLY <3>1, <3>3, Zenon
  <2>5. PICK a \in Nat : a = Len(h) BY <1>3
  <2>6. PICK b \in Nat : b = m BY <1>3
  <2>7. b - a = 0 BY <2>3, <2>4, <2>5, <2>6
  <2>8. QED BY <2>5, <2>6, <2>7
<1>7. /\ \A q \in DOMAIN tree.page : q \in DOMAIN tree'.page /\ tree'.page[q] = tree.page[q]
      /\ \A q \in DOMAIN tree'.page : \/ q \in DOMAIN tree.page
           \/ /\ Len(q) \in (m + 1)..Len(key)
              /\ q = SubSeq(key, 1, Len(q))
              /\ tree'.page[q] = row[Len(q)]
  BY <1>1, <1>4, ReqPages
<1>8. \A i \in 1..Len(key) : SubSeq(key, 1, i) \in DOMAIN tree'.page
  <2>1. HeldIn(tree'.page, reqs'[u]) BY HandlesHeldNext
  <2>2. QED BY <2>1 DEF HeldIn
<1>9. pageTable' = pageTable BY DEF CacheReq
<1>10. \A i \in 1..Len(key) : SubSeq(key, 1, i) \in DOMAIN tree.page <=> i <= m
  BY <1>1, <1>4, MatchedIsCached DEF Covered
<1>11. \A i \in 1..Len(key) : Len(SubSeq(key, 1, i)) = i BY <1>3, <1>4, FirstPart
<1>12. \A i \in 1..Len(h) : SubSeq(h, 1, i) = SubSeq(key, 1, i)
  <2>1. h = SubSeq(key, 1, Len(h))
    <3>1. /\ SubSeq(key, 1, Len(h)) \in Seq(Block) /\ Len(SubSeq(key, 1, Len(h))) = Len(h)
          /\ \A i \in 1..Len(h) : SubSeq(key, 1, Len(h))[i] = key[i]
      BY <1>3, <1>4, FirstPart
    <3>2. \A i \in 1..Len(h) : h[i] = key[i] BY <1>4 DEF IsPrefix
    <3> HIDE DEF h, key
    <3>3. QED BY <1>4, <3>1, <3>2
  <2>2. TAKE i \in 1..Len(h)
  <2>3. Len(h) \in 0..Len(key) /\ i \in 0..Len(h) BY <1>3
  <2>4. SubSeq(SubSeq(key, 1, Len(h)), 1, i) = SubSeq(key, 1, i) BY <1>4, <2>3, PrefixOfPrefix
  <2>5. QED BY <2>1, <2>4
<1>13. \A i \in 1..Len(h) : row[i] = tree.page[SubSeq(h, 1, i)] BY DEF AliasOK, Aliased
<1> HIDE DEF key, h, m, row
<1>14. ASSUME NEW i \in 1..Len(key) PROVE row[i] = tree'.page[SubSeq(key, 1, i)]
  <2>1. CASE i <= m
    <3>1. i \in 1..Len(h) BY <1>3, <1>6, <2>1
    <3>2. SubSeq(h, 1, i) = SubSeq(key, 1, i) BY <1>12, <3>1
    <3>3. SubSeq(key, 1, i) \in DOMAIN tree.page BY <1>10, <2>1
    <3>4. QED BY <1>7, <1>13, <3>1, <3>2, <3>3
  <2>2. CASE ~(i <= m)
    <3>1. SubSeq(key, 1, i) \notin DOMAIN tree.page BY <1>10, <2>2
    <3>2. SubSeq(key, 1, i) \in DOMAIN tree'.page BY <1>8
    <3>3. Len(SubSeq(key, 1, i)) = i BY <1>11
    <3>4. QED BY <1>7, <3>1, <3>2, <3>3
  <2>3. QED BY <2>1, <2>2
<1>15. QED BY <1>9, <1>14 DEF Aliased, key, row

LEMMA KeepExact ==
  ASSUME Going, ~Overlap, TreeOK, PagesInv, PagesInv', ExactNow, pool' = pool, kv' = kv, late' = late,
         NEW u \in holds, NEW r \in Request, r.slot = reqs[u].slot, r.handle = reqs[u].handle,
         r.cached = reqs[u].cached, IsPrefix(reqs[u].ids, r.ids), CacheReq(r, FALSE),
         FreedPages(r, FALSE) = <<>>, holds' = holds, reqs'[u].handle = ReqKey(r),
         NEW token, Longer(reqs[u], reqs'[u], token),
         pool[reqs[u].slot][Len(reqs[u].ids) + 1] = token,
         \A v \in holds \ {u} : reqs'[v] = reqs[v], SampledOK'
  PROVE  ExactNow'
<1>1. MemTyped /\ RowsHold /\ AliasOK /\ CacheHolds(kv, tree.page) BY DEF ExactNow
<1>2. reqs[u].cached <= Len(reqs[u].ids) /\ reqs[u] \in Request BY KnownTokens
<1>3. RowHolds(kv, pageTable, reqs[u]) /\ PoolHolds(pool, reqs[u]) BY <1>1 DEF RowsHold
<1>4. CacheHolds(kv, tree'.page) BY <1>1, <1>2, <1>3, ReqCached
<1>5. pageTable' = pageTable BY DEF CacheReq
<1>6. r.cached <= Len(r.ids) /\ ReqKey(r) \in Seq(Block)
  <2>1. reqs[u].ids \in Seq(Token) /\ r.ids \in Seq(Token) /\ r.cached \in Nat /\ reqs[u].cached \in Nat
    BY <1>2 DEF Request
  <2>2. r.cached <= Len(r.ids) BY <1>2, <2>1 DEF IsPrefix
  <2>3. Key(SubSeq(r.ids, 1, r.cached)) \in Seq(Seq(Token)) BY <2>1, <2>2, FirstTokens
  <2>4. QED BY <2>2, <2>3 DEF ReqKey, Block
<1>7. \A k \in DOMAIN tree.page : k \in DOMAIN tree'.page /\ tree'.page[k] = tree.page[k]
  <2>1. WellShaped(tree, Block) BY DEF TreeOK
  <2>2. QED BY <1>6, <2>1, ReqPages
<1>8. MemTyped' BY <1>1 DEF MemTyped
<1>9. RowHolds(kv, pageTable, reqs'[u]) /\ PoolHolds(pool, reqs'[u])
  <2>1. PICK o \in Request : o = reqs[u] BY <1>2
  <2>2. PICK s : s = reqs'[u] OBVIOUS
  <2>3. /\ Longer(o, s, token) /\ o.cached <= Len(o.ids) /\ RowHolds(kv, pageTable, o)
        /\ PoolHolds(pool, o) /\ pool[o.slot][Len(o.ids) + 1] = token
    BY <1>2, <1>3, <2>1, <2>2
  <2>4. RowHolds(kv, pageTable, s) /\ PoolHolds(pool, s) BY <2>3, LongerHolds
  <2>5. QED BY <2>2, <2>4
<1>10. RowsHold'
  <2>1. ASSUME NEW v \in holds' PROVE RowHolds(kv', pageTable', reqs'[v]) /\ PoolHolds(pool', reqs'[v])
    <3>1. CASE v = u BY <1>5, <1>9, <3>1 DEF RowHolds, TableEntry
    <3>2. CASE v # u BY <1>1, <1>5, <3>2 DEF RowsHold, RowHolds, TableEntry
    <3>3. QED BY <3>1, <3>2
  <2>2. QED BY <2>1 DEF RowsHold
<1>11. AliasOK'
  <2>1. ASSUME NEW v \in holds' PROVE Aliased(pageTable', tree'.page, reqs'[v])
    <3>1. CASE v = u
      <4>1. reqs'[u].slot = r.slot /\ u \in holds' BY DEF Longer
      <4>2. QED BY <1>1, <1>6, <3>1, <4>1, KeyAliased
    <3>2. CASE v # u
      <4>1. v \in holds /\ reqs'[v] = reqs[v] BY <3>2
      <4>2. Aliased(pageTable, tree.page, reqs[v]) BY <1>1, <4>1 DEF AliasOK
      <4>3. HeldIn(tree.page, reqs[v]) BY <4>1, HandlesHeld DEF HandlesIn
      <4>4. QED BY <1>5, <1>7, <4>1, <4>2, <4>3 DEF Aliased, HeldIn
    <3>3. QED BY <3>1, <3>2
  <2>2. QED BY <2>1 DEF AliasOK
<1>12. QED BY <1>4, <1>8, <1>10, <1>11 DEF ExactNow, CacheHolds

(* The results to come after this one are untouched by it.                 *)
LEMMA OthersSampled ==
  ASSUME Going, ~Overlap, SampledOK, pool' = pool, sampled' = sampled, batch' = batch,
         pc = "process", cursor' = cursor + 1, cursor <= Len(batch.reqs),
         NEW u, u = batch.reqs[cursor].uid, \A v \in Uids : v # u => reqs'[v] = reqs[v]
  PROVE  SampledOK'
<1>1. cursor \in Nat \ {0} /\ batch \in Batch /\ BatchOK(batch) BY DEF Going, Types, Phases
<1>2. PICK s : s = batch.reqs OBVIOUS
<1>3. s \in Seq(BatchEntry) /\ Len(s) \in Nat BY <1>1, <1>2 DEF Batch
<1>4. cursor \in 1..Len(s) BY <1>1, <1>2, <1>3
<1>5. ASSUME NEW i \in (cursor + 1)..Len(s), ~s[i].chunked
      PROVE  SampledFrom(i, reqs[s[i].uid]) /\ reqs'[s[i].uid] = reqs[s[i].uid]
  <2>1. i \in cursor..Len(s) /\ i \in 1..Len(s) /\ i # cursor BY <1>1, <1>3
  <2>2. s[i].uid # u
    <3>1. cursor \in DOMAIN s /\ i \in DOMAIN s BY <1>3, <1>4, <2>1
    <3>2. QED BY <1>1, <1>2, <2>1, <3>1 DEF BatchOK
  <2>3. s[i] \in BatchEntry BY <1>3, <2>1
  <2>4. s[i].uid \in Uids BY <2>3 DEF BatchEntry
  <2>5. SampledFrom(i, reqs[s[i].uid]) BY <1>2, <1>5, <2>1 DEF SampledOK
  <2>6. QED BY <2>2, <2>4, <2>5
<1>6. \A i \in (cursor + 1)..Len(s) : ~s[i].chunked =>
        SampledFrom(i, reqs'[s[i].uid])
  BY <1>5
<1>7. QED BY <1>2, <1>6 DEF SampledOK, SampledFrom

(* A result is what was sampled for the request: its end leaves what is    *)
(* stored, and with its token the request knows what was written for it.   *)
LEMMA ResultExact ==
  ASSUME Going, ~Overlap, TreeOK, PagesInv, PagesInv', ExactNow, pool' = pool, kv' = kv,
         late' = late, sampled' = sampled, NEW token \in Vocab, token = sampled[cursor].token,
         ProcessReq(token), pc' = "process", ~GivesAway(token)
  PROVE  ExactNow'
<1>1. PICK u : u = Current.uid OBVIOUS
<1>2. PICK r : r = Appended(token) OBVIOUS
<1>3. pc = "process" /\ cursor <= Len(Results.reqs) /\ ~Current.chunked BY DEF ProcessReq
<1>4. /\ u \in Uids /\ reqs[u] \in Request /\ reqs[u].cached <= Len(reqs[u].ids) + 1
      /\ u \in holds
  BY <1>1, <1>3, ResultFacts
<1>5. /\ Longer(reqs[u], r, token) /\ r.handle = reqs[u].handle
      /\ [r EXCEPT !.handle = ReqKey(r)].handle = ReqKey(r)
      /\ Longer(reqs[u], [r EXCEPT !.handle = ReqKey(r)], token)
  <2>1. PICK o \in Request : o = reqs[u] BY <1>4
  <2>2. r = [o EXCEPT !.ids = Append(o.ids, token)] BY <1>1, <1>2, <2>1 DEF Appended
  <2>3. o.cached <= Len(o.ids) + 1 BY <1>4, <2>1
  <2>4. LET q == [o EXCEPT !.ids = Append(o.ids, token)]
            s == [q EXCEPT !.handle = ReqKey(q)]
        IN  /\ Longer(o, q, token) /\ q.handle = o.handle /\ ReqKey(q) \in Seq(Block)
            /\ Longer(o, s, token) /\ s.handle = ReqKey(q)
    BY <2>3, AppendedFacts
  <2>5. /\ Longer(o, r, token) /\ r.handle = o.handle
        /\ Longer(o, [r EXCEPT !.handle = ReqKey(r)], token)
        /\ [r EXCEPT !.handle = ReqKey(r)].handle = ReqKey(r)
    BY <2>2, <2>4
  <2>6. QED BY <2>1, <2>5
<1>6. /\ r \in Request /\ r.slot = reqs[u].slot /\ r.cached = reqs[u].cached
      /\ IsPrefix(reqs[u].ids, r.ids)
  BY <1>4, <1>5, LongerFacts
<1>7. holds \subseteq Uids /\ reqs \in [Uids -> Request \cup {None}] BY HeldFacts
<1>8. Results = batch /\ u = batch.reqs[cursor].uid BY <1>1 DEF Results, Current
<1>9. pool[reqs[u].slot][Len(reqs[u].ids) + 1] = token
  <2>1. cursor \in Nat \ {0} /\ batch \in Batch BY DEF Going, Types
  <2>2. cursor \in cursor..Len(batch.reqs)
    <3>1. Len(batch.reqs) \in Nat BY <2>1 DEF Batch
    <3>2. QED BY <1>3, <1>8, <2>1, <3>1
  <2>3. ~batch.reqs[cursor].chunked BY <1>3, <1>8 DEF Current
  <2>4. SampledFrom(cursor, reqs[u]) BY <1>3, <1>8, <2>2, <2>3 DEF ExactNow, SampledOK
  <2>5. QED BY <2>4 DEF SampledFrom
<1>10. batch' = batch /\ cursor' = cursor + 1 BY DEF ProcessReq
<1>11. ASSUME NEW q, reqs' = [reqs EXCEPT ![u] = q]
       PROVE  reqs'[u] = q /\ (\A v \in Uids : v # u => reqs'[v] = reqs[v]) /\ SampledOK'
  <2>1. reqs'[u] = q /\ \A v \in Uids : v # u => reqs'[v] = reqs[v] BY <1>4, <1>7, <1>11
  <2>2. SampledOK BY DEF ExactNow
  <2>3. SampledOK' BY <1>3, <1>8, <1>10, <2>1, <2>2, OthersSampled
  <2>4. QED BY <2>1, <2>3
<1>12. CASE FirstFinish(token)
  <2>1. /\ holds' = holds \ {u} /\ CacheReq(r, TRUE) /\ reqs' = [reqs EXCEPT ![u] = r]
    BY <1>1, <1>2, <1>3, <1>12 DEF ProcessReq, FreeReqResources
  <2>2. SampledOK' /\ \A v \in holds \ {u} : reqs'[v] = reqs[v] BY <1>7, <1>11, <2>1
  <2>3. QED BY <1>4, <1>5, <1>6, <2>1, <2>2, EndExact
<1>13. CASE ~FirstFinish(token) /\ Results.phase = "prefill"
  <2>1. PICK s : s = [r EXCEPT !.handle = ReqKey(r)] OBVIOUS
  <2>2. /\ holds' = holds /\ CacheReq(r, FALSE) /\ reqs' = [reqs EXCEPT ![u] = s]
    BY <1>1, <1>2, <1>13, <2>1 DEF ProcessReq
  <2>3. Longer(reqs[u], s, token) /\ s.handle = ReqKey(r) BY <1>5, <2>1
  <2>4. reqs'[u] = s /\ SampledOK' /\ \A v \in holds \ {u} : reqs'[v] = reqs[v]
    BY <1>7, <1>11, <2>2
  <2>5. FreedPages(r, FALSE) = <<>> BY <1>2, <1>13 DEF GivesAway
  <2>6. reqs'[u].handle = ReqKey(r) /\ Longer(reqs[u], reqs'[u], token) BY <2>3, <2>4
  <2>7. QED BY <1>4, <1>5, <1>6, <1>9, <2>2, <2>4, <2>5, <2>6, KeepExact
<1>14. CASE ~FirstFinish(token) /\ Results.phase # "prefill"
  <2>1. UNCHANGED <<pageTable, holds, tree>> /\ reqs' = [reqs EXCEPT ![u] = r]
    BY <1>1, <1>2, <1>14 DEF ProcessReq, cacheVars
  <2>2. reqs'[u] = r /\ SampledOK' /\ \A v \in Uids : v # u => reqs'[v] = reqs[v]
    BY <1>11, <2>1
  <2>3. MemTyped /\ RowsHold /\ AliasOK /\ CacheHolds(kv, tree.page) BY DEF ExactNow
  <2>4. RowHolds(kv, pageTable, r) /\ PoolHolds(pool, r)
    <3>1. PICK o \in Request : o = reqs[u] BY <1>4
    <3>2. /\ Longer(o, r, token) /\ o.cached <= Len(o.ids) /\ RowHolds(kv, pageTable, o)
          /\ PoolHolds(pool, o) /\ pool[o.slot][Len(o.ids) + 1] = token
      BY <1>4, <1>5, <1>9, <2>3, <3>1, KnownTokens DEF RowsHold
    <3>3. QED BY <3>2, LongerHolds
  <2>5. MemTyped' BY <2>3 DEF MemTyped
  <2>6. RowsHold'
    <3>1. ASSUME NEW v \in holds
          PROVE  RowHolds(kv, pageTable, reqs'[v]) /\ PoolHolds(pool, reqs'[v])
      <4>1. CASE v = u BY <2>2, <2>4, <4>1
      <4>2. CASE v # u
        <5>1. reqs'[v] = reqs[v] BY <1>7, <2>2, <4>2
        <5>2. QED BY <2>3, <5>1 DEF RowsHold
      <4>3. QED BY <4>1, <4>2
    <3>2. QED BY <2>1, <3>1 DEF RowsHold, RowHolds, TableEntry
  <2>7. AliasOK'
    <3>1. ASSUME NEW v \in holds PROVE Aliased(pageTable, tree.page, reqs'[v])
      <4>1. Aliased(pageTable, tree.page, reqs[v]) BY <2>3 DEF AliasOK
      <4>2. reqs'[v].handle = reqs[v].handle /\ reqs'[v].slot = reqs[v].slot
        <5>1. CASE v = u BY <1>5, <1>6, <2>2, <5>1
        <5>2. CASE v # u BY <1>7, <2>2, <5>2
        <5>3. QED BY <5>1, <5>2
      <4>3. QED BY <4>1, <4>2 DEF Aliased
    <3>2. QED BY <2>1, <3>1 DEF AliasOK
  <2>8. QED BY <2>1, <2>2, <2>3, <2>5, <2>6, <2>7 DEF ExactNow, CacheHolds
<1>15. QED BY <1>12, <1>13, <1>14

(* A row with a prompt copied behind the part that is already there.       *)
ToCopy(row, s, a, n) ==
  /\ row \in [1..TableWidth -> Tokens] /\ s \in Seq(Token) /\ a \in Nat /\ n \in Nat
  /\ a <= n /\ n <= Len(s) /\ Len(s) <= TableWidth /\ \A p \in 1..a : row[p] = s[p]
Copied(w, s, n) == w \in [1..TableWidth -> Tokens] /\ \A p \in 1..n : w[p] = s[p]

LEMMA CopiedRow ==
  ASSUME NEW row, NEW s, NEW a, NEW n, ToCopy(row, s, a, n),
         NEW w, w = Overwrite(row, a, SubSeq(s, a + 1, n))
  PROVE  Copied(w, s, n)
<1>0. /\ row \in [1..TableWidth -> Tokens] /\ s \in Seq(Token) /\ a \in Nat /\ n \in Nat
      /\ a <= n /\ n <= Len(s) /\ Len(s) <= TableWidth /\ \A p \in 1..a : row[p] = s[p]
  BY DEF ToCopy
<1>1. TableWidth \in Nat BY TableWidthAssumption
<1>2. row \in Seq(Tokens) /\ Len(row) = TableWidth BY <1>0, <1>1
<1>3. PICK new : new = SubSeq(s, a + 1, n) OBVIOUS
<1>4. new \in Seq(Tokens) /\ Len(new) = n - a /\ \A i \in 1..(n - a) : new[i] = s[a + i]
  <2>1. Len(new) = n - a /\ \A i \in 1..(n - a) : new[i] = s[a + i] BY <1>0, <1>3, PartOfRow
  <2>2. new \in Seq(Token) BY <1>0, <1>3
  <2>3. QED BY <2>1, <2>2 DEF Tokens
<1>5. a <= Len(row) BY <1>0, <1>1, <1>2
<1>6. /\ w \in Seq(Tokens)
      /\ Len(w) = IF a + Len(new) <= Len(row) THEN Len(row) ELSE a + Len(new)
      /\ \A i \in 1..a : w[i] = row[i]
      /\ \A i \in 1..Len(new) : w[a + i] = new[i]
  <2>1. PICK x \in Seq(Tokens), y \in Seq(Tokens), b \in Nat : x = row /\ y = new /\ b = a
    BY <1>0, <1>2, <1>4
  <2>2. b <= Len(x) BY <1>5, <2>1
  <2>3. LET v == Overwrite(x, b, y)
        IN  /\ v \in Seq(Tokens)
            /\ Len(v) = IF b + Len(y) <= Len(x) THEN Len(x) ELSE b + Len(y)
            /\ \A i \in 1..b : v[i] = x[i]
            /\ \A i \in 1..Len(y) : v[b + i] = y[i]
    BY <2>2, OverwriteRow
  <2>4. w = Overwrite(x, b, y) BY <1>3, <2>1
  <2>5. QED BY <2>1, <2>3, <2>4
<1>7. Len(w) = TableWidth
  <2>1. a + Len(new) = n BY <1>0, <1>4
  <2>2. n <= Len(row) BY <1>0, <1>1, <1>2
  <2>3. QED BY <1>2, <1>6, <2>1, <2>2
<1>8. w \in [1..TableWidth -> Tokens]
  <2>1. w \in [1..Len(w) -> Tokens] BY <1>6
  <2>2. QED BY <1>7, <2>1
<1>9. ASSUME NEW p \in 1..n PROVE w[p] = s[p]
  <2>1. CASE p <= a BY <1>0, <1>6, <2>1
  <2>2. CASE ~(p <= a)
    <3>1. PICK i \in 1..(n - a) : p = a + i
      <4>1. p - a \in 1..(n - a) /\ p = a + (p - a) BY <1>0, <2>2
      <4>2. QED BY <4>1
    <3>2. w[a + i] = new[i] /\ new[i] = s[a + i] BY <1>4, <1>6
    <3>3. QED BY <3>1, <3>2
  <2>3. QED BY <2>1, <2>2
<1>10. QED BY <1>8, <1>9 DEF Copied

(* What an admission copies is what the request knows.                     *)
AdmittedAs(u, n, r, handle, slot, cached) ==
  /\ cached <= n /\ n <= Len(Prompt[u])
  /\ r \in Request /\ r.ids = SubSeq(Prompt[u], 1, n) /\ r.handle = handle /\ r.slot = slot
  /\ r.cached = cached /\ reqs' = [reqs EXCEPT ![u] = r]
CopiedFor(r, slot) ==
  /\ PoolHolds(pool', r) /\ MemTyped' /\ kv' = kv /\ spoilt' = spoilt
  /\ \A s \in Slot : s # slot => pool'[s] = pool[s]

LEMMA AdmittedCopy ==
  ASSUME Going, pc = "admit", More, NEW u, u = Candidate.uid, ~TooLong(u),
         NEW handle \in Seq(Block), NEW slot \in Slot, NEW cached \in Nat,
         cached < Len(Prompt[u]), AddOneReq(u, handle, slot, cached), MemTyped,
         NEW first \in 0..cached, \A p \in 1..first : pool[slot][p] = Prompt[u][p],
         CopyPrompt(u, first)
  PROVE  \E n \in Nat : \E r : AdmittedAs(u, n, r, handle, slot, cached) /\ CopiedFor(r, slot)
<1>1. u \in Uids /\ Prompt[u] \in Seq(Token) /\ Len(Prompt[u]) \in Nat
  BY CandidateFacts, RequestFacts
<1>2. PICK n \in Nat, r \in Request :
         /\ cached <= n /\ n <= Len(Prompt[u])
         /\ r.ids = SubSeq(Prompt[u], 1, n) /\ r.handle = handle /\ r.slot = slot
         /\ r.cached = cached /\ reqs' = [reqs EXCEPT ![u] = r]
  BY AdmittedReq
<1>3. reqs'[u] = r BY <1>1, <1>2, HeldFacts
<1>4. /\ Len(r.ids) = n /\ r.ids \in Seq(Token)
      /\ \A p \in 1..n : r.ids[p] = Prompt[u][p]
  <2>1. n \in 0..Len(Prompt[u]) BY <1>1, <1>2
  <2>2. QED BY <1>1, <1>2, <2>1, FirstPart
<1>5. r.device = n
  <2>1. PICK w \in PendingReq, e \in BatchEntry, q \in Request : Adds(u, handle, slot, cached, w, e, q)
    BY AddOneReqFacts
  <2>2. reqs' = [reqs EXCEPT ![u] = q] /\ q.device = Len(q.ids) BY <2>1 DEF Adds
  <2>3. reqs'[u] = q BY <1>1, <2>2, HeldFacts
  <2>4. QED BY <1>3, <1>4, <2>2, <2>3
<1>6. /\ late = {} /\ pool \in [Slot \cup {NumSlots} -> [1..TableWidth -> Tokens]]
      /\ kv \in [Location -> Seq(Tokens)]
  BY DEF MemTyped
<1>7. PICK w : w = Overwrite(pool[slot], first, SubSeq(Prompt[u], first + 1, n)) OBVIOUS
<1>8. /\ pool' = [pool EXCEPT ![slot] = w] /\ late' = {} /\ spoilt' = spoilt /\ kv' = kv
  BY <1>2, <1>3, <1>5, <1>6, <1>7 DEF CopyPrompt
<1>9. w \in [1..TableWidth -> Tokens] /\ \A p \in 1..n : w[p] = Prompt[u][p]
  <2>1. Len(Prompt[u]) <= TableWidth
    <3>1. ~(Len(Prompt[u]) >= MaxSeqLen) BY DEF TooLong
    <3>2. TableWidth >= MaxSeqLen /\ TableWidth \in Nat /\ MaxSeqLen \in Nat
      BY TableWidthAssumption, BudgetAssumption
    <3>3. QED BY <1>1, <3>1, <3>2
  <2>2. first \in Nat /\ first <= n BY <1>2
  <2>3. pool[slot] \in [1..TableWidth -> Tokens] BY <1>6
  <2>4. ToCopy(pool[slot], Prompt[u], first, n) BY <1>1, <1>2, <2>1, <2>2, <2>3 DEF ToCopy
  <2>5. Copied(w, Prompt[u], n) BY <1>7, <2>4, CopiedRow
  <2>6. QED BY <2>5 DEF Copied
<1>10. pool'[slot] = w /\ \A s \in Slot : s # slot => pool'[s] = pool[s] BY <1>6, <1>8
<1>11. MemTyped' BY <1>6, <1>8, <1>9 DEF MemTyped
<1>12. PoolHolds(pool', r) BY <1>2, <1>4, <1>9, <1>10 DEF PoolHolds
<1>13. CopiedFor(r, slot) BY <1>8, <1>10, <1>11, <1>12 DEF CopiedFor
<1>14. AdmittedAs(u, n, r, handle, slot, cached) BY <1>2 DEF AdmittedAs
<1>15. QED BY <1>13, <1>14

(* The first tokens of a part of a prompt.                                 *)
LEMMA SameBeginning ==
  ASSUME NEW s \in Seq(Token), NEW n \in Nat, n <= Len(s), NEW c \in Nat, c <= n,
         NEW p \in 0..(c - 1)
  PROVE  /\ SubSeq(SubSeq(s, 1, n), 1, p + 1) = SubSeq(s, 1, p + 1)
         /\ SubSeq(SubSeq(s, 1, c), 1, p + 1) = SubSeq(s, 1, p + 1)
<1>1. /\ n \in 0..Len(s) /\ c \in 0..Len(s) /\ p + 1 \in 0..n /\ p + 1 \in 0..c OBVIOUS
<1>2. PICK q \in 0..n : q = p + 1 BY <1>1
<1>3. q \in 0..c BY <1>1, <1>2
<1>4. QED BY <1>1, <1>2, <1>3, PrefixOfPrefix

(* The next chunk of a prompt.                                             *)
LEMMA ChunkExact ==
  ASSUME Going, RowsOK, ~Overlap, PagesInv, PagesInv', ExactNow, ContinueChunk
  PROVE  ExactNow' /\ spoilt' = spoilt /\ pc' = "admit"
<1>1. PICK u : u = Candidate.uid OBVIOUS
<1>2. PICK o : o = reqs[u] OBVIOUS
<1>3. /\ pc = "admit" /\ pc' = pc /\ More /\ Candidate.chunked /\ UNCHANGED <<holds, cacheVars>>
      /\ AddOneReq(u, o.handle, o.slot, o.cached) /\ CopyPrompt(u, o.cached)
  BY <1>1, <1>2 DEF ContinueChunk, AdmitChunk
<1>4. /\ u \in Uids /\ u \in holds /\ ChunkWaits(u) /\ u \notin InBatch(batch) /\ ~TooLong(u)
  BY <1>1, <1>3, CandidateFacts DEF Untaken, Pends
<1>5. o \in Request /\ KeyOK(u, o) /\ holds \subseteq Uids BY <1>2, <1>4 DEF PagesInv, PagesRows
<1>6. ChunkLengths(u) BY <1>4 DEF Going, LengthsOK, Begun
<1>7. /\ o.ids \in Seq(Token) /\ o.handle \in Seq(Block) /\ o.slot \in Slot /\ o.cached \in Nat
      /\ o.cached = Len(o.ids) /\ o.cached < Len(Prompt[u])
  BY <1>2, <1>5, <1>6 DEF Request, ChunkLengths
<1>8. Prompt[u] \in Seq(Token) /\ Len(Prompt[u]) \in Nat BY <1>4, RequestFacts
<1>9. o.ids = SubSeq(Prompt[u], 1, o.cached) BY <1>5, <1>7, <1>8 DEF KeyOK
<1>10. MemTyped /\ RowsHold /\ AliasOK /\ CacheHolds(kv, tree.page) BY DEF ExactNow
<1>11. \A p \in 1..o.cached : pool[o.slot][p] = Prompt[u][p]
  <2>1. PoolHolds(pool, o) BY <1>2, <1>4, <1>10 DEF RowsHold
  <2>2. o.cached \in 0..Len(Prompt[u]) BY <1>7, <1>8
  <2>3. \A p \in 1..o.cached : o.ids[p] = Prompt[u][p] BY <1>8, <1>9, <2>2, FirstPart
  <2>4. QED BY <1>7, <2>1, <2>3 DEF PoolHolds
<1>12. PICK n \in Nat : \E q : AdmittedAs(u, n, q, o.handle, o.slot, o.cached) /\ CopiedFor(q, o.slot)
  <2>1. PICK h \in Seq(Block), sl \in Slot, c \in Nat : h = o.handle /\ sl = o.slot /\ c = o.cached
    BY <1>7
  <2>2. /\ AddOneReq(u, h, sl, c) /\ c < Len(Prompt[u]) /\ c \in 0..c /\ CopyPrompt(u, c)
        /\ \A p \in 1..c : pool[sl][p] = Prompt[u][p]
    BY <1>3, <1>7, <1>11, <2>1
  <2>3. \E n \in Nat : \E r : AdmittedAs(u, n, r, h, sl, c) /\ CopiedFor(r, sl)
    BY <1>1, <1>3, <1>4, <1>10, <2>2, AdmittedCopy
  <2>4. QED BY <2>1, <2>3
<1>22. PICK r : AdmittedAs(u, n, r, o.handle, o.slot, o.cached) /\ CopiedFor(r, o.slot) BY <1>12
<1>13. /\ o.cached <= n /\ n <= Len(Prompt[u]) /\ r \in Request /\ r.ids = SubSeq(Prompt[u], 1, n)
       /\ r.handle = o.handle /\ r.slot = o.slot /\ r.cached = o.cached
       /\ reqs' = [reqs EXCEPT ![u] = r]
  BY <1>22 DEF AdmittedAs
<1>14. /\ PoolHolds(pool', r) /\ MemTyped' /\ kv' = kv /\ spoilt' = spoilt
       /\ \A s \in Slot : s # o.slot => pool'[s] = pool[s]
  BY <1>22 DEF CopiedFor
<1>15. reqs'[u] = r /\ \A v \in holds \ {u} : reqs'[v] = reqs[v] BY <1>4, <1>5, <1>13, HeldFacts
<1>16. RowHolds(kv, pageTable, r)
  <2>1. ASSUME NEW p \in 0..(r.cached - 1)
        PROVE  kv[TableEntry(pageTable, r.slot, p)] = SubSeq(r.ids, 1, p + 1)
    <3>1. PICK c \in Nat : c = o.cached BY <1>7
    <3>2. p \in 0..(c - 1) /\ c <= n BY <1>13, <2>1, <3>1
    <3>3. SubSeq(r.ids, 1, p + 1) = SubSeq(o.ids, 1, p + 1)
      BY <1>8, <1>9, <1>13, <3>1, <3>2, SameBeginning
    <3>4. RowHolds(kv, pageTable, o) BY <1>2, <1>4, <1>10 DEF RowsHold
    <3>5. kv[TableEntry(pageTable, o.slot, p)] = SubSeq(o.ids, 1, p + 1)
      BY <3>1, <3>2, <3>4 DEF RowHolds
    <3>6. QED BY <1>13, <3>3, <3>5
  <2>2. QED BY <2>1 DEF RowHolds
<1>17. UNCHANGED <<holds, tree, pageTable>> BY <1>3 DEF cacheVars
<1>18. RowsHold'
  <2>1. ASSUME NEW v \in holds
        PROVE  RowHolds(kv, pageTable, reqs'[v]) /\ PoolHolds(pool', reqs'[v])
    <3>1. CASE v = u BY <1>14, <1>15, <1>16, <3>1
    <3>2. CASE v # u
      <4>1. reqs'[v] = reqs[v] BY <1>15, <3>2
      <4>2. reqs[v].slot # o.slot /\ reqs[v].slot \in Slot BY <1>2, <1>4, <3>2 DEF RowsOK
      <4>3. RowHolds(kv, pageTable, reqs[v]) /\ PoolHolds(pool, reqs[v]) BY <1>10 DEF RowsHold
      <4>4. PoolHolds(pool', reqs[v]) BY <1>14, <4>2, <4>3 DEF PoolHolds
      <4>5. QED BY <4>1, <4>3, <4>4
    <3>3. QED BY <3>1, <3>2
  <2>2. QED BY <1>14, <1>17, <2>1 DEF RowsHold, RowHolds, TableEntry
<1>19. AliasOK'
  <2>1. ASSUME NEW v \in holds PROVE Aliased(pageTable, tree.page, reqs'[v])
    <3>1. Aliased(pageTable, tree.page, reqs[v]) BY <1>10 DEF AliasOK
    <3>2. reqs'[v].handle = reqs[v].handle /\ reqs'[v].slot = reqs[v].slot
      <4>1. CASE v = u BY <1>2, <1>13, <1>15, <4>1
      <4>2. CASE v # u BY <1>15, <4>2
      <4>3. QED BY <4>1, <4>2
    <3>3. QED BY <3>1, <3>2 DEF Aliased
  <2>2. QED BY <1>17, <2>1 DEF AliasOK
<1>20. SampledOK' BY <1>3 DEF SampledOK
<1>21. QED BY <1>3, <1>10, <1>14, <1>17, <1>18, <1>19, <1>20 DEF ExactNow, CacheHolds

(* The row of a new request begins with the pages of what was found.       *)
LEMMA MatchedRow ==
  ASSUME TreeOK, PagesRows, NEW slot \in Slot, NEW key \in Seq(Block), NEW k, k = Matched(tree, key),
         NEW row, row = Overwrite(pageTable[slot], 0, PagesOf(Walk(tree, key), k))
  PROVE  \A i \in 1..Len(k) : /\ SubSeq(k, 1, i) \in DOMAIN tree.page
                              /\ row[i] = tree.page[SubSeq(k, 1, i)]
<1>1. WellShaped(tree, Block) /\ tree.page \in [Covered(tree) -> Page] /\ pageTable[slot] \in Seq(Page)
  BY DEF TreeOK, PagesRows
<1>2. PICK w : w = Walk(tree, key) OBVIOUS
<1>3. /\ k \in Seq(Block) /\ k \in Covered(tree) \cup {<<>>} /\ w.page = tree.page
  BY <1>1, <1>2, MatchedIsLongest, WalkShape
<1>4. PICK pages : pages = PagesOf(w, k) OBVIOUS
<1>5. pages = [i \in 1..Len(k) |-> tree.page[SubSeq(k, 1, i)]] BY <1>3, <1>4 DEF PagesOf
<1>6. \A i \in 1..Len(k) : SubSeq(k, 1, i) \in Covered(tree) BY <1>1, <1>3 DEF WellShaped, Shaped
<1>7. pages \in Seq(Page) /\ Len(pages) = Len(k)
  <2>1. Len(k) \in Nat BY <1>3
  <2>2. pages \in [1..Len(k) -> Page] BY <1>1, <1>5, <1>6
  <2>3. QED BY <2>1, <2>2
<1>8. \A i \in 1..Len(pages) : row[i] = pages[i]
  <2>1. PICK x \in Seq(Page), y \in Seq(Page) : x = pageTable[slot] /\ y = pages BY <1>1, <1>7
  <2>2. LET v == Overwrite(x, 0, y)
        IN  /\ v \in Seq(Page)
            /\ Len(v) = IF 0 + Len(y) <= Len(x) THEN Len(x) ELSE 0 + Len(y)
            /\ \A i \in 1..0 : v[i] = x[i]
            /\ \A i \in 1..Len(y) : v[0 + i] = y[i]
    <3>1. 0 \in Nat /\ 0 <= Len(x) BY <2>1
    <3>2. QED BY <3>1, OverwriteRow
  <2>3. row = Overwrite(x, 0, y) BY <1>2, <1>4, <2>1
  <2>4. \A i \in 1..Len(y) : 0 + i = i BY <2>1
  <2>5. QED BY <2>1, <2>2, <2>3, <2>4
<1>9. QED BY <1>5, <1>6, <1>7, <1>8 DEF Covered

(* What was found for a prompt holds its first tokens.                     *)
LEMMA FoundHolds ==
  ASSUME MemTyped, CacheHolds(kv, tree.page), NEW most \in Seq(Token),
         NEW k, k = Matched(tree, Key(most)),
         \A i \in 1..Len(k) : SubSeq(k, 1, i) \in DOMAIN tree.page,
         NEW p \in 0..(Len(k) * PageSize - 1)
  PROVE  /\ PageIn(p) \in 1..Len(k) /\ p + 1 \in 1..Len(most)
         /\ kv[tree.page[SubSeq(k, 1, PageIn(p))] * PageSize + PlaceIn(p)] = SubSeq(most, 1, p + 1)
<1>1. PageSize \in Nat \ {0} BY PageSizeAssumption
<1>2. Key(most) \in Seq(Block) BY KeyType DEF Block
<1>3. PICK m : m = MatchLen(tree, Key(most)) OBVIOUS
<1>4. m \in 0..Len(Key(most)) /\ k = SubSeq(Key(most), 1, m) /\ Len(k) = m /\ Len(Key(most)) \in Nat
  BY <1>2, <1>3, MatchedIsLongest DEF Matched
<1>16. p \in Nat
  <2>1. Len(k) * PageSize \in Nat BY <1>1, <1>4
  <2>2. QED BY <2>1
<1>5. PICK i \in Nat \ {0}, b \in 0..(PageSize - 1) :
        i = PageIn(p) /\ b = PlaceIn(p) /\ p = (i - 1) * PageSize + b
  BY <1>16, PositionParts
<1>6. i \in 1..Len(k)
  <2>1. p \in Nat /\ m \in Nat /\ p < m * PageSize
    <3>1. m \in Nat /\ m * PageSize \in Nat BY <1>1, <1>4
    <3>2. QED BY <1>4, <3>1
  <2>2. i <= m BY <1>5, <2>1, PageOrder
  <2>3. QED BY <1>4, <1>5, <2>1, <2>2
<1>7. i \in 1..Len(Key(most)) /\ i \in 0..m BY <1>4, <1>6
<1>8. PICK q : q = SubSeq(k, 1, i) OBVIOUS
<1>9. q = SubSeq(Key(most), 1, i) /\ Len(q) = i
  <2>1. q = SubSeq(Key(most), 1, i) BY <1>2, <1>4, <1>7, <1>8, PrefixOfPrefix
  <2>2. i \in 0..Len(Key(most)) BY <1>4, <1>7
  <2>3. QED BY <1>2, <2>1, <2>2, FirstPart
<1>10. PICK j \in 1..PageSize : j = b + 1 BY <1>1
<1>11. (i - 1) * PageSize + j = p + 1 /\ j - 1 = b
  <2>1. (i - 1) * PageSize \in Nat BY <1>1
  <2>2. PICK x \in Nat : x = (i - 1) * PageSize BY <2>1
  <2>6. b \in Nat
    <3>1. PageSize - 1 \in Nat BY <1>1
    <3>2. QED BY <3>1
  <2>3. p = x + b /\ j = b + 1 /\ b \in Nat BY <1>5, <1>10, <2>2, <2>6
  <2>4. x + j = p + 1 /\ j - 1 = b BY <2>3
  <2>5. QED BY <2>2, <2>4
<1>12. /\ p + 1 \in 1..Len(most)
       /\ SubSeq(FlattenSeq(q), 1, p + 1) = SubSeq(most, 1, p + 1)
  BY <1>7, <1>9, <1>11, KeyHolds
<1>13. q \in DOMAIN tree.page BY <1>6, <1>8
<1>14. kv[tree.page[q] * PageSize + (j - 1)] = SubSeq(FlattenSeq(q), 1, (Len(q) - 1) * PageSize + j)
  BY <1>13 DEF CacheHolds
<1>15. QED BY <1>5, <1>6, <1>8, <1>9, <1>11, <1>12, <1>14

(* A new request.                                                          *)
LEMMA AdmitExact ==
  ASSUME Going, RowsOK, TreeOK, ~Overlap, PagesInv, PagesInv', ExactNow, Admit
  PROVE  ExactNow' /\ spoilt' = spoilt /\ pc' = "admit"
<1>1. PICK u : u = Candidate.uid OBVIOUS
<1>2. PICK k : k = TriedHandle OBVIOUS
<1>3. PICK sl : sl = Last(freeSlots) OBVIOUS
<1>4. PICK c : c = Len(k) * PageSize OBVIOUS
<1>5. PICK key : key = MatchKey(Prompt[u]) OBVIOUS
<1>6. PICK row : row = Overwrite(pageTable[sl], 0, PagesOf(Walk(tree, key), k)) OBVIOUS
<1>7. k = Matched(tree, key) /\ Tried = Walk(tree, key) BY <1>1, <1>2, <1>5 DEF TriedHandle, Tried
<1>8. /\ pc = "admit" /\ pc' = pc /\ More /\ ~Candidate.chunked /\ freeSlots # <<>>
      /\ holds' = holds \cup {u} /\ pageTable' = [pageTable EXCEPT ![sl] = row]
      /\ AddOneReq(u, k, sl, c) /\ CopyPrompt(u, 0)
  <2>1. AdmitNew /\ CopyPrompt(u, 0) BY <1>1 DEF Admit
  <2>2. QED BY <1>1, <1>2, <1>3, <1>4, <1>6, <1>7, <2>1 DEF AdmitNew
<1>9. u \in Uids /\ ~TooLong(u) /\ u \notin holds
  BY <1>1, <1>8, CandidateFacts DEF Pends, Untaken
<1>10. key \in Seq(Block) /\ k \in Seq(Block) /\ c \in Nat /\ c < Len(Prompt[u])
  BY <1>1, <1>2, <1>4, <1>5, <1>9, TriedFacts
<1>11. /\ PagesRows /\ holds \subseteq Uids /\ pageTable \in [Slot -> Seq(Page)]
  BY DEF PagesInv, PagesRows
<1>12. sl \in Slot /\ sl \in ToSet(freeSlots)
  <2>1. freeSlots \in Seq(Slot) /\ Len(freeSlots) \in 1..Len(freeSlots)
    BY <1>8, EmptySeq DEF RowsOK
  <2>2. QED BY <1>3, <2>1 DEF Last, ToSet
<1>13. \A v \in holds : reqs[v].slot # sl /\ reqs[v].slot \in Slot BY <1>12 DEF RowsOK
<1>14. \A i \in 1..Len(k) : /\ SubSeq(k, 1, i) \in DOMAIN tree.page
                            /\ row[i] = tree.page[SubSeq(k, 1, i)]
  BY <1>6, <1>7, <1>10, <1>11, <1>12, MatchedRow
<1>15. MemTyped /\ RowsHold /\ AliasOK /\ CacheHolds(kv, tree.page) BY DEF ExactNow
<1>16. PICK n \in Nat : \E q : AdmittedAs(u, n, q, k, sl, c) /\ CopiedFor(q, sl)
  <2>1. 0 \in 0..c /\ \A p \in 1..0 : pool[sl][p] = Prompt[u][p] BY <1>10
  <2>2. QED BY <1>1, <1>8, <1>9, <1>10, <1>12, <1>15, <2>1, AdmittedCopy
<1>30. PICK r : AdmittedAs(u, n, r, k, sl, c) /\ CopiedFor(r, sl) BY <1>16
<1>17. /\ c <= n /\ n <= Len(Prompt[u]) /\ r \in Request /\ r.ids = SubSeq(Prompt[u], 1, n)
       /\ r.handle = k /\ r.slot = sl /\ r.cached = c /\ reqs' = [reqs EXCEPT ![u] = r]
  BY <1>30 DEF AdmittedAs
<1>18. /\ PoolHolds(pool', r) /\ MemTyped' /\ kv' = kv /\ spoilt' = spoilt
       /\ \A s \in Slot : s # sl => pool'[s] = pool[s]
  BY <1>30 DEF CopiedFor
<1>19. reqs'[u] = r /\ \A v \in holds : reqs'[v] = reqs[v] BY <1>9, <1>11, <1>17, HeldFacts
<1>20. /\ pageTable'[sl] = row
       /\ \A v \in holds : pageTable'[reqs[v].slot] = pageTable[reqs[v].slot]
  BY <1>8, <1>11, <1>12, <1>13
<1>21. tree'.page = tree.page
  <2>1. AdmitNew BY DEF Admit
  <2>2. QED BY <1>1, <1>2, <2>1, AdmitNewRows
<1>22. Prompt[u] \in Seq(Token) /\ Len(Prompt[u]) \in Nat \ {0} BY <1>9, RequestFacts
<1>23. PICK most : most = SubSeq(Prompt[u], 1, Len(Prompt[u]) - 1) OBVIOUS
<1>24. most \in Seq(Token) /\ Len(most) = Len(Prompt[u]) - 1 /\ key = Key(most)
  <2>1. Len(Prompt[u]) - 1 \in 0..Len(Prompt[u]) BY <1>22
  <2>2. QED BY <1>5, <1>22, <1>23, <2>1, FirstPart DEF MatchKey
<1>25. RowHolds(kv, pageTable', r)
  <2>1. ASSUME NEW p \in 0..(r.cached - 1)
        PROVE  kv[TableEntry(pageTable', r.slot, p)] = SubSeq(r.ids, 1, p + 1)
    <3>1. p \in 0..(Len(k) * PageSize - 1) BY <1>4, <1>17
    <3>2. /\ PageIn(p) \in 1..Len(k) /\ p + 1 \in 1..Len(most)
          /\ kv[tree.page[SubSeq(k, 1, PageIn(p))] * PageSize + PlaceIn(p)] = SubSeq(most, 1, p + 1)
      BY <1>7, <1>14, <1>15, <1>24, <3>1, FoundHolds
    <3>3. row[PageIn(p)] = tree.page[SubSeq(k, 1, PageIn(p))] BY <1>14, <3>2
    <3>4. TableEntry(pageTable', r.slot, p) = row[PageIn(p)] * PageSize + PlaceIn(p)
      <4>1. u \in holds' BY <1>8
      <4>2. PagesRows' BY DEF PagesInv
      <4>3. RowOK(pageTable', reqs'[u]) /\ pageTable' \in [Slot -> Seq(Page)]
        BY <4>1, <4>2 DEF PagesRows
      <4>4. RowOK(pageTable', r) /\ pageTable'[r.slot] \in Seq(Page) BY <1>12, <1>17, <1>19, <4>3
      <4>5. TableEntry(pageTable', r.slot, p) = pageTable'[r.slot][PageIn(p)] * PageSize + PlaceIn(p)
        BY <4>4, EntryOf
      <4>6. QED BY <1>17, <1>20, <4>5
    <3>5. SubSeq(r.ids, 1, p + 1) = SubSeq(Prompt[u], 1, p + 1)
      BY <1>10, <1>17, <1>22, <2>1, SameBeginning
    <3>6. SubSeq(most, 1, p + 1) = SubSeq(Prompt[u], 1, p + 1)
      <4>1. PICK l \in Nat : l = Len(Prompt[u]) - 1 /\ l <= Len(Prompt[u])
        <5>1. Len(Prompt[u]) - 1 \in Nat /\ Len(Prompt[u]) - 1 <= Len(Prompt[u]) BY <1>22
        <5>2. QED BY <5>1
      <4>2. p \in 0..(l - 1) /\ most = SubSeq(Prompt[u], 1, l) BY <1>23, <1>24, <3>2, <4>1, <2>1
      <4>3. QED BY <1>22, <4>1, <4>2, SameBeginning
    <3>7. QED BY <3>2, <3>3, <3>4, <3>5, <3>6
  <2>2. QED BY <2>1 DEF RowHolds
<1>26. RowsHold'
  <2>1. ASSUME NEW v \in holds'
        PROVE  RowHolds(kv, pageTable', reqs'[v]) /\ PoolHolds(pool', reqs'[v])
    <3>1. CASE v = u BY <1>18, <1>19, <1>25, <3>1
    <3>2. CASE v # u
      <4>1. v \in holds /\ reqs'[v] = reqs[v] BY <1>8, <1>19, <3>2
      <4>2. reqs[v].slot # sl /\ reqs[v].slot \in Slot BY <1>13, <4>1
      <4>3. RowHolds(kv, pageTable, reqs[v]) /\ PoolHolds(pool, reqs[v]) BY <1>15, <4>1 DEF RowsHold
      <4>4. PoolHolds(pool', reqs[v]) BY <1>18, <4>2, <4>3 DEF PoolHolds
      <4>5. RowHolds(kv, pageTable', reqs[v])
        <5>1. pageTable'[reqs[v].slot] = pageTable[reqs[v].slot] BY <1>20, <4>1
        <5>2. QED BY <4>3, <5>1 DEF RowHolds, TableEntry
      <4>6. QED BY <4>1, <4>4, <4>5
    <3>3. QED BY <3>1, <3>2
  <2>2. QED BY <1>18, <2>1 DEF RowsHold, RowHolds, TableEntry
<1>27. AliasOK'
  <2>1. ASSUME NEW v \in holds' PROVE Aliased(pageTable', tree.page, reqs'[v])
    <3>1. CASE v = u BY <1>14, <1>17, <1>19, <1>20, <3>1 DEF Aliased
    <3>2. CASE v # u
      <4>1. v \in holds /\ reqs'[v] = reqs[v] BY <1>8, <1>19, <3>2
      <4>2. Aliased(pageTable, tree.page, reqs[v]) BY <1>15, <4>1 DEF AliasOK
      <4>3. QED BY <1>20, <4>1, <4>2 DEF Aliased
    <3>3. QED BY <3>1, <3>2
  <2>2. QED BY <1>21, <2>1 DEF AliasOK
<1>28. SampledOK' BY <1>8 DEF SampledOK
<1>29. QED BY <1>8, <1>15, <1>18, <1>21, <1>26, <1>27, <1>28 DEF ExactNow, CacheHolds

NoFault == pc \notin {"unlock failed", "freed twice"}
PagesKnown == pc # "freed twice" => PagesInv

LEMMA ExactInit == ServingInit => ExactInv
<1> SUFFICES ASSUME ServingInit PROVE ExactInv OBVIOUS
<1>1. /\ pc = "receive" /\ holds = {} /\ tree.page = [k \in {} |-> 0] /\ late = {}
      /\ pool = [s \in Slot \cup {NumSlots} |-> [p \in 1..TableWidth |-> 0]]
      /\ kv = [l \in Location |-> Garbage]
  BY DEF ServingInit, Init, MemInit, CacheInit, EmptyTree
<1>2. MemTyped BY <1>1 DEF MemTyped, Tokens, Garbage
<1>3. RowsHold /\ AliasOK BY <1>1 DEF RowsHold, AliasOK
<1>4. CacheHolds(kv, tree.page) BY <1>1 DEF CacheHolds
<1>5. SampledOK BY <1>1 DEF SampledOK
<1>6. QED BY <1>1, <1>2, <1>3, <1>4, <1>5 DEF ExactInv, ExactNow

LEMMA ExactStep ==
  ASSUME ~Overlap, SchedInv, SamplesOK, NoFault, NoFault', PagesKnown, PagesKnown', ExactInv,
         [ServingNext]_allVars
  PROVE  ExactInv'
<1>1. PagesInv /\ PagesInv' BY DEF NoFault, PagesKnown
<1>2. pc \notin Stopped => Going BY DEF SchedInv
<1>3. RowsOK /\ TreeOK BY DEF SchedInv, NoFault
<1>4. CASE UNCHANGED allVars
  BY <1>4 DEF allVars, vars, schedVars, cacheVars, memVars, ExactInv, ExactNow, MemTyped, RowsHold,
              RowHolds, PoolHolds, TableEntry, AliasOK, Aliased, CacheHolds, SampledOK, SampledFrom
<1>5. ASSUME UNCHANGED memVars, pc \notin Stopped,
             \/ \E u \in Uids : ReceiveUser(u)
             \/ BecomeUrgent \/ StartPrefill \/ SkipPrefill \/ StopAdmitting
             \/ EvictForBatch \/ EvictFails \/ SkipChunk
      PROVE  ExactInv'
  <2>1. spoilt' = spoilt BY <1>5 DEF memVars
  <2>2. CASE spoilt
    <3>1. pc' = "allocate" => batch'.reqs # <<>>
      <4>1. Types /\ HoldsOK BY <1>2, <1>5 DEF Going
      <4>2. CASE SkipPrefill BY <4>1, <4>2, DecodesSome DEF SkipPrefill
      <4>3. CASE StopAdmitting
        <5>1. CASE batch.reqs = <<>> BY <4>1, <4>3, <5>1, DecodesSome DEF StopAdmitting
        <5>2. CASE batch.reqs # <<>> BY <4>3, <5>2 DEF StopAdmitting
        <5>3. QED BY <5>1, <5>2
      <4>4. CASE EvictForBatch BY <4>4 DEF EvictForBatch, schedVars, ExactInv
      <4>5. CASE \/ \E u \in Uids : ReceiveUser(u)
                 \/ BecomeUrgent \/ StartPrefill \/ EvictFails \/ SkipChunk
        BY <4>5 DEF ReceiveUser, BecomeUrgent, StartPrefill, EvictFails, SkipChunk, Crash
      <4>6. QED BY <1>5, <4>2, <4>3, <4>4, <4>5
    <3>2. QED BY <2>1, <2>2, <3>1 DEF ExactInv
  <2>3. CASE ~spoilt
    <3>1. ExactNow /\ (pc = "allocate" => batch.reqs # <<>>) BY <2>3 DEF ExactInv
    <3>2. ExactNow' /\ (pc' = "allocate" => batch'.reqs # <<>>)
      BY <1>1, <1>2, <1>3, <1>5, <3>1, QuietExact
    <3>3. QED BY <3>2 DEF ExactInv
  <2>4. QED BY <2>2, <2>3
<1>6. ASSUME NEW u \in Uids, Arrive(u) \/ Abort(u) PROVE ExactInv'
  <2>1. CASE Arrive(u)
    <3>1. UNCHANGED memVars /\ pc = "receive" /\ ReceiveUser(u) BY <2>1 DEF Arrive, ReceiveUser
    <3>2. QED BY <1>5, <3>1 DEF Stopped
  <2>2. CASE Abort(u)
    <3>1. UNCHANGED memVars /\ pc = "receive" /\ pc' = pc /\ ReceiveAbort(u) /\ spoilt' = spoilt
      BY <2>2 DEF Abort, ReceiveAbort, memVars
    <3>2. ~spoilt => ExactNow'
      <4>1. Going BY <1>2, <3>1 DEF Stopped
      <4>2. QED BY <1>1, <1>3, <3>1, <4>1, AbortExact DEF ExactInv
    <3>3. QED BY <3>1, <3>2 DEF ExactInv
  <2>3. QED BY <1>6, <2>1, <2>2
<1>7. CASE ContinueChunk
  <2>1. pc = "admit" /\ pc' = pc BY <1>7 DEF ContinueChunk, AdmitChunk
  <2>2. Going BY <1>2, <2>1 DEF Stopped
  <2>3. ~spoilt' => ~spoilt BY <1>7, Zenon DEF ContinueChunk, CopyPrompt
  <2>4. ~spoilt => ExactNow' BY <1>1, <1>3, <1>7, <2>2, ChunkExact DEF ExactInv
  <2>5. QED BY <2>1, <2>3, <2>4 DEF ExactInv
<1>8. CASE Admit
  <2>1. pc = "admit" /\ pc' = pc BY <1>8 DEF Admit, AdmitNew
  <2>2. Going BY <1>2, <2>1 DEF Stopped
  <2>3. ~spoilt' => ~spoilt BY <1>8, Zenon DEF Admit, CopyPrompt
  <2>4. ~spoilt => ExactNow' BY <1>1, <1>3, <1>8, <2>2, AdmitExact DEF ExactInv
  <2>5. QED BY <2>1, <2>3, <2>4 DEF ExactInv
<1>9. CASE Run
  <2>1. Forward /\ RunBatch /\ pc = "allocate" /\ pc' = "process" BY <1>9 DEF Run, Forward
  <2>2. Going /\ batch.reqs # <<>> BY <1>2, <2>1 DEF Stopped, ExactInv
  <2>3. spoilt' = spoilt BY <2>1, Zenon DEF RunBatch
  <2>4. ~spoilt => ExactNow' BY <1>1, <1>3, <2>1, <2>2, RunExact DEF ExactInv
  <2>5. QED BY <2>1, <2>3, <2>4 DEF ExactInv
<1>10. CASE Process
  <2>1. PICK token : token = Samples[cursor].token OBVIOUS
  <2>2. /\ pc = "process" /\ cursor <= Len(Results.reqs)
        /\ UNCHANGED <<pool, kv, sampled, late>>
        /\ \/ ProcessReq(token) /\ spoilt' = (spoilt \/ GivesAway(token))
           \/ ProcessFails(token)
    BY <1>10, <2>1 DEF Process
  <2>3. Going BY <1>2, <2>2 DEF Stopped
  <2>4. token \in Vocab BY <2>1, <2>2, SampleOfResult
  <2>5. ~Faulty(token) BY <1>3, <2>3, <2>4, FaultStep
  <2>6. ProcessReq(token) /\ spoilt' = (spoilt \/ GivesAway(token)) BY <2>2, <2>5 DEF Faulty
  <2>7. pc' = "process"
    <3>1. pc' \in {"process", "freed twice"} BY <2>2, <2>6 DEF ProcessReq
    <3>2. QED BY <3>1 DEF NoFault
  <2>8. token = sampled[cursor].token BY <2>1 DEF Samples
  <2>9. ASSUME ~spoilt' PROVE ExactNow'
    <3>1. ~spoilt /\ ~GivesAway(token) BY <2>6, <2>9
    <3>2. ExactNow BY <3>1 DEF ExactInv
    <3>3. QED BY <1>1, <1>3, <2>2, <2>3, <2>4, <2>6, <2>7, <2>8, <3>1, <3>2, ResultExact
  <2>10. QED BY <2>7, <2>9 DEF ExactInv
<1>11. CASE Finish
  <2>1. /\ pc = "process" /\ pc' = "receive" /\ holds' = holds /\ UNCHANGED cacheVars
        /\ reqs' = [u \in Uids |-> IF u \in holds \cup InBatch(inflight') THEN reqs[u] ELSE None]
        /\ UNCHANGED <<pool, kv, late, spoilt>>
    BY <1>11 DEF Finish, EndIteration, NextIteration
  <2>2. Going /\ holds \subseteq Uids BY <1>2, <2>1, HeldFacts DEF Stopped
  <2>3. \A u \in holds : reqs'[u] = reqs[u] BY <2>1, <2>2
  <2>4. SampledOK' BY <2>1 DEF SampledOK
  <2>5. ~spoilt => ExactNow' BY <1>1, <2>1, <2>3, <2>4, ExactKept DEF ExactInv, cacheVars
  <2>6. QED BY <2>1, <2>5 DEF ExactInv
<1>12. CASE Other
  <2>1. UNCHANGED memVars /\ (\/ StartPrefill \/ SkipPrefill \/ StopAdmitting
                              \/ EvictForBatch \/ EvictFails \/ SkipChunk \/ BecomeUrgent)
    BY <1>12 DEF Other
  <2>2. pc \in {"receive", "admit", "allocate", "process"}
    BY <2>1 DEF StartPrefill, SkipPrefill, StopAdmitting, EvictForBatch, EvictFails, SkipChunk,
                BecomeUrgent
  <2>3. pc \notin Stopped BY <2>2 DEF Stopped
  <2>4. QED BY <1>5, <2>1, <2>3
<1>13. QED BY <1>4, <1>6, <1>7, <1>8, <1>9, <1>10, <1>11, <1>12 DEF ServingNext

LEMMA ExactMeans ==
  ASSUME ~Overlap, SchedInv, NoFault, ExactInv
  PROVE  TokensExact /\ CacheExact
<1>1. TokensExact
  <2>1. SUFFICES ASSUME pc = "process", ~spoilt, NEW i \in cursor..Len(Results.reqs),
                        ~Results.reqs[i].chunked
                 PROVE  Samples[i].from = reqs[Results.reqs[i].uid].ids
    BY DEF TokensExact
  <2>2. Results = batch /\ Samples = sampled BY DEF Results, Samples
  <2>3. SampledOK BY <2>1 DEF ExactInv, ExactNow
  <2>4. SampledFrom(i, reqs[batch.reqs[i].uid]) BY <2>1, <2>2, <2>3 DEF SampledOK
  <2>5. QED BY <2>2, <2>4 DEF SampledFrom
<1>2. CacheExact
  <2>1. SUFFICES ASSUME ~spoilt, NEW n \in Paths, NEW k \in 1..PageSize
                 PROVE  kv[tree.page[n] * PageSize + k - 1]
                          = SubSeq(FlattenSeq(n), 1, (Len(n) - 1) * PageSize + k)
    BY DEF CacheExact
  <2>2. CacheHolds(kv, tree.page) BY <2>1 DEF ExactInv, ExactNow
  <2>3. n \in DOMAIN tree.page
    <3>1. TreeOK BY DEF SchedInv, NoFault
    <3>2. DOMAIN tree.span = DOMAIN tree.page BY <3>1 DEF TreeOK, WellShaped, Tree, Covered
    <3>3. QED BY <3>2 DEF Paths
  <2>4. kv[tree.page[n] * PageSize + (k - 1)] = SubSeq(FlattenSeq(n), 1, (Len(n) - 1) * PageSize + k)
    BY <2>2, <2>3 DEF CacheHolds
  <2>5. tree.page[n] * PageSize + (k - 1) = tree.page[n] * PageSize + k - 1
    <3>1. QED OBVIOUS
  <2>6. QED BY <2>4, <2>5
<1>3. QED BY <1>1, <1>2

(* The step that spoils: the result of a prefill is processed, its request *)
(* goes on, and the cache has pages already for more of the row than the   *)
(* request had matched.                                                    *)
CachedMeanwhile(token) ==
  /\ pc = "process" /\ cursor <= Len(Results.reqs) /\ ~Current.chunked
  /\ Results.phase = "prefill" /\ ~FirstFinish(token)
  /\ MatchLen(tree, ReqKey(Appended(token))) > Len(Appended(token).handle)

SpoiltByCache == [][spoilt' /\ ~spoilt => \E token \in Vocab : CachedMeanwhile(token)]_allVars

LEMMA GivenAway ==
  ASSUME Going, ~Overlap, SamplesOK, PagesInv, NEW token \in Vocab, ProcessReq(token), GivesAway(token)
  PROVE  CachedMeanwhile(token)
<1>1. pc = "process" /\ cursor <= Len(Results.reqs) /\ ~Current.chunked BY DEF ProcessReq
<1>2. PICK r : r = Appended(token) OBVIOUS
<1>3. Results.phase = "prefill" /\ ~FirstFinish(token) /\ FreedPages(r, FALSE) # <<>>
  BY <1>2 DEF GivesAway
<1>4. PICK o \in Request : o = reqs[Current.uid] BY <1>1, ResultFacts
<1>5. o.cached <= Len(o.ids) + 1 /\ o.slot \in Slot /\ o.handle \in Seq(Block) /\ o.cached \in Nat
      /\ o.ids \in Seq(Token) /\ Token # {}
  BY <1>1, <1>4, ResultFacts DEF Request, Token
<1>6. r = [o EXCEPT !.ids = Append(o.ids, token)] BY <1>2, <1>4 DEF Appended
<1>7. r.slot \in Slot /\ r.handle = o.handle /\ r.cached = o.cached /\ r.ids = Append(o.ids, token)
  BY <1>4, <1>6 DEF Request
<1>8. ReqKey(r) \in Seq(Block)
  <2>1. token \in Token BY DEF Token
  <2>2. r.ids \in Seq(Token) /\ r.cached <= Len(r.ids) BY <1>5, <1>7, <2>1
  <2>3. Key(SubSeq(r.ids, 1, r.cached)) \in Seq(Seq(Token)) BY <1>5, <1>7, <2>2, FirstTokens
  <2>4. QED BY <2>3 DEF ReqKey, Block
<1>9. PICK m : m = MatchLen(tree, ReqKey(r)) OBVIOUS
<1>10. m \in Nat
  <2>1. m \in 0..Len(ReqKey(r)) BY <1>8, <1>9, MatchedIsLongest
  <2>2. Len(ReqKey(r)) \in Nat BY <1>8
  <2>3. QED BY <2>1, <2>2
<1>11. PICK a \in Nat : a = Len(r.handle) BY <1>5, <1>7
<1>12. PICK row : row = pageTable[r.slot] OBVIOUS
<1>13. FreedPages(r, FALSE) = SubSeq(row, a + 1, m) BY <1>9, <1>11, <1>12 DEF FreedPages
<1>14. m > a
  <2>1. ASSUME m <= a PROVE SubSeq(row, a + 1, m) = <<>>
    <3>1. a + 1 \in Int /\ m \in Int /\ m < a + 1 BY <1>10, <1>11, <2>1
    <3>2. QED BY <3>1, SubSeqEmpty, Zenon
  <2>2. ~(m <= a) BY <1>3, <1>13, <2>1, Zenon
  <2>3. QED BY <1>10, <1>11, <2>2
<1>15. QED BY <1>1, <1>2, <1>3, <1>9, <1>11, <1>14 DEF CachedMeanwhile

LEMMA SpoilingStep ==
  ASSUME ~Overlap, SchedInv, SamplesOK, NoFault, PagesKnown, ExactInv, [ServingNext]_allVars,
         spoilt', ~spoilt
  PROVE  \E token \in Vocab : CachedMeanwhile(token)
<1>1. late = {} BY DEF ExactInv, ExactNow, MemTyped
<1>2. CASE UNCHANGED allVars BY <1>2 DEF allVars, memVars
<1>3. ASSUME NEW u \in Uids, Arrive(u) \/ Abort(u) PROVE FALSE
  BY <1>3 DEF Arrive, Abort, memVars
<1>4. ASSUME NEW u, NEW first, CopyPrompt(u, first) PROVE FALSE
  <2>1. {w \in late : w.row = reqs'[u].slot /\ first <= w.pos /\ w.pos < reqs'[u].device} = {}
    BY <1>1
  <2>2. spoilt' = spoilt BY <1>4, <2>1, Zenon DEF CopyPrompt
  <2>3. QED BY <2>2
<1>5. CASE ContinueChunk \/ Admit BY <1>4, <1>5 DEF ContinueChunk, Admit
<1>6. CASE Run
  <2>1. spoilt' = spoilt BY <1>6, Zenon DEF Run, RunBatch
  <2>2. QED BY <2>1
<1>7. CASE Process
  <2>1. PICK token : token = Samples[cursor].token OBVIOUS
  <2>2. /\ pc = "process" /\ cursor <= Len(Results.reqs)
        /\ ProcessReq(token) /\ GivesAway(token)
    BY <1>7, <2>1 DEF Process
  <2>3. Going BY <2>2 DEF SchedInv, Stopped
  <2>4. token \in Vocab BY <2>1, <2>2, SampleOfResult
  <2>5. PagesInv BY DEF NoFault, PagesKnown
  <2>6. QED BY <2>2, <2>3, <2>4, <2>5, GivenAway
<1>8. CASE Finish BY <1>8 DEF Finish, NextIteration
<1>9. CASE Other BY <1>9 DEF Other, memVars
<1>10. QED BY <1>2, <1>3, <1>5, <1>6, <1>7, <1>8, <1>9 DEF ServingNext

(* What the proofs about the contents of the memory have in common.        *)
LEMMA ExactInvariant ==
  ASSUME ~Overlap
  PROVE  ServingSpec => [](SchedInv /\ SamplesOK /\ NoFault /\ PagesKnown /\ ExactInv)
<1>1. Spec => []NoFault
  <2>1. (pc \notin {"unlock failed", "freed twice"} /\ SlotsPartition) => NoFault BY DEF NoFault
  <2>2. QED BY NoFaults, <2>1, PTL
<1>2. Spec => []PagesKnown
  <2>1. (pc # "freed twice" => PagesInv) => PagesKnown BY DEF PagesKnown
  <2>2. QED BY PagesInvariant, <2>1, PTL
<1>3. ServingInit => ExactInv BY ExactInit
<1>4. SchedInv /\ SamplesOK /\ NoFault /\ NoFault' /\ PagesKnown /\ PagesKnown' /\ ExactInv
        /\ [ServingNext]_allVars => ExactInv'
  BY ExactStep
<1>5. QED
  BY ServingInvariant, ServingImplementsScheduler, <1>1, <1>2, <1>3, <1>4, PTL DEF ServingSpec

(* In normal_loop every token that is sent to a user was sampled from the  *)
(* logits of its prompt and the tokens before it, whatever was cached,     *)
(* chunked, evicted, padded or freed in between, until a page that is      *)
(* still read is given away (_prepare_batch, _forward, cache_req,          *)
(* prepare_metadata of the attention back ends).                           *)
THEOREM ServingExact ==
  ASSUME ~Overlap
  PROVE  ServingSpec => []TokensExact
<1>1. SchedInv /\ SamplesOK /\ NoFault /\ PagesKnown /\ ExactInv => TokensExact BY ExactMeans
<1>2. QED BY ExactInvariant, <1>1, PTL

(* In normal_loop each page of the prefix cache holds the keys and values  *)
(* of its prefix until a page that is still read is given away, and only   *)
(* one kind of step does that: cache_req of a request that has prefilled   *)
(* and goes on, of whose row the cache has more by then than the request   *)
(* matched.  The same prompts at once are enough, or one after the other   *)
(* that fills its pages exactly, as match_req leaves out its last token.   *)
(* From there on the code caches wrong values, and nothing is said.        *)
THEOREM ServingCacheExact ==
  ASSUME ~Overlap
  PROVE  ServingSpec => []CacheExact /\ SpoiltByCache
<1>1. SchedInv /\ SamplesOK /\ NoFault /\ PagesKnown /\ ExactInv => CacheExact BY ExactMeans
<1>2. SchedInv /\ SamplesOK /\ NoFault /\ PagesKnown /\ ExactInv /\ [ServingNext]_allVars
        => [spoilt' /\ ~spoilt => \E token \in Vocab : CachedMeanwhile(token)]_allVars
  BY SpoilingStep
<1>3. QED BY ExactInvariant, <1>1, <1>2, PTL DEF ServingSpec, SpoiltByCache

(* With cache type "naive" no step of normal_loop spoils anything, and all *)
(* tokens are exact, always: no prefix is ever matched or shared (cache_   *)
(* req, NaivePrefixCache).                                                 *)
THEOREM ServingNaiveExact ==
  ASSUME ~Overlap, ~Radix
  PROVE  ServingSpec => []~spoilt /\ []TokensExact
<1>1. ServingInit => ~spoilt BY DEF ServingInit, MemInit
<1>2. ASSUME SchedInv, NEW token, CachedMeanwhile(token) PROVE FALSE
  <2>1. pc = "process" /\ cursor <= Len(Results.reqs) /\ ~Current.chunked
    BY <1>2 DEF CachedMeanwhile
  <2>2. Going BY <1>2, <2>1 DEF SchedInv, Stopped
  <2>3. PICK o \in Request : o = reqs[Current.uid] BY <2>1, <2>2, ResultFacts
  <2>4. Appended(token).handle = o.handle /\ Len(o.handle) \in Nat
    <3>1. Appended(token) = [o EXCEPT !.ids = Append(o.ids, token)] BY <2>3 DEF Appended
    <3>2. QED BY <3>1 DEF Request
  <2>5. ReqKey(Appended(token)) = <<>> BY DEF ReqKey, Key
  <2>6. MatchLen(tree, <<>>) = 0
    <3>1. <<>> \in Seq(Block) /\ Len(<<>>) = 0 OBVIOUS
    <3>2. MatchLen(tree, <<>>) \in 0..0 BY <3>1, MatchedIsLongest
    <3>3. QED BY <3>2
  <2>7. QED BY <1>2, <2>4, <2>5, <2>6 DEF CachedMeanwhile
<1>3. SchedInv /\ SamplesOK /\ NoFault /\ PagesKnown /\ ExactInv /\ ~spoilt /\ [ServingNext]_allVars
        => ~spoilt'
  <2>1. SUFFICES ASSUME SchedInv, SamplesOK, NoFault, PagesKnown, ExactInv, ~spoilt,
                        [ServingNext]_allVars, spoilt'
                 PROVE  FALSE
    OBVIOUS
  <2>2. PICK token \in Vocab : CachedMeanwhile(token) BY <2>1, SpoilingStep
  <2>3. QED BY <1>2, <2>1, <2>2
<1>4. QED BY ExactInvariant, ServingExact, <1>1, <1>3, PTL DEF ServingSpec
=============================================================================
