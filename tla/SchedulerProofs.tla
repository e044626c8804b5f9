--------------------------- MODULE SchedulerProofs ---------------------------
(***************************************************************************)
(* Invariants of the scheduler process in both of its loops, for any       *)
(* number of requests, prompts and answers of any length, any budgets,     *)
(* pages and rows, and aborts at any time; that the scheduler with its     *)
(* cache implements the prefix store; and that in the normal loop what     *)
(* prefill admission lets in never runs out of pages.                      *)
(***************************************************************************)
EXTENDS Scheduler, CacheManagerProofs

(* The types of what the lists hold.                                       *)
PendingReq == [uid : Uids, urgent : BOOLEAN, chunked : BOOLEAN, enq : Nat]
BatchEntry == [uid : Uids, chunked : BOOLEAN]
Batch == [phase : {"none", "prefill", "decode"}, reqs : Seq(BatchEntry)]
Reply == [eos : BOOLEAN, finished : BOOLEAN]

Types ==
  /\ pc \in {"receive", "admit", "allocate", "process"}
  /\ arrived \subseteq Uids /\ aborted \subseteq arrived \cap CanAbort
  /\ running \subseteq Uids /\ holds \subseteq arrived
  /\ finishedReqs \subseteq arrived /\ newFinished \subseteq arrived
  /\ pending \in Seq(PendingReq)
  /\ adder.budget \in Int /\ adder.chunks \in Seq(PendingReq)
  /\ batch \in Batch /\ inflight \in Batch /\ cursor \in Nat \ {0}
  /\ freeSlots \in Seq(Slot)
  /\ reqs \in [Uids -> Request \cup {None}]
  /\ replies \in [Uids -> Seq(Reply)]
  /\ IsFiniteSet(arrived)

(* The requests with a result to come in a batch, from a position on: of   *)
(* the batch in flight, and of the batch of this iteration.                *)
Open(b, from) == {u \in Uids : \E i \in from..Len(b.reqs) :
                                 b.reqs[i].uid = u /\ ~b.reqs[i].chunked}
Late == Open(inflight, cursor)
Fresh == Open(batch, IF Overlap THEN 1 ELSE cursor)

(* What a batch looks like, and when which is there.                       *)
BatchOK(b) ==
  /\ b.phase = "none" => b.reqs = <<>>
  /\ b.phase = "decode" => \A i \in DOMAIN b.reqs : ~b.reqs[i].chunked
  /\ \A i, j \in DOMAIN b.reqs : b.reqs[i].uid = b.reqs[j].uid => i = j

Phases ==
  /\ BatchOK(batch) /\ BatchOK(inflight)
  /\ pc = "receive" => batch = NoBatch
  /\ pc = "admit" => batch.phase = "prefill"
  /\ ~Overlap => inflight = NoBatch
  /\ pc # "process" => cursor = 1 /\ newFinished = {}
  /\ cursor \in 1..(Len(Results.reqs) + 1)
  /\ Results.reqs = <<>> => newFinished = {}

(* The pending requests: during admission the first of them are taken.     *)
Taken == IF pc = "admit" THEN Len(batch.reqs) ELSE 0

Pends(e) ==
  LET u == e.uid
  IN /\ u \in arrived /\ u \notin aborted /\ ~TooLong(u) /\ replies[u] = <<>>
     /\ u \notin running \cup Late \cup finishedReqs \cup newFinished

Untaken(e) ==
  LET u == e.uid
  IN /\ e.chunked <=> u \in holds
     /\ u \notin Fresh
     /\ pc = "admit" => u \notin InBatch(batch)

PendingOK ==
  /\ \A i, j \in DOMAIN pending : pending[i].uid = pending[j].uid => i = j
  /\ \A i \in DOMAIN pending : Pends(pending[i]) /\ (i > Taken => Untaken(pending[i]))

(* Admission: the batch is the part of the list that is taken, and only    *)
(* the last one taken can be a chunk, for it has used up the budget.       *)
AdmissionOK ==
  pc = "admit" =>
    LET n == Len(batch.reqs)
    IN /\ n <= Len(pending)
       /\ \A i \in 1..n : /\ batch.reqs[i] = Entry(pending[i].uid, pending[i].chunked)
                          /\ pending[i].uid \in holds
                          /\ i < n => ~pending[i].chunked
       /\ adder.chunks = IF n > 0 /\ pending[n].chunked THEN <<pending[n]>> ELSE <<>>
       /\ adder.chunks # <<>> => adder.budget <= 0

(* The next chunk of a request waits.                                      *)
ChunkWaits(u) == \E i \in Waiting(u) : pending[i].chunked

(* Who holds resources: the running requests, those begun, and those with  *)
(* a result to come.  What has finished or was aborted never comes back.   *)
HoldsOK ==
  /\ running \subseteq holds
  /\ \A u \in holds : /\ ~TooLong(u) /\ u \notin finishedReqs \cup newFinished
                      /\ u \in running \cup Late \cup Fresh \/ ChunkWaits(u)
  /\ ~Overlap => aborted \cap holds = {}

(* The results to come: their requests hold resources, or the end that     *)
(* freed them is remembered, or it was an abort.                           *)
OpenOK ==
  /\ \A u \in Late :
       /\ u \in holds \cup finishedReqs \cup aborted
       /\ inflight.phase = "prefill" => u \in holds /\ u \notin running /\ u \notin Fresh
  /\ \A u \in Fresh :
       /\ u \in holds \/ (Overlap /\ u \in newFinished)
       /\ batch.phase = "prefill" => u \in holds /\ u \notin running /\ u \notin Late
       /\ batch.phase = "decode" /\ pc = "allocate" => u \in running
  /\ InBatch(batch) \cup InBatch(inflight) \subseteq arrived

(* The lengths of a request whose prompt is computed: with the result that *)
(* are still to come its device_len is what the host knows.                *)
Prefilled(u) == \/ u \in running \cup Late
                \/ u \in Fresh /\ (batch.phase = "decode" \/ pc = "process")
ToCome(u) == (IF u \in Late THEN 1 ELSE 0) + (IF u \in Fresh /\ pc = "process" THEN 1 ELSE 0)
FullLength(u) == Len(Prompt[u]) + OutputLen(u)

DecodeLengths(u) ==
  /\ Len(reqs[u].ids) = Len(Prompt[u]) + Len(replies[u])
  /\ reqs[u].device = Len(reqs[u].ids) + ToCome(u)
  /\ reqs[u].cached = reqs[u].device - 1
  /\ reqs[u].maxDevice = FullLength(u) /\ reqs[u].device <= FullLength(u)
  /\ u \in running => reqs[u].device < FullLength(u)

(* A request that was just admitted, and one whose next chunk waits.       *)
Begun(u) == batch.phase = "prefill" /\ pc \in {"admit", "allocate"} /\ u \in InBatch(batch)
BegunLengths(u) ==
  /\ u \in holds /\ replies[u] = <<>>
  /\ reqs[u].device = Len(reqs[u].ids) /\ reqs[u].cached < reqs[u].device
  /\ reqs[u].maxDevice = reqs[u].device + OutputLen(u)
  /\ IF u \in Fresh THEN reqs[u].device = Len(Prompt[u]) ELSE reqs[u].device < Len(Prompt[u])

ChunkLengths(u) ==
  /\ reqs[u].cached = Len(reqs[u].ids) /\ reqs[u].cached < Len(Prompt[u])
  /\ reqs[u].device = reqs[u].cached + 1
  /\ reqs[u].device <= reqs[u].maxDevice

LengthsOK ==
  /\ \A u \in holds \cup InBatch(batch) \cup InBatch(inflight) : reqs[u] # None
  /\ \A u \in Uids : /\ Prefilled(u) => DecodeLengths(u)
                     /\ Begun(u) => BegunLengths(u)
                     /\ ChunkWaits(u) /\ ~Begun(u) => ChunkLengths(u)

(* A decoded request stays among the running ones as long as it may have   *)
(* more tokens.                                                            *)
Decoding(u) == \/ u \in Late /\ inflight.phase = "decode"
               \/ u \in Fresh /\ batch.phase = "decode"
DecodingOK ==
  \A u \in holds : Decoding(u) => u \in running \/ reqs[u].device >= FullLength(u)

RepliesOK ==
  /\ \A u \in Uids \ arrived : replies[u] = <<>>
  /\ ~Overlap => \A u \in holds : ~Ended(u)

Going == /\ Types /\ Phases /\ PendingOK /\ AdmissionOK
         /\ HoldsOK /\ OpenOK /\ LengthsOK /\ DecodingOK /\ RepliesOK

(* The rows of the page table, each in one place.                          *)
RowsOK ==
  /\ freeSlots \in Seq(Slot)
  /\ \A i, j \in DOMAIN freeSlots : freeSlots[i] = freeSlots[j] => i = j
  /\ \A u \in holds : reqs[u].slot \in Slot \ ToSet(freeSlots)
  /\ \A u, v \in holds : reqs[u].slot = reqs[v].slot => u = v
  /\ \A s \in Slot : s \in ToSet(freeSlots) \/ \E u \in holds : reqs[u].slot = s

(* The radix tree over the blocks, whose counts are those of the handles   *)
(* of the requests that hold resources.                                    *)
HandleOf == [u \in Uids |-> reqs[u].handle]
TreeOK == WellShaped(tree, Block) /\ Counted(tree, holds, HandleOf)

Faults == {"unlock failed", "freed twice"}
SchedInv == /\ pc \in {"receive", "admit", "allocate", "process"} \cup Stopped
            /\ pc \notin Stopped => Going
            /\ pc # "freed twice" => holds \subseteq Uids /\ RowsOK /\ TreeOK
            /\ NoExcess /\ FaultsAreAborts
            /\ ~Overlap => RepliesEnd
            /\ ~Overlap \/ CanAbort = {} => pc \notin Faults

----------------------------------------------------------------------------
(* The smaller of two numbers.                                             *)
LEMMA MinOfTwo ==
  ASSUME NEW a \in Int, NEW b \in Int
  PROVE  /\ Min({a, b}) \in {a, b} /\ Min({a, b}) <= a /\ Min({a, b}) <= b
<1>1. \E x \in {a, b} : \A y \in {a, b} : x <= y
  <2>1. CASE a <= b BY <2>1
  <2>2. CASE ~(a <= b) BY <2>2
  <2>3. QED BY <2>1, <2>2
<1>2. Min({a, b}) \in {a, b} /\ \A y \in {a, b} : Min({a, b}) <= y BY <1>1 DEF Min
<1>3. QED BY <1>2

(* What the requests are: a prompt of at least one token, and, unless it   *)
(* is dropped for its length, an answer of at least one.                   *)
LEMMA RequestFacts ==
  ASSUME NEW u \in Uids
  PROVE  /\ Prompt[u] \in Seq(Token) /\ Len(Prompt[u]) \in Nat \ {0}
         /\ OutputLen(u) \in Int /\ TooLong(u) \in BOOLEAN
         /\ ~TooLong(u) => OutputLen(u) \in Nat \ {0}
         /\ FullLength(u) \in Int
<1>1. /\ Prompt[u] \in Seq(Token) /\ Prompt[u] # <<>> /\ MaxTokens[u] \in Nat \ {0}
      /\ MaxSeqLen \in Nat
  BY RequestAssumption, BudgetAssumption
<1>2. Len(Prompt[u]) \in Nat \ {0} BY <1>1, EmptySeq
<1> DEFINE a == MaxTokens[u]
           b == MaxSeqLen - Len(Prompt[u])
<1>3. OutputLen(u) \in {a, b}
  <2>1. a \in Int /\ b \in Int BY <1>1, <1>2
  <2>2. OutputLen(u) = Min({a, b}) BY DEF OutputLen
  <2> HIDE DEF a, b
  <2>3. QED BY <2>1, <2>2, MinOfTwo
<1>4. QED BY <1>1, <1>2, <1>3 DEF TooLong, FullLength

(* A list without one of its elements.                                     *)
LEMMA RemovedAt ==
  ASSUME NEW S, NEW s \in Seq(S), NEW k \in 1..Len(s)
  PROVE  /\ RemoveAt(s, k) \in Seq(S) /\ Len(RemoveAt(s, k)) = Len(s) - 1
         /\ \A i \in 1..(Len(s) - 1) : RemoveAt(s, k)[i] = s[IF i < k THEN i ELSE i + 1]
<1> DEFINE a == SubSeq(s, 1, k - 1)
           b == SubSeq(s, k + 1, Len(s))
<1>1. /\ a \in Seq(S) /\ Len(a) = k - 1 /\ \A i \in 1..(k - 1) : a[i] = s[i]
      /\ b \in Seq(S) /\ Len(b) = Len(s) - k /\ \A i \in 1..(Len(s) - k) : b[i] = s[k + i]
  OBVIOUS
<1>2. RemoveAt(s, k) = a \o b BY DEF RemoveAt
<1> HIDE DEF a, b
<1>3. a \o b \in Seq(S) /\ Len(a \o b) = Len(s) - 1
  <2>1. a \in Seq(S) /\ b \in Seq(S) BY <1>1
  <2>2. a \o b \in Seq(S) /\ Len(a \o b) = Len(a) + Len(b) BY <2>1, ConcatProperties
  <2>3. QED BY <1>1, <2>2
<1>4. ASSUME NEW i \in 1..(Len(s) - 1) PROVE (a \o b)[i] = s[IF i < k THEN i ELSE i + 1]
  <2>1. CASE i < k BY <1>1, <2>1
  <2>2. CASE ~(i < k)
    <3>1. i - (k - 1) \in 1..(Len(s) - k) BY <2>2
    <3>2. (a \o b)[i] = b[i - (k - 1)] BY <1>1, <2>2, <3>1
    <3>3. QED BY <1>1, <2>2, <3>1, <3>2
  <2>3. QED BY <2>1, <2>2
<1>5. QED BY <1>2, <1>3, <1>4

(* While no batch, flight or position changes, the results to come do not. *)
LEMMA SameBatches ==
  ASSUME UNCHANGED <<batch, inflight, cursor>>
  PROVE  /\ Late' = Late /\ Fresh' = Fresh /\ Results' = Results
         /\ InBatch(batch)' = InBatch(batch) /\ InBatch(inflight)' = InBatch(inflight)
BY DEF Late, Fresh, Open, Results, InBatch

(* At the start of an iteration there is no batch.                         *)
LEMMA Receiving ==
  ASSUME Types, Phases, pc = "receive"
  PROVE  /\ batch = NoBatch /\ cursor = 1 /\ newFinished = {}
         /\ Fresh = {} /\ InBatch(batch) = {} /\ Taken = 0
         /\ \A u : ~Begun(u)
<1>1. batch = NoBatch /\ cursor = 1 /\ newFinished = {} BY DEF Phases
<1>2. batch.reqs = <<>> BY <1>1 DEF NoBatch
<1>3. Fresh = {} BY <1>1, <1>2 DEF Fresh, Open
<1>4. QED BY <1>1, <1>2, <1>3 DEF InBatch, Taken, Begun

----------------------------------------------------------------------------
(* receive_msg: a request arrives, and waits unless it is too long.        *)
LEMMA ReceiveUserGoing ==
  ASSUME Going, NEW u \in Uids, ReceiveUser(u)
  PROVE  Going'
<1> USE DEF Going
<1>1. /\ pc = "receive" /\ pc' = pc /\ u \notin arrived /\ arrived' = arrived \cup {u}
      /\ UNCHANGED <<aborted, running, reqs, freeSlots, adder, batch, inflight, cursor,
                     finishedReqs, newFinished, replies, holds>>
  BY DEF ReceiveUser
<1>2. /\ batch = NoBatch /\ cursor = 1 /\ newFinished = {}
      /\ Fresh = {} /\ InBatch(batch) = {} /\ Taken = 0 /\ Taken' = 0
      /\ \A v : ~Begun(v) /\ ~Begun(v)'
  BY <1>1, Receiving DEF Begun, Taken
<1>3. /\ Late' = Late /\ Fresh' = Fresh /\ Results' = Results
      /\ InBatch(batch)' = InBatch(batch) /\ InBatch(inflight)' = InBatch(inflight)
  BY <1>1, SameBatches
<1> DEFINE e == [uid |-> u, urgent |-> FALSE, chunked |-> FALSE, enq |-> Cardinality(arrived)]
<1>4. e \in PendingReq /\ IsFiniteSet(arrived')
  BY <1>1, FS_CardinalityType, FS_AddElement DEF Types, PendingReq
<1>5. e.uid = u /\ e.chunked = FALSE OBVIOUS
<1>6. pending' = IF TooLong(u) THEN pending ELSE Append(pending, e) BY DEF ReceiveUser
<1> HIDE DEF e
<1>7. /\ pending' \in Seq(PendingReq)
      /\ \A i \in DOMAIN pending' :
           \/ i \in DOMAIN pending /\ pending'[i] = pending[i]
           \/ i = Len(pending) + 1 /\ pending'[i] = e /\ ~TooLong(u)
      /\ DOMAIN pending \subseteq DOMAIN pending'
      /\ \A i \in DOMAIN pending : pending'[i] = pending[i]
  BY <1>4, <1>6 DEF Types
<1>8. Types' BY <1>1, <1>4, <1>7 DEF Types
<1>9. Phases' BY <1>1, <1>3 DEF Phases, BatchOK
<1>10. PendingOK'
  <2>1. u \notin running \cup Late \cup finishedReqs \cup aborted \cup holds /\ replies[u] = <<>>
    BY <1>1 DEF Types, HoldsOK, OpenOK, RepliesOK
  <2>2. \A i \in DOMAIN pending : pending[i].uid # u BY <1>1 DEF PendingOK, Pends
  <2>3. ASSUME NEW i \in DOMAIN pending', NEW j \in DOMAIN pending', pending'[i].uid = pending'[j].uid
        PROVE  i = j
    BY <1>5, <1>7, <2>2, <2>3 DEF PendingOK
  <2>4. ASSUME NEW i \in DOMAIN pending' PROVE Pends(pending[i])' /\ Untaken(pending[i])'
    <3>1. CASE i \in DOMAIN pending /\ pending'[i] = pending[i]
      <4>1. i > Taken BY <1>2, <3>1 DEF Types
      <4>2. Pends(pending[i]) /\ Untaken(pending[i]) BY <3>1, <4>1 DEF PendingOK
      <4>3. QED BY <1>1, <1>2, <1>3, <3>1, <4>2 DEF Pends, Untaken
    <3>2. CASE pending'[i] = e /\ ~TooLong(u)
      BY <1>1, <1>2, <1>3, <1>5, <2>1, <3>2 DEF Pends, Untaken
    <3>3. QED BY <1>7, <3>1, <3>2
  <2>5. QED BY <2>3, <2>4 DEF PendingOK
<1>11. AdmissionOK' BY <1>1 DEF AdmissionOK
<1>12. \A v : ChunkWaits(v)' <=> ChunkWaits(v)
  BY <1>5, <1>7 DEF ChunkWaits, Waiting
<1>17. HoldsOK' BY <1>1, <1>3, <1>12 DEF HoldsOK
<1>13. OpenOK' BY <1>1, <1>3 DEF OpenOK
<1>14. LengthsOK'
  <2>1. \A v \in Uids : (Prefilled(v)' <=> Prefilled(v)) /\ (DecodeLengths(v)' <=> DecodeLengths(v))
    BY <1>1, <1>3 DEF Prefilled, DecodeLengths, ToCome
  <2>2. \A v \in Uids : ChunkLengths(v)' <=> ChunkLengths(v) BY <1>1 DEF ChunkLengths
  <2>3. QED BY <1>1, <1>2, <1>3, <1>12, <2>1, <2>2 DEF LengthsOK
<1>15. RepliesOK' BY <1>1 DEF RepliesOK, Ended
<1>20. DecodingOK' BY <1>1, <1>3 DEF DecodingOK, Decoding
<1>16. QED BY <1>20, <1>8, <1>9, <1>10, <1>11, <1>17, <1>13, <1>14, <1>15

(* abort_req takes the request out of the pending list, if it is there.    *)
LEMMA Unlisted ==
  ASSUME Types, PendingOK, NEW u \in Uids,
         pending' = IF Waiting(u) = {} THEN pending ELSE RemoveAt(pending, Min(Waiting(u)))
  PROVE  /\ pending' \in Seq(PendingReq)
         /\ \A i \in DOMAIN pending' :
              \E j \in DOMAIN pending : pending'[i] = pending[j] /\ pending[j].uid # u
         /\ \A j \in DOMAIN pending : pending[j].uid # u =>
              \E i \in DOMAIN pending' : pending'[i] = pending[j]
         /\ \A i, j \in DOMAIN pending' : pending'[i].uid = pending'[j].uid => i = j
<1>1. pending \in Seq(PendingReq) /\ DOMAIN pending = 1..Len(pending) BY DEF Types
<1>2. CASE Waiting(u) = {}
  <2>1. pending' = pending BY <1>2
  <2>2. \A i \in DOMAIN pending : pending[i].uid # u BY <1>2 DEF Waiting
  <2>3. QED BY <1>1, <2>1, <2>2 DEF PendingOK
<1>3. CASE Waiting(u) # {}
  <2>1. PICK k \in DOMAIN pending : pending[k].uid = u BY <1>3 DEF Waiting
  <2>2. Waiting(u) = {k} BY <2>1 DEF Waiting, PendingOK
  <2>3. Min({k}) = k BY DEF Min
  <2>4. pending' = RemoveAt(pending, k) BY <1>3, <2>2, <2>3
  <2>5. k \in 1..Len(pending) BY <1>1, <2>1
  <2> DEFINE n == Len(pending)
             f == [i \in 1..(n - 1) |-> IF i < k THEN i ELSE i + 1]
  <2>6. /\ pending' \in Seq(PendingReq) /\ DOMAIN pending' = 1..(n - 1)
        /\ \A i \in 1..(n - 1) : pending'[i] = pending[f[i]]
    <3> DEFINE r == RemoveAt(pending, k)
    <3>1. /\ r \in Seq(PendingReq) /\ Len(r) = n - 1
          /\ \A i \in 1..(n - 1) : r[i] = pending[f[i]]
      BY <1>1, <2>5, RemovedAt
    <3> HIDE DEF r
    <3>2. pending' = r BY <2>4 DEF r
    <3>3. DOMAIN r = 1..(n - 1) BY <3>1
    <3>4. QED BY <3>1, <3>2, <3>3
  <2>7. n \in Nat BY <1>1
  <2>8. /\ \A i \in 1..(n - 1) : f[i] \in 1..n /\ f[i] # k
        /\ \A i, j \in 1..(n - 1) : f[i] = f[j] => i = j
        /\ \A j \in 1..n : j # k => \E i \in 1..(n - 1) : f[i] = j
    <3>1. \A i \in 1..(n - 1) : f[i] \in 1..n /\ f[i] # k BY <2>5, <2>7
    <3>2. \A i, j \in 1..(n - 1) : f[i] = f[j] => i = j BY <2>5, <2>7
    <3>3. ASSUME NEW j \in 1..n, j # k PROVE \E i \in 1..(n - 1) : f[i] = j
      <4>1. CASE j < k BY <2>5, <2>7, <4>1
      <4>2. CASE ~(j < k)
        <5>1. j - 1 \in 1..(n - 1) /\ f[j - 1] = j BY <2>5, <2>7, <3>3, <4>2
        <5>2. QED BY <5>1
      <4>3. QED BY <4>1, <4>2
    <3>4. QED BY <3>1, <3>2, <3>3
  <2> HIDE DEF f, n
  <2>9. DOMAIN pending = 1..n BY <1>1 DEF n
  <2>10. \A j \in 1..n : j # k => pending[j].uid # u BY <2>1, <2>5, <2>9 DEF PendingOK
  <2>11. \A i, j \in 1..n : pending[i].uid = pending[j].uid => i = j BY <2>9 DEF PendingOK
  <2>12. \A i \in DOMAIN pending' : pending'[i] = pending[f[i]] /\ f[i] \in DOMAIN pending /\ f[i] # k
    BY <2>6, <2>8, <2>9
  <2>13. \A i \in DOMAIN pending' :
            \E j \in DOMAIN pending : pending'[i] = pending[j] /\ pending[j].uid # u
    BY <2>9, <2>10, <2>12
  <2>14. ASSUME NEW j \in DOMAIN pending, pending[j].uid # u
         PROVE  \E i \in DOMAIN pending' : pending'[i] = pending[j]
    <3>1. PICK i \in 1..(n - 1) : f[i] = j BY <2>1, <2>8, <2>9, <2>14
    <3>2. QED BY <2>6, <3>1
  <2>15. ASSUME NEW i \in DOMAIN pending', NEW j \in DOMAIN pending',
                pending'[i].uid = pending'[j].uid
         PROVE  i = j
    <3>1. f[i] \in 1..n /\ f[j] \in 1..n /\ pending[f[i]].uid = pending[f[j]].uid
      BY <2>9, <2>12, <2>15
    <3>2. f[i] = f[j] BY <2>11, <3>1
    <3>3. QED BY <2>6, <2>8, <3>2
  <2>16. QED BY <2>6, <2>13, <2>14, <2>15
<1>4. QED BY <1>2, <1>3

LEMMA ReceiveAbortGoing ==
  ASSUME Going, NEW u \in Uids, ReceiveAbort(u)
  PROVE  Going'
<1> USE DEF Going
<1>1. /\ pc = "receive" /\ pc' = pc /\ u \in arrived \cap CanAbort /\ u \notin aborted
      /\ aborted' = aborted \cup {u} /\ running' = running \ {u}
      /\ UNCHANGED <<arrived, reqs, adder, batch, inflight, cursor,
                     finishedReqs, newFinished, replies>>
  BY DEF ReceiveAbort, RemoveReq
<1>2. /\ batch = NoBatch /\ cursor = 1 /\ newFinished = {}
      /\ Fresh = {} /\ InBatch(batch) = {} /\ Taken = 0 /\ Taken' = 0
      /\ \A v : ~Begun(v) /\ ~Begun(v)'
  BY <1>1, Receiving DEF Begun, Taken
<1>3. /\ Late' = Late /\ Fresh' = Fresh /\ Results' = Results
      /\ InBatch(batch)' = InBatch(batch) /\ InBatch(inflight)' = InBatch(inflight)
  BY <1>1, SameBatches
<1>4. /\ pending' \in Seq(PendingReq)
      /\ \A i \in DOMAIN pending' :
           \E j \in DOMAIN pending : pending'[i] = pending[j] /\ pending[j].uid # u
      /\ \A j \in DOMAIN pending : pending[j].uid # u =>
           \E i \in DOMAIN pending' : pending'[i] = pending[j]
      /\ \A i, j \in DOMAIN pending' : pending'[i].uid = pending'[j].uid => i = j
  BY Unlisted DEF ReceiveAbort
<1>5. AbortFrees(u) <=> u \in running \/ ChunkWaits(u) BY DEF AbortFrees, ChunkWaits
<1>6. AbortFrees(u) => u \in holds
  <2>1. ASSUME ChunkWaits(u) PROVE u \in holds
    <3>1. PICK i \in DOMAIN pending : pending[i].uid = u /\ pending[i].chunked
      BY <2>1 DEF ChunkWaits, Waiting
    <3>2. i > Taken BY <1>2 DEF Types
    <3>3. QED BY <3>1, <3>2 DEF PendingOK, Untaken
  <2>2. QED BY <1>5, <2>1 DEF HoldsOK
<1>7. /\ holds' = IF AbortFrees(u) THEN holds \ {u} ELSE holds
      /\ freeSlots' = IF AbortFrees(u) THEN Append(freeSlots, reqs[u].slot) ELSE freeSlots
  BY DEF ReceiveAbort, FreeReqResources
<1>8. freeSlots' \in Seq(Slot)
  <2>1. u \in holds => reqs[u].slot \in Slot BY DEF Types, LengthsOK, Request
  <2>2. QED BY <1>6, <1>7, <2>1 DEF Types
<1>9. Types' BY <1>1, <1>4, <1>7, <1>8 DEF Types
<1>10. Phases' BY <1>1, <1>3 DEF Phases, BatchOK
<1>11. PendingOK'
  <2>1. ASSUME NEW i \in DOMAIN pending' PROVE Pends(pending[i])' /\ Untaken(pending[i])'
    <3>1. PICK j \in DOMAIN pending : pending'[i] = pending[j] /\ pending[j].uid # u BY <1>4
    <3>2. j > Taken BY <1>2, <3>1 DEF Types
    <3>3. Pends(pending[j]) /\ Untaken(pending[j]) BY <3>2 DEF PendingOK
    <3>4. QED BY <1>1, <1>2, <1>3, <1>7, <3>1, <3>3 DEF Pends, Untaken
  <2>2. QED BY <1>4, <2>1 DEF PendingOK
<1>12. AdmissionOK' BY <1>1 DEF AdmissionOK
<1>13. \A v : v # u => (ChunkWaits(v)' <=> ChunkWaits(v)) BY <1>4 DEF ChunkWaits, Waiting
<1>14. ~ChunkWaits(u)' BY <1>4 DEF ChunkWaits, Waiting
<1>15. HoldsOK'
  <2>1. running' \subseteq holds' BY <1>1, <1>7 DEF HoldsOK
  <2>2. ASSUME NEW v \in holds'
        PROVE  /\ ~TooLong(v) /\ v \notin finishedReqs' \cup newFinished'
               /\ v \in running' \cup Late' \cup Fresh' \/ ChunkWaits(v)'
    <3>1. v \in holds BY <1>7
    <3>2. CASE v # u BY <1>1, <1>3, <1>13, <3>1, <3>2 DEF HoldsOK
    <3>3. CASE v = u BY <1>1, <1>3, <1>5, <1>7, <3>1, <3>3 DEF HoldsOK
    <3>4. QED BY <3>2, <3>3
  <2>3. ASSUME ~Overlap PROVE aborted' \cap holds' = {}
    <3>1. Late = {} BY <1>2, <2>3 DEF Phases, Late, Open, NoBatch
    <3>2. u \notin holds' BY <1>2, <1>5, <1>7, <3>1 DEF HoldsOK
    <3>3. QED BY <1>1, <1>7, <2>3, <3>2 DEF HoldsOK
  <2>4. QED BY <2>1, <2>2, <2>3 DEF HoldsOK
<1>16. OpenOK'
  <2>1. ASSUME inflight.phase = "prefill", u \in Late PROVE ~AbortFrees(u)
    <3>1. u \notin running BY <2>1 DEF OpenOK
    <3>2. ~ChunkWaits(u) BY <2>1 DEF ChunkWaits, Waiting, PendingOK, Pends
    <3>3. QED BY <1>5, <3>1, <3>2
  <2>2. QED BY <1>1, <1>2, <1>3, <1>7, <2>1 DEF OpenOK
<1>17. LengthsOK'
  <2>1. \A v \in Uids : /\ Prefilled(v)' => Prefilled(v)
                        /\ DecodeLengths(v) => DecodeLengths(v)'
                        /\ ChunkLengths(v)' <=> ChunkLengths(v)
    BY <1>1, <1>3 DEF Prefilled, DecodeLengths, ToCome, ChunkLengths
  <2>2. QED BY <1>1, <1>2, <1>3, <1>7, <1>13, <1>14, <2>1 DEF LengthsOK
<1>18. RepliesOK' BY <1>1, <1>7 DEF RepliesOK, Ended
<1>20. DecodingOK'
  <2>1. \A v \in holds' : v \in holds /\ (v \in running => v \in running')
    BY <1>1, <1>5, <1>7
  <2>2. QED BY <1>1, <1>3, <2>1 DEF DecodingOK, Decoding
<1>19. QED BY <1>20, <1>9, <1>10, <1>11, <1>12, <1>15, <1>16, <1>17, <1>18

(* Time passes for one of the pending requests.                            *)
LEMMA BecomeUrgentGoing ==
  ASSUME Going, BecomeUrgent
  PROVE  Going'
<1> USE DEF Going
<1>1. /\ pc = "receive" /\ pc' = pc
      /\ UNCHANGED <<arrived, aborted, running, reqs, freeSlots, adder, batch, inflight, cursor,
                     finishedReqs, newFinished, replies, holds>>
  BY DEF BecomeUrgent
<1>2. /\ batch = NoBatch /\ cursor = 1 /\ newFinished = {}
      /\ Fresh = {} /\ InBatch(batch) = {} /\ Taken = 0 /\ Taken' = 0
      /\ \A v : ~Begun(v) /\ ~Begun(v)'
  BY <1>1, Receiving DEF Begun, Taken
<1>3. /\ Late' = Late /\ Fresh' = Fresh /\ Results' = Results
      /\ InBatch(batch)' = InBatch(batch) /\ InBatch(inflight)' = InBatch(inflight)
  BY <1>1, SameBatches
<1>4. PICK k \in 1..Len(pending) : pending' = [pending EXCEPT ![k].urgent = TRUE]
  BY DEF BecomeUrgent
<1>5. /\ pending' \in Seq(PendingReq) /\ DOMAIN pending' = DOMAIN pending
      /\ \A i \in DOMAIN pending : /\ pending'[i].uid = pending[i].uid
                                   /\ pending'[i].chunked = pending[i].chunked
  <2> DEFINE e == [pending[k] EXCEPT !.urgent = TRUE]
  <2>1. pending[k] \in PendingReq BY DEF Types
  <2>2. e \in PendingReq /\ e.uid = pending[k].uid /\ e.chunked = pending[k].chunked
    BY <2>1 DEF PendingReq
  <2>3. pending' = [pending EXCEPT ![k] = e] BY <1>4
  <2> HIDE DEF e
  <2>4. QED BY <2>2, <2>3 DEF Types
<1>6. Types' BY <1>1, <1>5 DEF Types
<1>7. Phases' BY <1>1, <1>3 DEF Phases, BatchOK
<1>8. PendingOK'
  <2>1. ASSUME NEW i \in DOMAIN pending' PROVE Pends(pending[i])' /\ Untaken(pending[i])'
    <3>1. i \in DOMAIN pending /\ i > Taken BY <1>2, <1>5 DEF Types
    <3>2. Pends(pending[i]) /\ Untaken(pending[i]) BY <3>1 DEF PendingOK
    <3>3. QED BY <1>1, <1>3, <1>5, <3>1, <3>2 DEF Pends, Untaken
  <2>2. QED BY <1>5, <2>1 DEF PendingOK
<1>9. AdmissionOK' BY <1>1 DEF AdmissionOK
<1>10. \A v : ChunkWaits(v)' <=> ChunkWaits(v) BY <1>5 DEF ChunkWaits, Waiting
<1>11. HoldsOK' BY <1>1, <1>3, <1>10 DEF HoldsOK
<1>12. OpenOK' BY <1>1, <1>3 DEF OpenOK
<1>13. LengthsOK'
  <2>1. \A v \in Uids : /\ Prefilled(v)' <=> Prefilled(v)
                        /\ DecodeLengths(v) <=> DecodeLengths(v)'
                        /\ ChunkLengths(v)' <=> ChunkLengths(v)
    BY <1>1, <1>3 DEF Prefilled, DecodeLengths, ToCome, ChunkLengths
  <2>2. QED BY <1>1, <1>2, <1>3, <1>10, <2>1 DEF LengthsOK
<1>14. RepliesOK' BY <1>1 DEF RepliesOK, Ended
<1>20. DecodingOK' BY <1>1, <1>3 DEF DecodingOK, Decoding
<1>15. QED BY <1>20, <1>6, <1>7, <1>8, <1>9, <1>11, <1>12, <1>13, <1>14

----------------------------------------------------------------------------
(* The pending list is put in another order, and admission begins.         *)
LEMMA StartPrefillGoing ==
  ASSUME Going, StartPrefill
  PROVE  Going'
<1> USE DEF Going
<1>1. /\ pc = "receive" /\ pc' = "admit" /\ pending' \in Reordered
      /\ batch' = [phase |-> "prefill", reqs |-> <<>>]
      /\ adder'.budget \in {SliceBudget, PrefillBudget} /\ adder'.chunks = <<>>
      /\ UNCHANGED <<arrived, aborted, running, reqs, freeSlots, inflight, cursor,
                     finishedReqs, newFinished, replies, holds>>
  BY DEF StartPrefill
<1>2. /\ cursor = 1 /\ newFinished = {} /\ Fresh = {} /\ Taken = 0 /\ InBatch(batch) = {}
      /\ \A v : ~Begun(v)
  BY <1>1, Receiving
<1>3. /\ Fresh' = {} /\ Taken' = 0 /\ InBatch(batch)' = {} /\ Late' = Late
      /\ InBatch(inflight)' = InBatch(inflight) /\ \A v : ~Begun(v)'
  <2>1. Fresh' = {} BY <1>1, <1>2 DEF Fresh, Open
  <2>2. Late' = Late /\ InBatch(inflight)' = InBatch(inflight) BY <1>1 DEF Late, Open, InBatch
  <2>3. InBatch(batch)' = {} BY <1>1 DEF InBatch
  <2>4. QED BY <1>1, <2>1, <2>2, <2>3 DEF Taken, Begun
<1>4. PICK f \in Bijection(DOMAIN pending, DOMAIN pending) :
        pending' = [i \in DOMAIN pending |-> pending[f[i]]]
  BY <1>1 DEF Reordered
<1>5. /\ f \in [DOMAIN pending -> DOMAIN pending]
      /\ \A i, j \in DOMAIN pending : f[i] = f[j] => i = j
      /\ \A j \in DOMAIN pending : \E i \in DOMAIN pending : f[i] = j
  BY DEF Bijection, Injection, Surjection, IsInjective
<1>6. /\ pending' \in Seq(PendingReq) /\ DOMAIN pending' = DOMAIN pending
      /\ \A i \in DOMAIN pending : f[i] \in DOMAIN pending /\ pending'[i] = pending[f[i]]
  <2> DEFINE n == Len(pending)
  <2>1. n \in Nat /\ DOMAIN pending = 1..n /\ \A i \in 1..n : pending[i] \in PendingReq
    BY DEF Types
  <2> HIDE DEF n
  <2>2. \A i \in 1..n : f[i] \in 1..n BY <1>5, <2>1
  <2>3. pending' = [i \in 1..n |-> pending[f[i]]] BY <1>4, <2>1
  <2>4. \A i \in 1..n : pending[f[i]] \in PendingReq BY <2>1, <2>2
  <2>5. pending' \in [1..n -> PendingReq] BY <2>3, <2>4
  <2>6. pending' \in Seq(PendingReq) BY <2>1, <2>5
  <2>7. QED BY <2>1, <2>2, <2>3, <2>6
<1>7. Types'
  <2>1. adder'.budget \in Int /\ adder'.chunks \in Seq(PendingReq) BY <1>1, BudgetAssumption
  <2>2. batch' \in Batch BY <1>1 DEF Batch
  <2>3. QED BY <1>1, <1>6, <2>1, <2>2 DEF Types
<1>8. Phases' BY <1>1, <1>2 DEF Phases, BatchOK, Results
<1>9. PendingOK'
  <2>1. ASSUME NEW i \in DOMAIN pending' PROVE Pends(pending[i])' /\ Untaken(pending[i])'
    <3>1. f[i] \in DOMAIN pending /\ f[i] > Taken BY <1>2, <1>6 DEF Types
    <3>2. Pends(pending[f[i]]) /\ Untaken(pending[f[i]]) BY <3>1 DEF PendingOK
    <3>3. QED BY <1>1, <1>2, <1>3, <1>6, <3>2 DEF Pends, Untaken
  <2>2. ASSUME NEW i \in DOMAIN pending', NEW j \in DOMAIN pending',
               pending'[i].uid = pending'[j].uid
        PROVE  i = j
    <3>1. f[i] = f[j] BY <1>6, <2>2 DEF PendingOK
    <3>2. QED BY <1>5, <1>6, <3>1
  <2>3. QED BY <2>1, <2>2 DEF PendingOK
<1>10. AdmissionOK' BY <1>1, <1>6 DEF AdmissionOK, Types
<1>11. \A v : ChunkWaits(v)' <=> ChunkWaits(v)
  <2>1. ASSUME NEW v, ChunkWaits(v)' PROVE ChunkWaits(v)
    BY <1>6, <2>1 DEF ChunkWaits, Waiting
  <2>2. ASSUME NEW v, ChunkWaits(v) PROVE ChunkWaits(v)'
    <3>1. PICK j \in DOMAIN pending : pending[j].uid = v /\ pending[j].chunked
      BY <2>2 DEF ChunkWaits, Waiting
    <3>2. PICK i \in DOMAIN pending : f[i] = j BY <1>5
    <3>3. QED BY <1>6, <3>1, <3>2 DEF ChunkWaits, Waiting
  <2>3. QED BY <2>1, <2>2
<1>12. HoldsOK' BY <1>1, <1>2, <1>3, <1>11 DEF HoldsOK
<1>13. OpenOK' BY <1>1, <1>3 DEF OpenOK
<1>14. LengthsOK'
  <2>1. \A v \in Uids : /\ Prefilled(v)' => Prefilled(v)
                        /\ DecodeLengths(v) => DecodeLengths(v)'
                        /\ ChunkLengths(v)' <=> ChunkLengths(v)
    BY <1>1, <1>2, <1>3 DEF Prefilled, DecodeLengths, ToCome, ChunkLengths
  <2>2. QED BY <1>1, <1>2, <1>3, <1>11, <2>1 DEF LengthsOK
<1>15. RepliesOK' BY <1>1 DEF RepliesOK, Ended
<1>20. DecodingOK' BY <1>1, <1>2, <1>3 DEF DecodingOK, Decoding
<1>16. QED BY <1>20, <1>7, <1>8, <1>9, <1>10, <1>12, <1>13, <1>14, <1>15

(* A decode batch of all running requests, or no batch.                    *)
LEMMA DecodeBatch ==
  ASSUME Types, HoldsOK, ScheduleDecode
  PROVE  /\ batch' \in Batch /\ BatchOK(batch)'
         /\ pc' = "process" => batch' = NoBatch
         /\ pc' = "allocate" => batch'.phase = "decode"
         /\ pc' \in {"process", "allocate"}
         /\ InBatch(batch)' \subseteq running
         /\ \A u : (u \in Open(batch, 1)' <=> u \in running)
<1>1. CASE running = {}
  <2>1. batch' = NoBatch /\ pc' = "process" BY <1>1 DEF ScheduleDecode
  <2>2. batch'.reqs = <<>> /\ batch'.phase = "none" BY <2>1 DEF NoBatch
  <2>3. batch' \in Batch BY <2>1 DEF Batch, NoBatch
  <2>4. QED BY <1>1, <2>1, <2>2, <2>3 DEF BatchOK, InBatch, Open
<1>2. CASE running # {}
  <2>1. PICK order \in SetToSeqs(running) :
          batch' = [phase |-> "decode", reqs |-> [i \in 1..Len(order) |-> Entry(order[i], FALSE)]]
    BY <1>2 DEF ScheduleDecode
  <2>2. pc' = "allocate" BY <1>2 DEF ScheduleDecode
  <2>3. IsFiniteSet(running) /\ running \subseteq Uids
    BY FS_Subset DEF Types, HoldsOK
  <2> DEFINE n == Cardinality(running)
             b == [i \in 1..Len(order) |-> Entry(order[i], FALSE)]
  <2>4. n \in Nat /\ ExistsBijection(1..n, running) BY <2>3, FS_CardinalityType
  <2>5. order \in [1..n -> running] /\ \A i, j \in 1..n : i # j => order[i] # order[j]
    BY DEF SetToSeqs
  <2>6. order \in Seq(running) /\ Len(order) = n BY <2>4, <2>5
  <2>7. \A u \in running : \E i \in 1..n : order[i] = u
    <3>1. order \in Injection(1..n, running) BY <2>5 DEF Injection, IsInjective
    <3>2. IsFiniteSet(1..n) /\ Cardinality(1..n) = n BY <2>4, FS_Interval
    <3>3. order \in Surjection(1..n, running) BY <2>3, <3>1, <3>2, FS_Injection
    <3>4. QED BY <3>3 DEF Surjection
  <2>8. /\ b \in Seq(BatchEntry) /\ Len(b) = n
        /\ \A i \in 1..n : b[i].uid = order[i] /\ b[i].chunked = FALSE
    <3>1. \A i \in 1..n : /\ Entry(order[i], FALSE) \in BatchEntry
                          /\ Entry(order[i], FALSE).uid = order[i]
                          /\ Entry(order[i], FALSE).chunked = FALSE
      BY <2>3, <2>5 DEF Entry, BatchEntry
    <3>2. b = [i \in 1..n |-> Entry(order[i], FALSE)] BY <2>6
    <3> HIDE DEF b, n
    <3>3. b \in [1..n -> BatchEntry] /\ \A i \in 1..n : b[i] = Entry(order[i], FALSE)
      BY <3>1, <3>2
    <3>4. b \in Seq(BatchEntry) /\ Len(b) = n BY <2>4, <3>3
    <3>5. QED BY <3>1, <3>3, <3>4
  <2>9. batch'.reqs = b /\ batch'.phase = "decode" /\ batch' \in Batch
    BY <2>1, <2>8 DEF Batch
  <2> HIDE DEF b, n
  <2>10. BatchOK(batch)' BY <2>5, <2>8, <2>9 DEF BatchOK
  <2>11. InBatch(batch)' \subseteq running BY <2>5, <2>8, <2>9 DEF InBatch
  <2>12. \A u : (u \in Open(batch, 1)' <=> u \in running)
    BY <2>3, <2>5, <2>7, <2>8, <2>9 DEF Open
  <2>13. QED BY <2>2, <2>9, <2>10, <2>11, <2>12
<1>3. QED BY <1>1, <1>2

LEMMA ScheduleDecodeGoing ==
  ASSUME Going, pc \in {"receive", "admit"}, batch.reqs = <<>>, ScheduleDecode,
         UNCHANGED <<arrived, aborted, pending, running, reqs, freeSlots, adder, inflight, cursor,
                     finishedReqs, newFinished, replies, holds>>
  PROVE  Going'
<1> USE DEF Going
<1>1. /\ batch' \in Batch /\ BatchOK(batch)'
      /\ pc' = "process" => batch' = NoBatch
      /\ pc' = "allocate" => batch'.phase = "decode"
      /\ pc' \in {"process", "allocate"}
      /\ InBatch(batch)' \subseteq running
      /\ \A u : (u \in Open(batch, 1)' <=> u \in running)
  BY DecodeBatch
<1>2. /\ cursor = 1 /\ cursor' = 1 /\ newFinished = {} /\ Fresh = {} /\ Taken = 0 /\ Taken' = 0
      /\ InBatch(batch) = {} /\ \A v : ~Begun(v) /\ ~Begun(v)'
  <2>1. cursor = 1 /\ newFinished = {} BY DEF Phases
  <2>2. Fresh = {} BY <2>1 DEF Fresh, Open
  <2>3. Taken = 0 /\ Taken' = 0 BY <1>1 DEF Taken
  <2>4. InBatch(batch) = {} BY DEF InBatch
  <2>5. \A v : ~Begun(v) /\ ~Begun(v)' BY <1>1, <2>4 DEF Begun
  <2>6. QED BY <2>1, <2>2, <2>3, <2>4, <2>5
<1>3. Late' = Late /\ InBatch(inflight)' = InBatch(inflight) BY DEF Late, Open, InBatch
<1>4. Fresh' = running
  <2>1. running \subseteq Uids BY DEF Types
  <2>2. Fresh' = Open(batch, 1)' BY <1>2 DEF Fresh
  <2>3. QED BY <1>1, <2>1, <2>2 DEF Open
<1>5. Types' BY <1>1 DEF Types
<1>6. Phases'
  <2>1. cursor' \in 1..(Len(Results'.reqs) + 1)
    BY <1>1, <1>2 DEF Phases, Results, Types, Batch
  <2>2. QED BY <1>1, <1>2, <2>1 DEF Phases, BatchOK
<1>7. PendingOK'
  <2>1. ASSUME NEW i \in DOMAIN pending' PROVE Pends(pending[i])' /\ Untaken(pending[i])'
    <3>1. i \in DOMAIN pending /\ i > Taken BY <1>2 DEF Types
    <3>2. Pends(pending[i]) /\ Untaken(pending[i]) BY <3>1 DEF PendingOK
    <3>3. QED BY <1>1, <1>3, <1>4, <3>2 DEF Pends, Untaken
  <2>2. QED BY <2>1 DEF PendingOK
<1>8. AdmissionOK' BY <1>1 DEF AdmissionOK
<1>9. \A v : ChunkWaits(v)' <=> ChunkWaits(v) BY DEF ChunkWaits, Waiting
<1>10. HoldsOK' BY <1>2, <1>3, <1>9 DEF HoldsOK
<1>11. OpenOK' BY <1>1, <1>3, <1>4 DEF OpenOK, HoldsOK, Types, NoBatch
<1>12. LengthsOK'
  <2>1. \A v \in Uids : /\ Prefilled(v)' => Prefilled(v)
                        /\ ToCome(v)' = ToCome(v)
                        /\ ChunkLengths(v)' <=> ChunkLengths(v)
    <3>1. pc' = "process" => Fresh' = {} BY <1>1, <1>2 DEF Fresh, Open, NoBatch
    <3>2. QED BY <1>2, <1>3, <1>4, <3>1 DEF Prefilled, ToCome, ChunkLengths
  <2>2. \A v \in Uids : DecodeLengths(v) => DecodeLengths(v)' BY <2>1 DEF DecodeLengths
  <2>3. \A v \in InBatch(batch)' : v \in holds BY <1>1 DEF HoldsOK
  <2>4. QED BY <1>2, <1>3, <1>9, <2>1, <2>2, <2>3 DEF LengthsOK
<1>13. RepliesOK' BY DEF RepliesOK, Ended
<1>20. DecodingOK' BY <1>3, <1>4 DEF DecodingOK, Decoding
<1>14. QED BY <1>20, <1>5, <1>6, <1>7, <1>8, <1>10, <1>11, <1>12, <1>13

LEMMA SkipPrefillGoing ==
  ASSUME Going, SkipPrefill
  PROVE  Going'
<1>1. pc = "receive" /\ ScheduleDecode
      /\ UNCHANGED <<arrived, aborted, pending, running, reqs, freeSlots, adder, inflight, cursor,
                     finishedReqs, newFinished, replies, holds>>
  BY DEF SkipPrefill
<1>2. batch.reqs = <<>> BY <1>1 DEF Going, Phases, NoBatch
<1>3. QED BY <1>1, <1>2, ScheduleDecodeGoing

----------------------------------------------------------------------------
(* The candidate of the admission loop: it waits, and is not yet taken.    *)
LEMMA CandidateFacts ==
  ASSUME Going, pc = "admit", More
  PROVE  /\ Len(batch.reqs) \in Nat /\ Position = Len(batch.reqs) + 1
         /\ Position \in DOMAIN pending /\ Position \in 1..Len(pending)
         /\ Candidate \in PendingReq /\ Candidate.uid \in Uids
         /\ Pends(Candidate) /\ Untaken(Candidate)
         /\ Candidate.chunked => ChunkWaits(Candidate.uid)
         /\ \A i \in DOMAIN pending : pending[i].uid = Candidate.uid => i = Position
         /\ adder.budget \in Nat \ {0} /\ adder.chunks = <<>>
         /\ Taken = Len(batch.reqs) /\ cursor = 1 /\ newFinished = {}
<1> USE DEF Going
<1>1. batch.reqs \in Seq(BatchEntry) /\ Len(batch.reqs) \in Nat BY DEF Types, Batch
<1>2. /\ Position = Len(batch.reqs) + 1 /\ Position <= Len(pending) /\ adder.budget > 0
      /\ Taken = Len(batch.reqs)
  BY DEF More, Position, Taken
<1>3. Position \in DOMAIN pending /\ Position \in 1..Len(pending) BY <1>1, <1>2 DEF Types
<1>4. Candidate \in PendingReq BY <1>3 DEF Candidate, Types
<1>5. Pends(Candidate) /\ Untaken(Candidate) BY <1>1, <1>2, <1>3 DEF PendingOK, Candidate
<1>6. adder.budget \in Nat \ {0} /\ adder.chunks = <<>> BY <1>2 DEF Types, AdmissionOK
<1>7. \A i \in DOMAIN pending : pending[i].uid = Candidate.uid => i = Position
  BY <1>3 DEF PendingOK, Candidate
<1>8. cursor = 1 /\ newFinished = {} BY DEF Phases
<1>9. Candidate.uid \in Uids BY <1>4 DEF PendingReq
<1>10. Candidate.chunked => ChunkWaits(Candidate.uid) BY <1>3 DEF ChunkWaits, Waiting, Candidate
<1>11. QED BY <1>1, <1>2, <1>3, <1>4, <1>5, <1>6, <1>7, <1>8, <1>9, <1>10

(* What _add_one_req does for u: w takes its place in the list, e joins    *)
(* the batch, and r is its Req.                                            *)
Adds(u, handle, slot, cached, w, e, r) ==
  /\ w.uid = u /\ e.uid = u /\ e = Entry(w.uid, w.chunked)
  /\ e.chunked <=> w.chunked
  /\ pending' = [pending EXCEPT ![Position] = w]
  /\ batch' = [batch EXCEPT !.reqs = Append(@, e)]
  /\ reqs' = [reqs EXCEPT ![u] = r]
  /\ r.handle = handle /\ r.slot = slot /\ r.cached = cached
  /\ r.device = Len(r.ids) /\ r.cached < r.device
  /\ r.maxDevice = r.device + OutputLen(u)
  /\ r.device <= Len(Prompt[u])
  /\ w.chunked <=> r.device < Len(Prompt[u])
  /\ adder'.budget \in Int
  /\ adder'.chunks = IF w.chunked THEN <<w>> ELSE <<>>
  /\ w.chunked => adder'.budget <= 0

(* The arithmetic and the entries of _add_one_req.                         *)
LEMMA AddOneReqFacts ==
  ASSUME Going, pc = "admit", More, NEW u, u = Candidate.uid,
         NEW handle \in Seq(Block), NEW slot \in Slot, NEW cached \in Nat,
         cached < Len(Prompt[u]), AddOneReq(u, handle, slot, cached)
  PROVE  \E w \in PendingReq, e \in BatchEntry, r \in Request :
           Adds(u, handle, slot, cached, w, e, r)
<1>1. /\ Position \in DOMAIN pending /\ Candidate \in PendingReq /\ u \in Uids
      /\ Pends(Candidate) /\ adder.budget \in Nat \ {0} /\ adder.chunks = <<>>
  BY CandidateFacts
<1>2. /\ Prompt[u] \in Seq(Token) /\ Len(Prompt[u]) \in Nat \ {0}
      /\ OutputLen(u) \in Nat \ {0}
  BY <1>1, RequestFacts DEF Pends
<1> DEFINE remain == Len(Prompt[u]) - cached
           chunk == Min({adder.budget, remain})
           w == [Candidate EXCEPT !.chunked = (chunk < remain)]
           e == Entry(u, chunk < remain)
           n == cached + chunk
           r == [ids |-> SubSeq(Prompt[u], 1, n), slot |-> slot, handle |-> handle,
                 cached |-> cached, device |-> n, maxDevice |-> n + OutputLen(u)]
<1>3. remain \in Nat \ {0} BY <1>2
<1>4. chunk \in {adder.budget, remain} /\ chunk <= adder.budget /\ chunk <= remain
  <2> HIDE DEF remain
  <2>1. adder.budget \in Int /\ remain \in Int BY <1>1, <1>3
  <2>2. QED BY <2>1, MinOfTwo
<1>5. /\ adder' = [budget |-> adder.budget - chunk,
                   reserved |-> adder.reserved + remain + OutputLen(u),
                   chunks |-> IF chunk < remain THEN Append(adder.chunks, w) ELSE adder.chunks]
      /\ reqs' = [reqs EXCEPT ![u] = r]
      /\ pending' = [pending EXCEPT ![Position] = w]
      /\ batch' = [batch EXCEPT !.reqs = Append(@, e)]
  BY DEF AddOneReq
<1> HIDE DEF chunk
<1>6. /\ n \in Nat /\ cached < n /\ n <= Len(Prompt[u])
      /\ chunk < remain <=> n < Len(Prompt[u])
  BY <1>1, <1>2, <1>3, <1>4
<1>7. /\ w \in PendingReq /\ w.uid = u /\ (w.chunked <=> chunk < remain)
      /\ e \in BatchEntry /\ e.uid = u /\ (e.chunked <=> chunk < remain)
      /\ e = Entry(w.uid, w.chunked)
  <2> DEFINE b == (chunk < remain)
  <2>1. b \in BOOLEAN OBVIOUS
  <2> HIDE DEF b
  <2> DEFINE v == [Candidate EXCEPT !.chunked = b]
  <2>2. v \in PendingReq /\ v.uid = u /\ v.chunked = b BY <1>1, <2>1 DEF PendingReq
  <2>3. Entry(u, b) \in BatchEntry /\ Entry(u, b).uid = u /\ Entry(u, b).chunked = b
    BY <1>1, <2>1 DEF Entry, BatchEntry
  <2>4. v = w /\ e = Entry(u, b) BY DEF b
  <2> HIDE DEF v, w, e
  <2>5. e = Entry(w.uid, w.chunked) BY <2>2, <2>4
  <2>6. QED BY <2>2, <2>3, <2>4, <2>5 DEF b
<1> HIDE DEF n, w, e
<1>9. SubSeq(Prompt[u], 1, n) \in Seq(Token) /\ Len(SubSeq(Prompt[u], 1, n)) = n
  BY <1>2, <1>6, FirstTokens
<1>10. /\ r \in Request /\ r.device = Len(r.ids) /\ r.cached < r.device
       /\ r.handle = handle /\ r.slot = slot /\ r.cached = cached
       /\ r.maxDevice = r.device + OutputLen(u) /\ r.device = n
  BY <1>2, <1>6, <1>9 DEF Request
<1> HIDE DEF r
<1>11. adder'.budget = adder.budget - chunk /\ chunk \in Nat BY <1>1, <1>3, <1>4, <1>5
<1>12. adder'.budget \in Int BY <1>1, <1>11
<1>13. adder'.chunks = IF w.chunked THEN <<w>> ELSE <<>> BY <1>1, <1>5, <1>7
<1>14. w.chunked => adder'.budget <= 0
  <2>1. ASSUME chunk < remain PROVE chunk = adder.budget BY <1>4, <1>11, <1>3, <2>1
  <2>2. QED BY <1>1, <1>7, <1>11, <2>1
<1>15. e.chunked <=> w.chunked BY <1>7
<1>16. w.chunked <=> r.device < Len(Prompt[u]) BY <1>6, <1>7, <1>10
<1> HIDE DEF remain
<1> USE <1>7, <1>10
<1> WITNESS w \in PendingReq, e \in BatchEntry, r \in Request
<1>17. QED BY <1>5, <1>6, <1>7, <1>10, <1>12, <1>13, <1>14, <1>15, <1>16 DEF Adds

(* One request joins the prefill batch, new or with its next chunk.        *)
LEMMA AddOneReqGoing ==
  ASSUME Going, pc = "admit", More, NEW u, u = Candidate.uid,
         NEW handle \in Seq(Block), NEW slot \in Slot, NEW cached \in Nat,
         cached < Len(Prompt[u]), AddOneReq(u, handle, slot, cached),
         freeSlots' \in Seq(Slot), holds' = holds \cup {u},
         UNCHANGED <<pc, arrived, aborted, running, inflight, cursor, finishedReqs,
                     newFinished, replies>>
  PROVE  Going'
<1> USE DEF Going
<1> DEFINE n == Len(batch.reqs)
<1>1. /\ n \in Nat /\ Position = n + 1 /\ Position \in DOMAIN pending /\ Position \in 1..Len(pending)
      /\ Candidate \in PendingReq /\ u \in Uids /\ Pends(Candidate) /\ Untaken(Candidate)
      /\ \A i \in DOMAIN pending : pending[i].uid = u => i = n + 1
      /\ adder.chunks = <<>> /\ Taken = n /\ cursor = 1 /\ newFinished = {}
      /\ Candidate = pending[n + 1]
  BY CandidateFacts DEF Candidate
<1>0. PICK w \in PendingReq, e \in BatchEntry, r \in Request :
        Adds(u, handle, slot, cached, w, e, r)
  BY AddOneReqFacts
<1>2. /\ w.uid = u /\ e.uid = u /\ e = Entry(w.uid, w.chunked)
      /\ e.chunked <=> w.chunked
      /\ pending' = [pending EXCEPT ![Position] = w]
      /\ batch' = [batch EXCEPT !.reqs = Append(@, e)]
      /\ reqs' = [reqs EXCEPT ![u] = r]
      /\ r.handle = handle /\ r.slot = slot /\ r.cached = cached
      /\ r.device = Len(r.ids) /\ r.cached < r.device
      /\ r.maxDevice = r.device + OutputLen(u)
      /\ r.device <= Len(Prompt[u])
      /\ w.chunked <=> r.device < Len(Prompt[u])
      /\ adder'.budget \in Int
      /\ adder'.chunks = IF w.chunked THEN <<w>> ELSE <<>>
      /\ w.chunked => adder'.budget <= 0
  BY <1>0 DEF Adds
<1>3. /\ pending' \in Seq(PendingReq) /\ DOMAIN pending' = DOMAIN pending
      /\ pending \in Seq(PendingReq) /\ DOMAIN pending = 1..Len(pending)
      /\ Len(pending') = Len(pending)
      /\ pending'[n + 1] = w /\ \A i \in DOMAIN pending : i # n + 1 => pending'[i] = pending[i]
      /\ \A i \in DOMAIN pending : pending'[i].uid = pending[i].uid
  BY <1>1, <1>2 DEF Types
<1>4. /\ batch'.phase = "prefill" /\ batch' \in Batch /\ batch.phase = "prefill"
      /\ batch'.reqs \in Seq(BatchEntry) /\ Len(batch'.reqs) = n + 1
      /\ DOMAIN batch.reqs = 1..n /\ DOMAIN batch'.reqs = 1..(n + 1)
      /\ batch'.reqs[n + 1] = e /\ \A i \in 1..n : batch'.reqs[i] = batch.reqs[i]
  <2>1. batch \in Batch /\ batch.phase = "prefill" BY DEF Types, Phases
  <2>2. batch.reqs \in Seq(BatchEntry) BY <2>1 DEF Batch
  <2> DEFINE b == Append(batch.reqs, e)
  <2>3. /\ b \in Seq(BatchEntry) /\ Len(b) = n + 1 /\ DOMAIN batch.reqs = 1..n /\ DOMAIN b = 1..(n + 1)
        /\ b[n + 1] = e /\ \A i \in 1..n : b[i] = batch.reqs[i]
    BY <2>2
  <2>4. batch' = [batch EXCEPT !.reqs = b] BY <1>2
  <2> HIDE DEF b
  <2>5. batch'.reqs = b /\ batch'.phase = batch.phase /\ batch' \in Batch
    BY <2>1, <2>3, <2>4 DEF Batch
  <2>6. QED BY <2>1, <2>3, <2>5
<1> HIDE DEF n
<1>5. /\ InBatch(batch)' = InBatch(batch) \cup {u} /\ u \notin InBatch(batch)
      /\ Late' = Late /\ InBatch(inflight)' = InBatch(inflight)
  <2>1. Late' = Late /\ InBatch(inflight)' = InBatch(inflight) BY DEF Late, Open, InBatch
  <2>2. u \notin InBatch(batch) BY <1>1 DEF Untaken
  <2>3. InBatch(batch) = {batch.reqs[i].uid : i \in 1..n} BY DEF InBatch, n
  <2>4. InBatch(batch)' = {batch'.reqs[i].uid : i \in 1..(n + 1)} BY <1>4 DEF InBatch
  <2>5. \A i \in 1..(n + 1) : i \in 1..n \/ i = n + 1 BY <1>1
  <2>6. 1..n \subseteq 1..(n + 1) /\ n + 1 \in 1..(n + 1) BY <1>1
  <2>7. \A v : v \in InBatch(batch)' <=> \E i \in 1..(n + 1) : batch'.reqs[i].uid = v BY <2>4
  <2>8. \A v : v \in InBatch(batch) <=> \E i \in 1..n : batch.reqs[i].uid = v BY <2>3
  <2>9. /\ batch'.reqs[n + 1].uid = u
        /\ \A i \in 1..n : batch'.reqs[i].uid = batch.reqs[i].uid
    <3>1. e.uid = u BY <1>2
    <3>2. QED BY <1>4, <3>1
  <2>10. InBatch(batch)' = InBatch(batch) \cup {u}
    <3> DEFINE X == InBatch(batch)
               Y == InBatch(batch)'
    <3> HIDE DEF X, Y
    <3>1. \A v : v \in Y => v \in X \cup {u} BY <2>5, <2>7, <2>8, <2>9 DEF X, Y
    <3>2. \A v : v \in X \cup {u} => v \in Y BY <2>6, <2>7, <2>8, <2>9 DEF X, Y
    <3>3. X \cup {u} = Y BY <3>1, <3>2
    <3>4. QED BY <3>3 DEF X, Y
  <2>11. QED BY <2>1, <2>2, <2>10
<1>6. \A v \in Uids : (v \in Fresh' <=> v \in Fresh \/ (v = u /\ ~e.chunked))
  <2>1. (IF Overlap THEN 1 ELSE cursor) = 1 BY <1>1
  <2>2. /\ Fresh = {v \in Uids : \E i \in 1..n : batch.reqs[i].uid = v /\ ~batch.reqs[i].chunked}
        /\ Fresh' = {v \in Uids : \E i \in 1..(n + 1) : /\ batch'.reqs[i].uid = v
                                                      /\ ~batch'.reqs[i].chunked}
    BY <1>4, <2>1 DEF Fresh, Open, n
  <2>3. QED BY <1>1, <1>2, <1>4, <2>2
<1>7. u \notin Fresh BY <1>1 DEF Untaken
<1>8. /\ reqs \in [Uids -> Request \cup {None}] /\ reqs' \in [Uids -> Request \cup {None}]
      /\ reqs'[u] = r /\ \A v \in Uids : v # u => reqs'[v] = reqs[v]
  BY <1>1, <1>2 DEF Types
<1>9. Types'
  <2>1. holds' \subseteq arrived' BY <1>1 DEF Types, Pends
  <2>2. adder'.chunks \in Seq(PendingReq) BY <1>2
  <2>3. QED BY <1>2, <1>3, <1>4, <1>8, <2>1, <2>2 DEF Types
<1>10. Phases'
  <2>1. BatchOK(batch)'
    <3>1. \A i \in 1..n : batch.reqs[i].uid # u BY <1>5 DEF InBatch, n
    <3>2. \A i, j \in 1..n : batch.reqs[i].uid = batch.reqs[j].uid => i = j
      BY <1>4 DEF Phases, BatchOK
    <3>3. \A i, j \in 1..(n + 1) : batch'.reqs[i].uid = batch'.reqs[j].uid => i = j
      BY <1>1, <1>2, <1>4, <3>1, <3>2
    <3>4. QED BY <1>4, <3>3 DEF BatchOK
  <2>2. cursor' \in 1..(Len(Results'.reqs) + 1)
    <3>1. Len(inflight.reqs) \in Nat BY DEF Types, Batch
    <3>2. QED BY <1>1, <1>4, <3>1 DEF Results
  <2>3. QED BY <1>1, <1>4, <2>1, <2>2 DEF Phases, BatchOK
<1>11. Taken' = n + 1 BY <1>4 DEF Taken
<1>12. PendingOK'
  <2>1. ASSUME NEW i \in DOMAIN pending'
        PROVE  Pends(pending[i])' /\ (i > n + 1 => Untaken(pending[i])')
    <3>1. Pends(pending[i]) /\ (i > n => Untaken(pending[i])) BY <1>1, <1>3 DEF PendingOK
    <3>2. Pends(pending[i])' BY <1>1, <1>3, <1>5, <3>1 DEF Pends
    <3>3. ASSUME i > n + 1 PROVE Untaken(pending[i])'
      <4>1. i \in DOMAIN pending /\ i # n + 1 /\ i > n BY <1>1, <1>3, <3>3
      <4>2. pending'[i] = pending[i] /\ pending[i].uid # u /\ pending[i].uid \in Uids
        <5>1. pending'[i] = pending[i] BY <1>3, <4>1
        <5>2. pending[i].uid # u BY <1>1, <4>1
        <5>3. pending[i] \in PendingReq BY <1>3, <4>1
        <5>4. pending[i].uid \in Uids BY <5>3 DEF PendingReq
        <5>5. QED BY <5>1, <5>2, <5>4
      <4> DEFINE f == pending[i]
      <4>3. /\ f.chunked <=> f.uid \in holds
            /\ f.uid \notin Fresh /\ f.uid \notin InBatch(batch)
        <5>1. Untaken(f) BY <3>1, <4>1
        <5> HIDE DEF f
        <5>2. QED BY <5>1 DEF Untaken
      <4>4. /\ f.uid \in holds' <=> f.uid \in holds
            /\ f.uid \notin Fresh' /\ f.uid \notin InBatch(batch)'
        BY <1>5, <1>6, <4>2, <4>3
      <4>5. pending'[i] = f BY <4>2
      <4> HIDE DEF f
      <4>6. Untaken(pending[i])' <=> /\ f.chunked <=> f.uid \in holds'
                                     /\ f.uid \notin Fresh'
                                     /\ pc' = "admit" => f.uid \notin InBatch(batch)'
        BY <4>5 DEF Untaken
      <4>7. QED BY <4>3, <4>4, <4>6
    <3>4. QED BY <3>2, <3>3
  <2>2. \A i, j \in DOMAIN pending' : pending'[i].uid = pending'[j].uid => i = j
    BY <1>3 DEF PendingOK
  <2>3. QED BY <1>11, <2>1, <2>2 DEF PendingOK
<1>13. AdmissionOK'
  <2>1. /\ n <= Len(pending)
        /\ \A i \in 1..n : /\ batch.reqs[i] = Entry(pending[i].uid, pending[i].chunked)
                           /\ pending[i].uid \in holds
                           /\ ~pending[i].chunked
    <3>1. /\ n <= Len(pending)
          /\ \A i \in 1..n : /\ batch.reqs[i] = Entry(pending[i].uid, pending[i].chunked)
                             /\ pending[i].uid \in holds
                             /\ i < n => ~pending[i].chunked
          /\ adder.chunks = IF n > 0 /\ pending[n].chunked THEN <<pending[n]>> ELSE <<>>
      BY DEF AdmissionOK, n
    <3>2. ASSUME n > 0 PROVE ~pending[n].chunked
      <4>1. <<pending[n]>> # <<>> OBVIOUS
      <4>2. adder.chunks = <<>> BY <1>1
      <4>3. QED BY <3>1, <3>2, <4>1, <4>2
    <3>3. \A i \in 1..n : i < n \/ (i = n /\ n > 0) BY <1>1
    <3>4. \A i \in 1..n : ~pending[i].chunked BY <3>1, <3>2, <3>3
    <3>5. QED BY <3>1, <3>4
  <2>2. \A i \in 1..(n + 1) : /\ batch'.reqs[i] = Entry(pending'[i].uid, pending'[i].chunked)
                              /\ pending'[i].uid \in holds'
                              /\ i < n + 1 => ~pending'[i].chunked
    BY <1>1, <1>2, <1>3, <1>4, <2>1
  <2>3. adder'.chunks = IF n + 1 > 0 /\ pending'[n + 1].chunked THEN <<pending'[n + 1]>> ELSE <<>>
    BY <1>1, <1>2, <1>3
  <2>4. adder'.chunks # <<>> => adder'.budget <= 0 BY <1>2
  <2>5. n + 1 <= Len(pending') BY <1>1, <1>3
  <2>6. QED BY <1>4, <2>2, <2>3, <2>4, <2>5 DEF AdmissionOK
<1>14. \A v : v # u => (ChunkWaits(v)' <=> ChunkWaits(v))
  BY <1>1, <1>3 DEF ChunkWaits, Waiting
<1>15. ChunkWaits(u)' <=> w.chunked
  BY <1>1, <1>2, <1>3 DEF ChunkWaits, Waiting
<1>16. HoldsOK'
  <2>1. running' \subseteq holds' BY DEF HoldsOK
  <2>2. ASSUME NEW v \in holds'
        PROVE  /\ ~TooLong(v) /\ v \notin finishedReqs' \cup newFinished'
               /\ v \in running' \cup Late' \cup Fresh' \/ ChunkWaits(v)'
    <3>1. CASE v = u BY <1>1, <1>2, <1>6, <1>15, <3>1 DEF Pends
    <3>2. CASE v # u BY <1>5, <1>6, <1>14, <3>2 DEF HoldsOK, Types
    <3>3. QED BY <3>1, <3>2
  <2>3. ~Overlap => aborted' \cap holds' = {} BY <1>1 DEF HoldsOK, Pends
  <2>4. QED BY <2>1, <2>2, <2>3 DEF HoldsOK
<1>17. OpenOK'
  <2>1. u \notin Late /\ u \notin running BY <1>1 DEF Pends
  <2>2. ASSUME NEW v \in Late'
        PROVE  /\ v \in holds' \cup finishedReqs' \cup aborted'
               /\ inflight'.phase = "prefill" => v \in holds' /\ v \notin running' /\ v \notin Fresh'
    <3>1. v \in Late /\ v # u /\ v \in Uids BY <1>5, <2>1, <2>2 DEF Late, Open
    <3>2. QED BY <1>6, <3>1 DEF OpenOK
  <2>3. ASSUME NEW v \in Fresh'
        PROVE  /\ v \in holds'
               /\ v \notin running' /\ v \notin Late'
    <3>1. v \in Uids BY <2>3 DEF Fresh, Open
    <3>2. CASE v = u BY <1>5, <2>1, <3>2
    <3>3. CASE v # u
      <4>1. v \in Fresh BY <1>6, <3>1, <3>3, <2>3
      <4>2. QED BY <1>1, <1>4, <1>5, <4>1 DEF OpenOK
    <3>4. QED BY <3>2, <3>3
  <2>4. InBatch(batch)' \cup InBatch(inflight)' \subseteq arrived'
    BY <1>1, <1>5 DEF OpenOK, Pends
  <2>5. QED BY <1>4, <2>2, <2>3, <2>4 DEF OpenOK
<1>18. LengthsOK'
  <2>1. \A v \in holds' \cup InBatch(batch)' \cup InBatch(inflight)' : reqs'[v] # None
    <3>1. r # None BY NoneAssumption
    <3>2. holds \cup InBatch(batch) \cup InBatch(inflight) \subseteq Uids
      BY DEF Types, OpenOK
    <3>3. QED BY <1>5, <1>8, <3>1, <3>2 DEF LengthsOK
  <2>2. ~Prefilled(u)' BY <1>1, <1>4, <1>5 DEF Prefilled, Pends
  <2>3. BegunLengths(u)'
    <3>1. u \in holds' /\ replies'[u] = <<>> BY <1>1 DEF Pends
    <3>2. Len(Prompt[u]) \in Nat /\ r.device \in Nat BY <1>1, RequestFacts DEF Request
    <3>3. u \in Fresh' <=> r.device = Len(Prompt[u]) BY <1>1, <1>2, <1>6, <1>7, <3>2
    <3>4. ~(u \in Fresh') => r.device < Len(Prompt[u]) BY <1>2, <3>2, <3>3
    <3>5. QED BY <1>2, <1>8, <3>1, <3>3, <3>4 DEF BegunLengths
  <2>4. ASSUME NEW v \in Uids, v # u
        PROVE  /\ Prefilled(v)' => Prefilled(v)
               /\ DecodeLengths(v) => DecodeLengths(v)'
               /\ Begun(v)' <=> Begun(v)
               /\ BegunLengths(v) => BegunLengths(v)'
               /\ ChunkLengths(v) => ChunkLengths(v)'
    <3>1. reqs'[v] = reqs[v] /\ (v \in Fresh' <=> v \in Fresh) BY <1>6, <1>8, <2>4
    <3>2. Prefilled(v)' => Prefilled(v) BY <1>4, <1>5, <3>1 DEF Prefilled
    <3>3. ToCome(v)' = ToCome(v) BY <1>5 DEF ToCome
    <3>4. DecodeLengths(v) => DecodeLengths(v)' BY <3>1, <3>3 DEF DecodeLengths
    <3>5. Begun(v)' <=> Begun(v) BY <1>4, <1>5, <2>4 DEF Begun
    <3>6. BegunLengths(v) => BegunLengths(v)' BY <3>1 DEF BegunLengths
    <3>7. ChunkLengths(v) => ChunkLengths(v)' BY <3>1 DEF ChunkLengths
    <3>8. QED BY <3>2, <3>4, <3>5, <3>6, <3>7
  <2>5. ASSUME NEW v \in Uids
        PROVE  /\ Prefilled(v)' => DecodeLengths(v)'
               /\ Begun(v)' => BegunLengths(v)'
               /\ ChunkWaits(v)' /\ ~Begun(v)' => ChunkLengths(v)'
    <3>1. CASE v # u BY <1>14, <2>4, <3>1 DEF LengthsOK
    <3>2. CASE v = u
      <4>1. Begun(u)' BY <1>4, <1>5 DEF Begun
      <4>2. QED BY <2>2, <2>3, <3>2, <4>1
    <3>3. QED BY <3>1, <3>2
  <2>6. QED BY <2>1, <2>5 DEF LengthsOK
<1>19. RepliesOK'
  <2>1. ASSUME ~Overlap, NEW v \in holds' PROVE ~Ended(v)'
    <3>1. CASE v = u BY <1>1, <3>1 DEF Ended, Pends
    <3>2. CASE v # u BY <2>1, <3>2 DEF Ended, RepliesOK
    <3>3. QED BY <3>1, <3>2
  <2>2. QED BY <2>1 DEF RepliesOK
<1>21. DecodingOK'
  <2>1. ASSUME NEW v \in holds', Decoding(v)' PROVE v \in running' \/ reqs'[v].device >= FullLength(v)
    <3>1. v \in Late /\ inflight.phase = "decode" BY <1>4, <1>5, <2>1 DEF Decoding
    <3>2. v # u /\ v \in Uids BY <1>1, <3>1 DEF Pends, Late, Open
    <3>3. v \in holds /\ reqs'[v] = reqs[v] BY <1>8, <3>2
    <3>4. QED BY <3>1, <3>3 DEF DecodingOK, Decoding
  <2>2. QED BY <2>1 DEF DecodingOK
<1>20. QED BY <1>21, <1>9, <1>10, <1>12, <1>13, <1>16, <1>17, <1>18, <1>19

LEMMA AdmitChunkGoing ==
  ASSUME Going, AdmitChunk
  PROVE  Going'
<1> DEFINE u == Candidate.uid
           r == reqs[u]
<1>1. /\ pc = "admit" /\ More /\ Candidate.chunked
      /\ AddOneReq(u, r.handle, r.slot, r.cached)
      /\ UNCHANGED <<pc, arrived, aborted, running, freeSlots, inflight, cursor, finishedReqs,
                     newFinished, replies, holds>>
  BY DEF AdmitChunk
<1>2. /\ u \in Uids /\ Untaken(Candidate) /\ ChunkWaits(u) BY <1>1, CandidateFacts
<1>3. u \in holds /\ u \notin InBatch(batch) BY <1>1, <1>2 DEF Untaken
<1> HIDE DEF u
<1>4. r \in Request BY <1>2, <1>3 DEF Going, Types, LengthsOK
<1>5. ChunkLengths(u) BY <1>2, <1>3 DEF Going, LengthsOK, Begun
<1>6. /\ r.handle \in Seq(Block) /\ r.slot \in Slot /\ r.cached \in Nat
  BY <1>4 DEF Request
<1>7. r.cached < Len(Prompt[u]) BY <1>5 DEF ChunkLengths
<1>8. holds' = holds \cup {u} BY <1>1, <1>3
<1>9. freeSlots' \in Seq(Slot) BY <1>1 DEF Going, Types
<1> HIDE DEF r
<1>10. u = Candidate.uid BY DEF u
<1> DEFINE hd == r.handle
           sl == r.slot
           ca == r.cached
<1>11. AddOneReq(u, hd, sl, ca) BY <1>1
<1>12. hd \in Seq(Block) /\ sl \in Slot /\ ca \in Nat /\ ca < Len(Prompt[u]) BY <1>6, <1>7
<1> HIDE DEF hd, sl, ca
<1>13. QED BY <1>1, <1>8, <1>9, <1>10, <1>11, <1>12, AddOneReqGoing

(* What a request finds cached is less than its prompt: its last token is  *)
(* always computed.                                                        *)
LEMMA TriedFacts ==
  ASSUME NEW u \in Uids, ~TooLong(u), u = Candidate.uid
  PROVE  /\ MatchKey(Prompt[u]) \in Seq(Block)
         /\ TriedHandle \in Seq(Block) /\ Len(TriedHandle) * PageSize \in Nat
         /\ Len(TriedHandle) * PageSize < Len(Prompt[u])
<1>1. Prompt[u] \in Seq(Token) /\ Len(Prompt[u]) \in Nat \ {0} BY RequestFacts
<1> DEFINE key == MatchKey(Prompt[u])
           k == Matched(tree, key)
<1>2. key \in Seq(Block) /\ Len(key) * PageSize <= Len(Prompt[u]) - 1
  BY <1>1, FirstTokens DEF MatchKey, Block
<1>3. k = TriedHandle BY DEF TriedHandle
<1> HIDE DEF key
<1>4. k \in Seq(Block) /\ Len(k) \in Nat /\ Len(k) <= Len(key) /\ Len(key) \in Nat
  BY <1>2, MatchedIsLongest
<1> HIDE DEF k
<1>5. Len(k) * PageSize \in Nat /\ Len(k) * PageSize <= Len(key) * PageSize
  BY <1>4, PageSizeAssumption
<1>6. Len(k) * PageSize < Len(Prompt[u])
  <2>1. Len(key) * PageSize \in Nat BY <1>4, PageSizeAssumption
  <2>2. QED BY <1>1, <1>2, <1>5, <2>1
<1>7. QED BY <1>2, <1>3, <1>4, <1>5, <1>6 DEF key

LEMMA AdmitNewGoing ==
  ASSUME Going, AdmitNew
  PROVE  Going'
<1> DEFINE u == Candidate.uid
           hd == TriedHandle
           sl == Last(freeSlots)
           ca == Len(TriedHandle) * PageSize
<1>1. /\ pc = "admit" /\ More /\ freeSlots # <<>> /\ freeSlots' = Front(freeSlots)
      /\ AddOneReq(u, hd, sl, ca)
      /\ holds' = holds \cup {u}
      /\ UNCHANGED <<pc, arrived, aborted, running, inflight, cursor, finishedReqs,
                     newFinished, replies>>
  BY DEF AdmitNew
<1>2. u \in Uids /\ ~TooLong(u) /\ u = Candidate.uid BY <1>1, CandidateFacts DEF Pends
<1> HIDE DEF u
<1>3. hd \in Seq(Block) /\ ca \in Nat /\ ca < Len(Prompt[u]) BY <1>2, TriedFacts
<1>4. sl \in Slot /\ freeSlots' \in Seq(Slot)
  <2>1. freeSlots \in Seq(Slot) /\ Len(freeSlots) \in Nat \ {0}
    BY <1>1, EmptySeq DEF Going, Types
  <2>2. QED BY <1>1, <2>1 DEF Front, Last
<1> HIDE DEF hd, sl, ca
<1>5. QED BY <1>1, <1>2, <1>3, <1>4, AddOneReqGoing

(* A list c before what is left of s behind its first n elements.          *)
LEMMA ConcatRest ==
  ASSUME NEW S, NEW c \in Seq(S), NEW s \in Seq(S), NEW n \in 0..Len(s)
  PROVE  LET t == c \o SubSeq(s, n + 1, Len(s))
         IN  /\ t \in Seq(S) /\ Len(t) = Len(c) + (Len(s) - n)
             /\ \A i \in 1..Len(t) : t[i] = IF i <= Len(c) THEN c[i] ELSE s[n + (i - Len(c))]
<1> DEFINE r == SubSeq(s, n + 1, Len(s))
<1>1. r \in Seq(S) /\ Len(r) = Len(s) - n /\ \A i \in 1..(Len(s) - n) : r[i] = s[n + i]
  OBVIOUS
<1> HIDE DEF r
<1> DEFINE t == c \o r
<1>2. /\ t \in Seq(S) /\ Len(t) = Len(c) + Len(r)
      /\ \A i \in 1..(Len(c) + Len(r)) : t[i] = IF i <= Len(c) THEN c[i] ELSE r[i - Len(c)]
  BY <1>1, ConcatProperties
<1> HIDE DEF t
<1>3. Len(c) \in Nat /\ Len(s) \in Nat /\ n \in Nat /\ n <= Len(s) OBVIOUS
<1>4. ASSUME NEW i \in 1..Len(t)
      PROVE  t[i] = IF i <= Len(c) THEN c[i] ELSE s[n + (i - Len(c))]
  <2>1. CASE i <= Len(c) BY <1>1, <1>2, <1>3, <2>1
  <2>2. CASE ~(i <= Len(c))
    <3>1. i - Len(c) \in 1..(Len(s) - n) BY <1>1, <1>2, <1>3, <2>2
    <3>2. QED BY <1>1, <1>2, <1>3, <2>2, <3>1
  <2>3. QED BY <2>1, <2>2
<1>5. QED BY <1>1, <1>2, <1>4 DEF t, r

(* After admission the first d elements of the list are gone: what was     *)
(* taken, but for a chunk that is not the last.                            *)
Shortened(d, n) ==
  /\ d = n \/ (d = n - 1 /\ n \in DOMAIN pending /\ pending[n].chunked)
  /\ pending' \in Seq(PendingReq) /\ DOMAIN pending' = 1..(Len(pending) - d)
  /\ \A i \in DOMAIN pending' : i + d \in DOMAIN pending /\ pending'[i] = pending[i + d]
  /\ \A i \in 1..n : pending[i].chunked => d = n - 1 /\ i = n

LEMMA LeftPending ==
  ASSUME Going, pc = "admit", NEW n, n = Len(batch.reqs),
         pending' = adder.chunks \o SubSeq(pending, Position, Len(pending))
  PROVE  \E d \in Nat : Shortened(d, n)
<1> USE DEF Going
<1> DEFINE m == Len(pending)
<1>1. /\ n \in Nat /\ m \in Nat /\ n <= m /\ pending \in Seq(PendingReq) /\ DOMAIN pending = 1..m
      /\ Position = n + 1 /\ n \in 0..m
      /\ adder.chunks = IF n > 0 /\ pending[n].chunked THEN <<pending[n]>> ELSE <<>>
      /\ \A i \in 1..n : i < n => ~pending[i].chunked
  BY DEF AdmissionOK, Types, Batch, Position
<1>2. adder.chunks \in Seq(PendingReq) BY DEF Types
<1> DEFINE c == adder.chunks
           k == Len(c)
<1>3. /\ pending' \in Seq(PendingReq) /\ Len(pending') = k + (m - n)
      /\ \A i \in 1..Len(pending') : pending'[i] = IF i <= k THEN c[i] ELSE pending[n + (i - k)]
  <2>1. pending' = c \o SubSeq(pending, n + 1, m) BY <1>1
  <2>2. c \in Seq(PendingReq) BY <1>2
  <2>3. pending \in Seq(PendingReq) /\ n \in 0..Len(pending) BY <1>1
  <2> HIDE DEF c
  <2> DEFINE t == c \o SubSeq(pending, n + 1, Len(pending))
  <2>4. /\ t \in Seq(PendingReq) /\ Len(t) = Len(c) + (Len(pending) - n)
        /\ \A i \in 1..Len(t) : t[i] = IF i <= Len(c) THEN c[i] ELSE pending[n + (i - Len(c))]
    BY <2>2, <2>3, ConcatRest
  <2>5. pending' = t BY <2>1
  <2> HIDE DEF t
  <2>6. QED BY <2>4, <2>5
<1>4. \/ n > 0 /\ pending[n].chunked /\ n \in DOMAIN pending /\ k = 1 /\ c[1] = pending[n]
      \/ k = 0 /\ \A i \in 1..n : ~pending[i].chunked
  <2>1. CASE n > 0 /\ pending[n].chunked
    <3>1. c = <<pending[n]>> BY <1>1, <2>1
    <3>2. k = 1 /\ c[1] = pending[n] BY <3>1
    <3>3. QED BY <1>1, <2>1, <3>2
  <2>2. CASE ~(n > 0 /\ pending[n].chunked)
    <3>1. c = <<>> BY <1>1, <2>2
    <3>2. k = 0 BY <3>1
    <3>3. \A i \in 1..n : i < n \/ (i = n /\ n > 0) BY <1>1
    <3>4. \A i \in 1..n : ~pending[i].chunked BY <1>1, <2>2, <3>3
    <3>5. QED BY <3>2, <3>4
  <2>3. QED BY <2>1, <2>2
<1>0. n \in Nat /\ m \in Nat /\ n <= m BY <1>1
<1> HIDE DEF c, m, k
<1>a. (k = 1 /\ n > 0) \/ k = 0 BY <1>4
<1> DEFINE d == n - k
<1>5. d \in Nat /\ k \in {0, 1} /\ k \in Nat /\ d = n - k BY <1>0, <1>a
<1> HIDE DEF d
<1>6. DOMAIN pending' = 1..(m - d)
  <2>1. DOMAIN pending' = 1..Len(pending') BY <1>3
  <2>2. Len(pending') = k + (m - n) BY <1>3
  <2>3. k + (m - n) = m - d BY <1>0, <1>5
  <2>4. QED BY <2>1, <2>2, <2>3
<1>7. ASSUME NEW i \in DOMAIN pending'
      PROVE  i + d \in DOMAIN pending /\ pending'[i] = pending[i + d]
  <2>0. i \in 1..(m - d) BY <1>6
  <2>1. i \in 1..Len(pending') /\ i \in Nat /\ i >= 1 /\ i <= m - d
    <3>1. i \in 1..Len(pending') BY <1>3
    <3>2. m - d \in Int BY <1>0, <1>5
    <3> DEFINE top == m - d
    <3> HIDE DEF top
    <3>3. i \in Nat /\ i >= 1 /\ i <= top BY <2>0, <3>2 DEF top
    <3>4. QED BY <3>1, <3>3 DEF top
  <2>2. pending'[i] = IF i <= k THEN c[i] ELSE pending[n + (i - k)] BY <1>3, <2>1
  <2>3. i + d \in 1..m
    <3>1. m \in Int /\ d \in Nat BY <1>0, <1>5
    <3>2. i \in Nat /\ i >= 1 /\ i <= m - d BY <2>1
    <3>3. i + d <= m BY <3>1, <3>2
    <3>4. QED BY <3>1, <3>2, <3>3
  <2>4. CASE i <= k
    <3>1. k = 1 /\ i = 1 BY <1>5, <2>1, <2>4
    <3>2. c[1] = pending[n] BY <1>4, <3>1
    <3>3. 1 + d = n BY <1>0, <1>5, <3>1
    <3>4. QED BY <1>1, <2>2, <2>3, <2>4, <3>1, <3>2, <3>3
  <2>5. CASE ~(i <= k)
    <3>1. n + (i - k) = i + d BY <1>0, <1>5, <2>1
    <3>2. QED BY <1>1, <2>2, <2>3, <2>5, <3>1
  <2>6. QED BY <2>4, <2>5
<1>8. d = n \/ (d = n - 1 /\ n \in DOMAIN pending /\ pending[n].chunked)
  <2>1. CASE k = 1 BY <1>4, <1>5, <2>1
  <2>2. CASE k = 0 BY <1>0, <1>5, <2>2
  <2>3. QED BY <1>5, <2>1, <2>2
<1>9. \A i \in 1..n : pending[i].chunked => d = n - 1 /\ i = n
  <2>1. CASE k = 0 BY <1>4, <2>1
  <2>2. CASE k = 1
    <3>1. \A i \in 1..n : i < n \/ i = n BY <1>1
    <3>2. d = n - 1 BY <1>5, <2>2
    <3>3. QED BY <1>1, <3>1, <3>2
  <2>3. QED BY <1>5, <2>1, <2>2
<1>10. Shortened(d, n) BY <1>3, <1>6, <1>7, <1>8, <1>9 DEF Shortened, m
<1>11. QED BY <1>5, <1>10

LEMMA StopAdmittingGoing ==
  ASSUME Going, StopAdmitting
  PROVE  Going'
<1> USE DEF Going
<1>1. /\ pc = "admit"
      /\ UNCHANGED <<arrived, aborted, running, reqs, freeSlots, adder, inflight, cursor,
                     finishedReqs, newFinished, replies, holds>>
  BY DEF StopAdmitting
<1>2. CASE batch.reqs = <<>>
  <2>1. ScheduleDecode /\ UNCHANGED pending BY <1>2 DEF StopAdmitting
  <2>2. QED BY <1>1, <1>2, <2>1, ScheduleDecodeGoing
<1>3. CASE batch.reqs # <<>>
  <2>1. /\ pending' = adder.chunks \o SubSeq(pending, Position, Len(pending))
        /\ pc' = "allocate" /\ batch' = batch
    BY <1>3 DEF StopAdmitting
  <2> DEFINE n == Len(batch.reqs)
  <2>2. n = Len(batch.reqs) OBVIOUS
  <2> HIDE DEF n
  <2>3a. PICK d \in Nat : Shortened(d, n) BY <1>1, <2>1, <2>2, LeftPending
  <2>3. /\ d = n \/ (d = n - 1 /\ n \in DOMAIN pending /\ pending[n].chunked)
        /\ DOMAIN pending' = 1..(Len(pending) - d)
        /\ \A i \in DOMAIN pending' : i + d \in DOMAIN pending /\ pending'[i] = pending[i + d]
        /\ \A i \in 1..n : pending[i].chunked => d = n - 1 /\ i = n
    BY <2>3a DEF Shortened
  <2>4. pending' \in Seq(PendingReq) BY <2>3a DEF Shortened
  <2>5. /\ n \in Nat /\ n <= Len(pending) /\ Taken = n /\ Taken' = 0
        /\ DOMAIN pending = 1..Len(pending) /\ Len(pending) \in Nat
        /\ DOMAIN batch.reqs = 1..n /\ batch.phase = "prefill" /\ cursor = 1
        /\ \A i \in 1..n : /\ batch.reqs[i] = Entry(pending[i].uid, pending[i].chunked)
                           /\ pending[i].uid \in holds
    BY <1>1, <2>1, <2>2 DEF AdmissionOK, Types, Batch, Taken, Phases
  <2>6. /\ Late' = Late /\ Fresh' = Fresh /\ Results' = Results
        /\ InBatch(batch)' = InBatch(batch) /\ InBatch(inflight)' = InBatch(inflight)
    BY <1>1, <2>1, SameBatches
  <2>7. Types' BY <1>1, <2>1, <2>4 DEF Types
  <2>8. Phases' BY <1>1, <2>1, <2>5, <2>6 DEF Phases, BatchOK
  <2>9. PendingOK'
    <3>1. ASSUME NEW i \in DOMAIN pending' PROVE Pends(pending[i])' /\ Untaken(pending[i])'
      <4> DEFINE f == pending[i + d]
      <4>1. i + d \in DOMAIN pending /\ pending'[i] = f /\ i \in Nat /\ i >= 1 BY <2>3
      <4>2. Pends(f) /\ (i + d > n => Untaken(f)) BY <2>5, <4>1 DEF PendingOK
      <4>3. f.uid \notin Fresh /\ (f.chunked <=> f.uid \in holds)
        <5>1. CASE i + d > n
          <6>1. Untaken(f) BY <4>2, <5>1
          <6> HIDE DEF f
          <6>2. QED BY <6>1 DEF Untaken
        <5>2. CASE ~(i + d > n)
          <6>1. i + d = n /\ pending[n].chunked /\ n \in 1..n BY <2>3, <2>5, <4>1, <5>2
          <6>2. /\ batch.reqs[n] = Entry(f.uid, f.chunked) /\ f.uid \in holds /\ f.chunked
            BY <2>5, <6>1
          <6>3. batch.reqs[n].uid = f.uid /\ batch.reqs[n].chunked BY <6>2 DEF Entry
          <6>4. \A j \in 1..n : batch.reqs[j].uid = f.uid => j = n
            BY <2>5, <6>1, <6>3 DEF Phases, BatchOK
          <6>5. Fresh = Open(batch, 1) BY <2>5 DEF Fresh
          <6>6. f.uid \notin Fresh BY <2>2, <6>3, <6>4, <6>5 DEF Open
          <6>7. QED BY <6>2, <6>6
        <5>3. QED BY <5>1, <5>2
      <4> HIDE DEF f
      <4>4. Pends(pending[i])' <=> Pends(f) BY <1>1, <2>6, <4>1 DEF Pends
      <4>5. Untaken(pending[i])' <=> /\ f.chunked <=> f.uid \in holds
                                     /\ f.uid \notin Fresh
        BY <1>1, <2>1, <2>6, <4>1 DEF Untaken
      <4>6. QED BY <4>2, <4>3, <4>4, <4>5
    <3>2. ASSUME NEW i \in DOMAIN pending', NEW j \in DOMAIN pending',
                 pending'[i].uid = pending'[j].uid
          PROVE  i = j
      <4>1. /\ i + d \in DOMAIN pending /\ j + d \in DOMAIN pending
            /\ pending[i + d].uid = pending[j + d].uid /\ i \in Nat /\ j \in Nat
        BY <2>3, <3>2
      <4>2. i + d = j + d BY <4>1 DEF PendingOK
      <4>3. QED BY <4>1, <4>2
    <3>3. QED BY <3>1, <3>2 DEF PendingOK
  <2>10. AdmissionOK' BY <2>1 DEF AdmissionOK
  <2>11. \A v : ChunkWaits(v)' <=> ChunkWaits(v)
    <3>1. ASSUME NEW v, ChunkWaits(v)' PROVE ChunkWaits(v)
      BY <2>3, <3>1 DEF ChunkWaits, Waiting
    <3>2. ASSUME NEW v, ChunkWaits(v) PROVE ChunkWaits(v)'
      <4>1. PICK j \in DOMAIN pending : pending[j].uid = v /\ pending[j].chunked
        BY <3>2 DEF ChunkWaits, Waiting
      <4>2. j - d \in 1..(Len(pending) - d)
        <5>1. CASE j \in 1..n BY <2>3, <2>5, <4>1, <5>1
        <5>2. CASE j > n BY <2>3, <2>5, <4>1, <5>2
        <5>3. QED BY <2>5, <4>1, <5>1, <5>2
      <4>3. j - d \in DOMAIN pending' /\ (j - d) + d = j BY <2>3, <2>5, <4>1, <4>2
      <4>4. pending'[j - d] = pending[j] BY <2>3, <4>3
      <4>5. QED BY <4>1, <4>3, <4>4 DEF ChunkWaits, Waiting
    <3>3. QED BY <3>1, <3>2
  <2>12. HoldsOK' BY <1>1, <2>6, <2>11 DEF HoldsOK
  <2>13. OpenOK' BY <1>1, <2>1, <2>5, <2>6 DEF OpenOK
  <2>14. LengthsOK'
    <3>1. \A v \in Uids : /\ Prefilled(v)' <=> Prefilled(v)
                          /\ DecodeLengths(v) <=> DecodeLengths(v)'
                          /\ ChunkLengths(v)' <=> ChunkLengths(v)
                          /\ Begun(v)' <=> Begun(v)
                          /\ BegunLengths(v)' <=> BegunLengths(v)
      BY <1>1, <2>1, <2>6 DEF Prefilled, DecodeLengths, ToCome, ChunkLengths, Begun, BegunLengths
    <3>2. QED BY <1>1, <2>1, <2>6, <2>11, <3>1 DEF LengthsOK
  <2>15. RepliesOK' BY <1>1 DEF RepliesOK, Ended
  <2>17. DecodingOK' BY <1>1, <2>1, <2>6 DEF DecodingOK, Decoding
  <2>16. QED BY <2>17, <2>7, <2>8, <2>9, <2>10, <2>12, <2>13, <2>14, <2>15
<1>4. QED BY <1>2, <1>3

----------------------------------------------------------------------------
(* An eviction, and a step of somebody else, leave the scheduler alone.    *)
LEMMA SameGoing ==
  ASSUME Going, UNCHANGED schedVars
  PROVE  Going'
<1>1. UNCHANGED <<pc, arrived, aborted, pending, running, reqs, freeSlots, adder, batch,
                  inflight, cursor, finishedReqs, newFinished, streak, replies, holds>>
  BY DEF schedVars
<1>2. Types' BY <1>1 DEF Going, Types
<1>3. /\ Late' = Late /\ Fresh' = Fresh /\ Results' = Results
      /\ InBatch(batch)' = InBatch(batch) /\ InBatch(inflight)' = InBatch(inflight)
  BY <1>1, SameBatches
<1>4. Phases' BY <1>1, <1>3 DEF Going, Phases, BatchOK
<1>5. Taken' = Taken BY <1>1 DEF Taken
<1>6. PendingOK' BY <1>1, <1>3, <1>5 DEF Going, PendingOK, Pends, Untaken
<1>7. AdmissionOK' BY <1>1 DEF Going, AdmissionOK
<1>8. \A v : ChunkWaits(v)' <=> ChunkWaits(v) BY <1>1 DEF ChunkWaits, Waiting
<1>9. HoldsOK' /\ OpenOK' BY <1>1, <1>3, <1>8 DEF Going, HoldsOK, OpenOK
<1>10. LengthsOK'
  <2>1. \A v \in Uids : /\ Prefilled(v)' <=> Prefilled(v)
                        /\ DecodeLengths(v) <=> DecodeLengths(v)'
                        /\ ChunkLengths(v)' <=> ChunkLengths(v)
                        /\ Begun(v)' <=> Begun(v)
                        /\ BegunLengths(v)' <=> BegunLengths(v)
    BY <1>1, <1>3 DEF Prefilled, DecodeLengths, ToCome, ChunkLengths, Begun, BegunLengths
  <2>2. QED BY <1>1, <1>3, <1>8, <2>1 DEF Going, LengthsOK
<1>11. RepliesOK' BY <1>1 DEF Going, RepliesOK, Ended
<1>13. DecodingOK' BY <1>1, <1>3 DEF Going, DecodingOK, Decoding
<1>12. QED BY <1>13, <1>2, <1>4, <1>6, <1>7, <1>9, <1>10, <1>11 DEF Going

(* What complete_one makes of the Req of a batch.                          *)
LEMMA AdvancedFacts ==
  ASSUME NEW r \in Request
  PROVE  /\ Advanced(r) \in Request /\ Advanced(r).ids = r.ids /\ Advanced(r).slot = r.slot
         /\ Advanced(r).handle = r.handle /\ Advanced(r).maxDevice = r.maxDevice
         /\ Advanced(r).cached = r.device /\ Advanced(r).device = r.device + 1
<1> DEFINE c == r.device
           d == r.device + 1
<1>1. c \in Nat /\ d \in Nat /\ r.device = c BY DEF Request
<1>2. Advanced(r) = [r EXCEPT !.cached = c, !.device = d] BY DEF Advanced
<1>3. d = r.device + 1 OBVIOUS
<1> HIDE DEF c, d
<1>4. /\ Advanced(r) \in Request /\ Advanced(r).ids = r.ids /\ Advanced(r).slot = r.slot
      /\ Advanced(r).handle = r.handle /\ Advanced(r).maxDevice = r.maxDevice
      /\ Advanced(r).cached = c /\ Advanced(r).device = d
  BY <1>1, <1>2 DEF Request
<1>5. QED BY <1>1, <1>3, <1>4

(* The forward pass: complete_one for each request of the batch, and after *)
(* a decode only those stay that can go on.                                *)
LEMMA ForwardGoing ==
  ASSUME Going, Forward
  PROVE  Going'
<1> USE DEF Going
<1>1. /\ pc = "allocate" /\ pc' = "process"
      /\ reqs' = [u \in Uids |-> IF u \in InBatch(batch) THEN Advanced(reqs[u]) ELSE reqs[u]]
      /\ running' = IF batch.phase = "decode"
                    THEN {u \in running \cup InBatch(batch) : CanDecode(reqs'[u])}
                    ELSE running
      /\ UNCHANGED <<arrived, aborted, pending, freeSlots, adder, batch, inflight, cursor,
                     finishedReqs, newFinished, streak, replies, holds>>
  BY DEF Forward
<1>2. cursor = 1 /\ newFinished = {} /\ Taken = 0 /\ Taken' = 0
  BY <1>1 DEF Phases, Taken
<1>3. /\ Late' = Late /\ Fresh' = Fresh /\ Results' = Results
      /\ InBatch(batch)' = InBatch(batch) /\ InBatch(inflight)' = InBatch(inflight)
  BY <1>1, SameBatches
<1>4. /\ batch \in Batch /\ batch.reqs \in Seq(BatchEntry) /\ DOMAIN batch.reqs = 1..Len(batch.reqs)
      /\ Fresh = Open(batch, 1)
  BY <1>2 DEF Types, Batch, Fresh
<1>5. /\ InBatch(batch) \subseteq Uids /\ Fresh \subseteq InBatch(batch)
      /\ running \subseteq Uids /\ holds \subseteq Uids
  BY <1>4 DEF Types, OpenOK, Open, InBatch
<1>6. batch.phase = "decode" => InBatch(batch) = Fresh /\ Fresh \subseteq running
  <2>1. SUFFICES ASSUME batch.phase = "decode"
                 PROVE  InBatch(batch) = Fresh /\ Fresh \subseteq running
    OBVIOUS
  <2>2. InBatch(batch) \subseteq Fresh BY <1>4, <1>5, <2>1 DEF InBatch, Open, Phases, BatchOK
  <2>3. Fresh \subseteq running BY <1>1, <2>1 DEF OpenOK
  <2>4. QED BY <1>5, <2>2, <2>3
<1>7. \A u \in Uids : /\ reqs'[u] = IF u \in InBatch(batch) THEN Advanced(reqs[u]) ELSE reqs[u]
                      /\ u \in InBatch(batch) => reqs[u] \in Request /\ reqs'[u] \in Request
  <2>1. \A u \in InBatch(batch) : reqs[u] \in Request BY <1>5 DEF LengthsOK, Types
  <2>2. QED BY <1>1, <2>1, AdvancedFacts
<1>8. running' \subseteq running
  <2>1. CASE batch.phase = "decode" BY <1>1, <1>6, <2>1
  <2>2. CASE batch.phase # "decode" BY <1>1, <2>2
  <2>3. QED BY <2>1, <2>2
<1>9. Types'
  <2>1. reqs' \in [Uids -> Request \cup {None}] BY <1>1, <1>7 DEF Types
  <2>2. QED BY <1>1, <1>5, <1>8, <2>1 DEF Types
<1>10. Phases' BY <1>1, <1>3 DEF Phases, BatchOK
<1>11. PendingOK'
  <2>1. ASSUME NEW i \in DOMAIN pending' PROVE Pends(pending[i])' /\ Untaken(pending[i])'
    <3>1. i \in DOMAIN pending /\ i > Taken BY <1>1, <1>2 DEF Types
    <3>2. Pends(pending[i]) /\ Untaken(pending[i]) BY <3>1 DEF PendingOK
    <3>3. Pends(pending[i])' BY <1>1, <1>3, <1>8, <3>2 DEF Pends
    <3>4. Untaken(pending[i])' BY <1>1, <1>3, <3>2 DEF Untaken
    <3>5. QED BY <3>3, <3>4
  <2>2. QED BY <1>1, <2>1 DEF PendingOK
<1>12. AdmissionOK' BY <1>1 DEF AdmissionOK
<1>13. \A v : ChunkWaits(v)' <=> ChunkWaits(v) BY <1>1 DEF ChunkWaits, Waiting
<1>14. \A u \in running : u \in running' \/ u \in Fresh'
  <2>1. TAKE u \in running
  <2>2. CASE batch.phase = "decode" /\ u \notin InBatch(batch)
    <3>1. u \in Uids /\ reqs'[u] = reqs[u] BY <1>5, <1>7, <2>2
    <3>2. DecodeLengths(u) BY <3>1 DEF LengthsOK, Prefilled
    <3>3. reqs[u] \in Request BY <3>1 DEF LengthsOK, Types, HoldsOK
    <3>4. CanDecode(reqs[u])
      <4>1. reqs[u].device \in Nat /\ reqs[u].maxDevice \in Nat BY <3>3 DEF Request
      <4>2. reqs[u].maxDevice = FullLength(u) /\ reqs[u].device < FullLength(u)
        BY <3>2 DEF DecodeLengths
      <4>3. QED BY <4>1, <4>2 DEF CanDecode, RemainLen
    <3>5. u \in running' BY <1>1, <2>2, <3>1, <3>4
    <3>6. QED BY <3>5
  <2>3. CASE batch.phase = "decode" /\ u \in InBatch(batch) BY <1>3, <1>6, <2>3
  <2>4. CASE batch.phase # "decode" BY <1>1, <2>4
  <2>5. QED BY <2>2, <2>3, <2>4
<1>15. HoldsOK' BY <1>1, <1>3, <1>8, <1>13, <1>14 DEF HoldsOK
<1>16. OpenOK' BY <1>1, <1>3, <1>8 DEF OpenOK
<1>17. LengthsOK'
  <2>1. \A u \in holds' \cup InBatch(batch)' \cup InBatch(inflight)' : reqs'[u] # None
    <3>1. TAKE u \in holds' \cup InBatch(batch)' \cup InBatch(inflight)'
    <3>2. u \in Uids /\ reqs[u] # None BY <1>1, <1>3, <1>5 DEF LengthsOK, OpenOK, Types
    <3>3. QED BY <1>7, <3>2, NoneAssumption
  <2>2. ASSUME NEW u \in Uids, Prefilled(u)' PROVE DecodeLengths(u)'
    <3>1. u \in running \cup Late \cup Fresh BY <1>1, <1>3, <1>8, <2>2 DEF Prefilled
    <3>2. CASE u \notin InBatch(batch)
      <4>1. u \notin Fresh /\ reqs'[u] = reqs[u] BY <1>5, <1>7, <3>2
      <4>2. DecodeLengths(u) BY <3>1, <4>1 DEF LengthsOK, Prefilled
      <4>3. ToCome(u)' = ToCome(u) BY <1>3, <4>1 DEF ToCome
      <4>4. QED BY <1>1, <1>8, <4>1, <4>2, <4>3 DEF DecodeLengths
    <3>3. CASE u \in InBatch(batch)
      <4>1. reqs[u] \in Request /\ reqs'[u] = Advanced(reqs[u]) BY <1>7, <3>3
      <4>2. /\ reqs'[u].ids = reqs[u].ids /\ reqs'[u].maxDevice = reqs[u].maxDevice
            /\ reqs'[u].cached = reqs[u].device /\ reqs'[u].device = reqs[u].device + 1
        BY <4>1, AdvancedFacts
      <4>0. /\ reqs[u].device \in Nat /\ reqs[u].cached \in Nat /\ Len(reqs[u].ids) \in Nat
            /\ reqs[u].maxDevice \in Nat
        BY <4>1 DEF Request
      <4>3. Len(Prompt[u]) \in Nat /\ Len(replies[u]) \in Nat /\ FullLength(u) \in Int
        BY RequestFacts DEF Types
      <4>4. CASE batch.phase = "decode"
        <5>1. u \in Fresh /\ u \in running BY <1>6, <3>3, <4>4
        <5>2. DecodeLengths(u) BY <5>1 DEF LengthsOK, Prefilled
        <5>3. ToCome(u) = (IF u \in Late THEN 1 ELSE 0) /\ ToCome(u)' = ToCome(u) + 1
          BY <1>1, <1>3, <5>1 DEF ToCome
        <5>4. reqs[u].device < FullLength(u) BY <5>1, <5>2 DEF DecodeLengths
        <5>5. ASSUME u \in running' PROVE reqs'[u].device < FullLength(u)
          <6>1. CanDecode(reqs'[u]) BY <1>1, <4>4, <5>5
          <6>2. reqs'[u].maxDevice = FullLength(u) BY <4>2, <5>2 DEF DecodeLengths
          <6>3. QED BY <4>0, <4>2, <6>1, <6>2 DEF CanDecode, RemainLen
        <5>6. ToCome(u) \in Nat BY <5>3
        <5>7. /\ Len(reqs[u].ids) = Len(Prompt[u]) + Len(replies[u])
              /\ reqs[u].device = Len(reqs[u].ids) + ToCome(u)
              /\ reqs[u].maxDevice = FullLength(u)
          BY <5>2 DEF DecodeLengths
        <5>8. reqs'[u].device = Len(reqs'[u].ids) + ToCome(u)'
          <6>1. reqs'[u].device = reqs[u].device + 1 /\ reqs'[u].ids = reqs[u].ids BY <4>2
          <6>2. reqs[u].device + 1 = Len(reqs[u].ids) + (ToCome(u) + 1)
            <7> DEFINE l == Len(reqs[u].ids)
                       t == ToCome(u)
                       d == reqs[u].device
            <7>1. l \in Nat /\ t \in Nat /\ d = l + t BY <4>0, <5>6, <5>7
            <7> HIDE DEF l, t, d
            <7>2. d + 1 = l + (t + 1) BY <7>1
            <7>3. QED BY <7>2 DEF l, t, d
          <6>3. QED BY <5>3, <6>1, <6>2
        <5>9. reqs'[u].cached = reqs'[u].device - 1 BY <4>0, <4>2
        <5>10. reqs'[u].device <= FullLength(u) BY <4>0, <4>2, <4>3, <5>4
        <5>11. Len(reqs'[u].ids) = Len(Prompt[u]) + Len(replies'[u]) BY <1>1, <4>2, <5>7
        <5>12. reqs'[u].maxDevice = FullLength(u) BY <4>2, <5>7
        <5>13. QED BY <5>5, <5>8, <5>9, <5>10, <5>11, <5>12 DEF DecodeLengths
      <4>5. CASE batch.phase # "decode"
        <5>1. batch.phase = "prefill"
          <6>1. batch.reqs # <<>> BY <3>3 DEF InBatch
          <6>2. QED BY <1>4, <4>5, <6>1 DEF Phases, BatchOK, Batch
        <5>2. BegunLengths(u) BY <1>1, <3>3, <5>1 DEF LengthsOK, Begun
        <5>3. u \in Fresh
          <6>1. SUFFICES ASSUME u \notin Fresh PROVE FALSE OBVIOUS
          <6>2. reqs[u].device < Len(Prompt[u]) /\ reqs[u].device = Len(reqs[u].ids)
            BY <5>2, <6>1 DEF BegunLengths
          <6>3. u \in running \cup Late BY <3>1, <6>1
          <6>4. DecodeLengths(u) BY <6>3 DEF LengthsOK, Prefilled
          <6>5. ToCome(u) \in Nat BY DEF ToCome
          <6>6. /\ Len(reqs[u].ids) = Len(Prompt[u]) + Len(replies[u])
                /\ reqs[u].device = Len(reqs[u].ids) + ToCome(u)
            BY <6>4 DEF DecodeLengths
          <6> DEFINE p == Len(Prompt[u])
                     k == Len(replies[u])
                     l == Len(reqs[u].ids)
                     t == ToCome(u)
          <6>7. p \in Nat /\ k \in Nat /\ l \in Nat /\ t \in Nat BY <4>0, <4>3, <6>5
          <6>8. l < p /\ l = p + k BY <6>2, <6>6
          <6> HIDE DEF p, k, l, t
          <6>9. QED BY <6>7, <6>8
        <5>4. u \in holds /\ u \notin running /\ u \notin Late BY <5>1, <5>3 DEF OpenOK, BegunLengths
        <5>5. ToCome(u)' = 1 BY <1>1, <1>3, <5>3, <5>4 DEF ToCome
        <5>6. u \notin running' BY <1>8, <5>4
        <5>7. OutputLen(u) \in Nat \ {0} BY <5>4, RequestFacts DEF HoldsOK
        <5>8. /\ replies[u] = <<>> /\ reqs[u].device = Len(reqs[u].ids)
              /\ reqs[u].device = Len(Prompt[u])
              /\ reqs[u].maxDevice = reqs[u].device + OutputLen(u)
          BY <5>2, <5>3 DEF BegunLengths
        <5>9. Len(replies'[u]) = 0 BY <1>1, <5>8
        <5>10. QED BY <4>0, <4>2, <4>3, <5>5, <5>6, <5>7, <5>8, <5>9 DEF DecodeLengths, FullLength
      <4>6. QED BY <4>4, <4>5
    <3>4. QED BY <3>2, <3>3
  <2>3. \A u : ~Begun(u)' BY <1>1 DEF Begun
  <2>4. ASSUME NEW u \in Uids, ChunkWaits(u) PROVE ChunkLengths(u)'
    <3>1. u \notin Fresh /\ u \in holds
      <4>1. PICK i \in DOMAIN pending : pending[i].uid = u /\ pending[i].chunked
        BY <2>4 DEF ChunkWaits, Waiting
      <4>2. i > Taken BY <1>2, <4>1 DEF Types
      <4>3. Untaken(pending[i]) BY <4>2 DEF PendingOK
      <4>4. QED BY <4>1, <4>3 DEF Untaken
    <3>2. CASE u \notin InBatch(batch)
      <4>1. reqs'[u] = reqs[u] BY <1>7, <3>2
      <4>2. ChunkLengths(u) BY <2>4, <3>2 DEF LengthsOK, Begun
      <4>3. QED BY <4>1, <4>2 DEF ChunkLengths
    <3>3. CASE u \in InBatch(batch)
      <4>1. reqs[u] \in Request /\ reqs'[u] = Advanced(reqs[u]) BY <1>7, <3>3
      <4>2. /\ reqs'[u].ids = reqs[u].ids /\ reqs'[u].maxDevice = reqs[u].maxDevice
            /\ reqs'[u].cached = reqs[u].device /\ reqs'[u].device = reqs[u].device + 1
            /\ reqs[u].device \in Nat
        BY <4>1, AdvancedFacts DEF Request
      <4>3. batch.phase = "prefill"
        <5>1. batch.reqs # <<>> BY <3>3 DEF InBatch
        <5>2. batch.phase # "decode" BY <1>6, <3>1, <3>3
        <5>3. QED BY <1>4, <5>1, <5>2 DEF Phases, BatchOK, Batch
      <4>4. BegunLengths(u) BY <1>1, <3>3, <4>3 DEF LengthsOK, Begun
      <4>5. OutputLen(u) \in Nat \ {0} BY <3>1, RequestFacts DEF HoldsOK
      <4>6. /\ reqs[u].device = Len(reqs[u].ids) /\ reqs[u].device < Len(Prompt[u])
            /\ reqs[u].maxDevice = reqs[u].device + OutputLen(u)
        BY <3>1, <4>4 DEF BegunLengths
      <4>7. QED BY <4>2, <4>5, <4>6 DEF ChunkLengths
    <3>4. QED BY <3>2, <3>3
  <2>5. QED BY <1>13, <2>1, <2>2, <2>3, <2>4 DEF LengthsOK
<1>18. RepliesOK' BY <1>1 DEF RepliesOK, Ended
<1>20. DecodingOK'
  <2>1. ASSUME NEW v \in holds', Decoding(v)', v \notin running'
        PROVE  reqs'[v].device >= FullLength(v)
    <3>1. v \in holds /\ Decoding(v) /\ v \in Uids BY <1>1, <1>3, <1>5, <2>1 DEF Decoding
    <3>2. FullLength(v) \in Int /\ reqs[v] \in Request
      BY <3>1, RequestFacts DEF LengthsOK, Types
    <3>3. reqs[v].device \in Nat BY <3>2 DEF Request
    <3>4. CASE v \in running
      <4>1. batch.phase = "decode" BY <1>1, <2>1, <3>4
      <4>2. v \in Fresh BY <1>3, <1>14, <2>1, <3>4
      <4>3. v \in InBatch(batch) BY <1>5, <4>2
      <4>4. ~CanDecode(reqs'[v]) BY <1>1, <2>1, <4>1, <4>3
      <4>5. reqs'[v] = Advanced(reqs[v]) BY <1>7, <3>1, <4>3
      <4>6. /\ reqs'[v].device = reqs[v].device + 1
            /\ reqs'[v].maxDevice = reqs[v].maxDevice
        BY <3>2, <4>5, AdvancedFacts
      <4>7. reqs[v].maxDevice = FullLength(v) BY <3>1, <3>4 DEF LengthsOK, Prefilled, DecodeLengths
      <4>8. QED BY <3>2, <3>3, <4>4, <4>6, <4>7 DEF CanDecode, RemainLen
    <3>5. CASE v \notin running
      <4>1. reqs[v].device >= FullLength(v) BY <3>1, <3>5 DEF DecodingOK
      <4>2. reqs'[v].device = reqs[v].device \/ reqs'[v].device = reqs[v].device + 1
        BY <1>7, <3>1, <3>2, AdvancedFacts
      <4>3. QED BY <3>2, <3>3, <4>1, <4>2
    <3>6. QED BY <3>4, <3>5
  <2>2. QED BY <2>1 DEF DecodingOK
<1>19. QED BY <1>20, <1>9, <1>10, <1>11, <1>12, <1>15, <1>16, <1>17, <1>18

----------------------------------------------------------------------------
(* The results that are open behind the next one.                          *)
LEMMA OpenNext ==
  ASSUME NEW b \in Batch, BatchOK(b), NEW c \in 1..Len(b.reqs)
  PROVE  /\ b.reqs[c] \in BatchEntry
         /\ b.reqs[c].chunked => Open(b, c + 1) = Open(b, c)
         /\ ~b.reqs[c].chunked => /\ b.reqs[c].uid \in Open(b, c)
                                  /\ Open(b, c + 1) = Open(b, c) \ {b.reqs[c].uid}
<1> DEFINE n == Len(b.reqs)
<1>1. /\ b.reqs \in Seq(BatchEntry) /\ n \in Nat /\ DOMAIN b.reqs = 1..n /\ c \in Nat /\ c <= n
      /\ \A i, j \in 1..n : b.reqs[i].uid = b.reqs[j].uid => i = j
  BY DEF Batch, BatchOK
<1>2. b.reqs[c] \in BatchEntry BY <1>1
<1>3. b.reqs[c].uid \in Uids BY <1>2 DEF BatchEntry
<1>4. \A i \in c..n : i = c \/ i \in (c + 1)..n BY <1>1
<1>5. (c + 1)..n \subseteq c..n /\ c \in c..n /\ c \notin (c + 1)..n /\ c..n \subseteq 1..n BY <1>1
<1>6. ASSUME b.reqs[c].chunked PROVE Open(b, c + 1) = Open(b, c)
  BY <1>4, <1>5, <1>6 DEF Open, n
<1>7. ASSUME ~b.reqs[c].chunked
      PROVE  /\ b.reqs[c].uid \in Open(b, c)
             /\ Open(b, c + 1) = Open(b, c) \ {b.reqs[c].uid}
  <2> DEFINE u == b.reqs[c].uid
  <2>1. u \in Open(b, c) BY <1>3, <1>5, <1>7 DEF Open, n
  <2>2. \A i \in (c + 1)..n : b.reqs[i].uid # u BY <1>1, <1>5
  <2>3. \A v \in Open(b, c + 1) : v \in Open(b, c) /\ v # u BY <1>5, <2>2 DEF Open, n
  <2>4. \A v \in Open(b, c) : v # u => v \in Open(b, c + 1) BY <1>4 DEF Open, n
  <2> HIDE DEF u
  <2>5. Open(b, c + 1) = Open(b, c) \ {u} BY <2>3, <2>4
  <2>6. QED BY <2>1, <2>5 DEF u
<1>8. QED BY <1>2, <1>6, <1>7

(* The result that is processed is open, and the step closes it.           *)
LEMMA CurrentFacts ==
  ASSUME Going, pc = "process", cursor <= Len(Results.reqs),
         cursor' = cursor + 1, UNCHANGED <<batch, inflight>>
  PROVE  /\ Current \in BatchEntry /\ Current.uid \in Uids
         /\ Results' = Results /\ cursor \in 1..Len(Results.reqs)
         /\ Current.chunked => Late' = Late /\ Fresh' = Fresh
         /\ ~Current.chunked =>
              \/ Overlap /\ Current.uid \in Late /\ Late' = Late \ {Current.uid} /\ Fresh' = Fresh
              \/ ~Overlap /\ Late = {} /\ Late' = {} /\ Current.uid \in Fresh
                 /\ Fresh' = Fresh \ {Current.uid}
<1> USE DEF Going
<1>1. /\ Results' = Results /\ Results \in Batch /\ BatchOK(Results) /\ cursor \in Nat \ {0}
      /\ Len(Results.reqs) \in Nat
  BY DEF Results, Types, Phases, Batch
<1>2. cursor \in 1..Len(Results.reqs) BY <1>1
<1> DEFINE b == Results
<1>3. /\ b.reqs[cursor] \in BatchEntry
      /\ b.reqs[cursor].chunked => Open(b, cursor + 1) = Open(b, cursor)
      /\ ~b.reqs[cursor].chunked =>
           /\ b.reqs[cursor].uid \in Open(b, cursor)
           /\ Open(b, cursor + 1) = Open(b, cursor) \ {b.reqs[cursor].uid}
  <2>1. b \in Batch /\ BatchOK(b) /\ cursor \in 1..Len(b.reqs) BY <1>1, <1>2
  <2> HIDE DEF b
  <2>2. QED BY <2>1, OpenNext
<1>4. Current = b.reqs[cursor] BY DEF Current
<1>5. Current.uid \in Uids BY <1>3, <1>4 DEF BatchEntry
<1>6. CASE Overlap
  <2>1. b = inflight /\ Late = Open(b, cursor) /\ Late' = Open(b, cursor + 1) /\ Fresh' = Fresh
    BY <1>6 DEF Results, Late, Fresh, Open
  <2> HIDE DEF b
  <2>2. QED BY <1>1, <1>2, <1>3, <1>4, <1>5, <1>6, <2>1
<1>7. CASE ~Overlap
  <2>1. inflight.reqs = <<>> BY <1>7 DEF Phases, NoBatch
  <2>2. Late = {} /\ Late' = {} BY <1>1, <2>1 DEF Late, Open
  <2>3. b = batch /\ Fresh = Open(b, cursor) /\ Fresh' = Open(b, cursor + 1)
    BY <1>7 DEF Results, Fresh, Open
  <2> HIDE DEF b
  <2>4. QED BY <1>1, <1>2, <1>3, <1>4, <1>5, <1>7, <2>2, <2>3
<1>8. QED BY <1>6, <1>7

(* A chunk has no result that counts.                                      *)
LEMMA SkipChunkGoing ==
  ASSUME Going, SkipChunk
  PROVE  Going'
<1> USE DEF Going
<1>1. /\ pc = "process" /\ cursor <= Len(Results.reqs) /\ Current.chunked /\ cursor' = cursor + 1
      /\ UNCHANGED <<pc, arrived, aborted, pending, running, reqs, freeSlots, adder, batch,
                     inflight, finishedReqs, newFinished, streak, replies, holds>>
  BY DEF SkipChunk
<1>2. Late' = Late /\ Fresh' = Fresh /\ Results' = Results /\ cursor \in 1..Len(Results.reqs)
  BY <1>1, CurrentFacts
<1>3. /\ InBatch(batch)' = InBatch(batch) /\ InBatch(inflight)' = InBatch(inflight)
      /\ Taken' = Taken
  BY <1>1 DEF InBatch, Taken
<1>4. Types' BY <1>1 DEF Types
<1>5. Phases'
  <2>1. cursor' \in 1..(Len(Results'.reqs) + 1) BY <1>1, <1>2 DEF Types
  <2>2. QED BY <1>1, <1>2, <2>1 DEF Phases, BatchOK
<1>6. PendingOK' BY <1>1, <1>2, <1>3 DEF PendingOK, Pends, Untaken
<1>7. AdmissionOK' BY <1>1 DEF AdmissionOK
<1>8. \A v : ChunkWaits(v)' <=> ChunkWaits(v) BY <1>1 DEF ChunkWaits, Waiting
<1>9. HoldsOK' /\ OpenOK' BY <1>1, <1>2, <1>3, <1>8 DEF HoldsOK, OpenOK
<1>10. LengthsOK'
  <2>1. \A v \in Uids : /\ Prefilled(v)' <=> Prefilled(v)
                        /\ DecodeLengths(v) <=> DecodeLengths(v)'
                        /\ ChunkLengths(v)' <=> ChunkLengths(v)
                        /\ Begun(v)' <=> Begun(v)
                        /\ BegunLengths(v)' <=> BegunLengths(v)
    BY <1>1, <1>2, <1>3
    DEF Prefilled, DecodeLengths, ToCome, ChunkLengths, Begun, BegunLengths
  <2>2. QED BY <1>1, <1>3, <1>8, <2>1 DEF LengthsOK
<1>11. RepliesOK' BY <1>1 DEF RepliesOK, Ended
<1>13. DecodingOK' BY <1>1, <1>2 DEF DecodingOK, Decoding
<1>12. QED BY <1>13, <1>4, <1>5, <1>6, <1>7, <1>9, <1>10, <1>11

(* The end of an iteration: what was fresh is now in flight.               *)
LEMMA EndIterationGoing ==
  ASSUME Going, EndIteration
  PROVE  Going'
<1> USE DEF Going
<1>1. /\ pc = "process" /\ cursor > Len(Results.reqs)
      /\ finishedReqs' = IF Results = NoBatch THEN finishedReqs ELSE newFinished
      /\ newFinished' = {}
      /\ inflight' = IF Overlap THEN batch ELSE NoBatch
      /\ batch' = NoBatch
      /\ reqs' = [u \in Uids |-> IF u \in holds \cup InBatch(inflight)' THEN reqs[u] ELSE None]
      /\ adder' = NoAdder
      /\ cursor' = 1
      /\ pc' = "receive"
      /\ UNCHANGED <<arrived, aborted, pending, running, freeSlots, replies, holds>>
  BY DEF EndIteration, RememberFinished, InBatch
<1>2. batch'.reqs = <<>> /\ batch'.phase = "none" /\ batch' \in Batch BY <1>1 DEF NoBatch, Batch
<1>3. /\ cursor \in Nat /\ cursor > Len(Results.reqs) /\ Len(Results.reqs) \in Nat
      /\ Open(Results, cursor) = {}
  BY <1>1 DEF Types, Results, Batch, Open
<1>4. Late = {} /\ Late' = Fresh /\ Fresh' = {} /\ InBatch(batch)' = {}
  <2>1. Fresh' = {} BY <1>1, <1>2 DEF Fresh, Open
  <2>2. InBatch(batch)' = {} BY <1>2 DEF InBatch
  <2>3. CASE Overlap
    <3>1. Late = {} BY <1>3, <2>3 DEF Late, Results
    <3>2. Late' = Open(batch, 1) /\ Fresh = Open(batch, 1) BY <1>1, <2>3 DEF Late, Fresh, Open
    <3>3. QED BY <2>1, <2>2, <3>1, <3>2
  <2>4. CASE ~Overlap
    <3>1. inflight.reqs = <<>> /\ inflight'.reqs = <<>> BY <1>1, <2>4 DEF Phases, NoBatch
    <3>2. Late = {} /\ Late' = {} BY <1>1, <1>3, <3>1 DEF Late, Open
    <3>3. Fresh = {} BY <1>3, <2>4 DEF Fresh, Results
    <3>4. QED BY <2>1, <2>2, <3>2, <3>3
  <2>5. QED BY <2>3, <2>4
<1>5. InBatch(inflight)' \subseteq InBatch(batch)
  BY <1>1 DEF InBatch, NoBatch
<1>6. \A u \in Late' : u \in InBatch(inflight)' /\ u \in Uids
  BY <1>1 DEF Late, Open, InBatch
<1>7. /\ finishedReqs' \subseteq finishedReqs \cup newFinished
      /\ newFinished \subseteq finishedReqs'
  <2>1. Results = NoBatch => newFinished = {} BY DEF Phases, NoBatch
  <2>2. QED BY <1>1, <2>1
<1>8. holds \subseteq Uids /\ \A u \in holds \cup InBatch(inflight)' : u \in Uids /\ reqs'[u] = reqs[u]
  <2>1. holds \subseteq Uids /\ InBatch(batch) \subseteq Uids BY DEF Types, OpenOK
  <2>2. QED BY <1>1, <1>5, <2>1
<1>9. Types'
  <2>1. reqs' \in [Uids -> Request \cup {None}] BY <1>1 DEF Types
  <2>2. inflight' \in Batch BY <1>1, <1>2 DEF Types, NoBatch, Batch
  <2>3. adder'.budget \in Int /\ adder'.chunks \in Seq(PendingReq) BY <1>1 DEF NoAdder
  <2>4. QED BY <1>1, <1>2, <1>7, <2>1, <2>2, <2>3 DEF Types
<1>10. Phases'
  <2>1. BatchOK(batch)' BY <1>2 DEF BatchOK
  <2>2. BatchOK(inflight)'
    <3>1. CASE Overlap BY <1>1, <3>1 DEF Phases, BatchOK
    <3>2. CASE ~Overlap BY <1>1, <1>2, <3>2 DEF BatchOK
    <3>3. QED BY <3>1, <3>2
  <2>3. Len(Results'.reqs) \in Nat BY <1>9 DEF Results, Types, Batch
  <2>4. cursor' \in 1..(Len(Results'.reqs) + 1) BY <1>1, <2>3
  <2>5. QED BY <1>1, <2>1, <2>2, <2>4 DEF Phases
<1>11. Taken = 0 /\ Taken' = 0 BY <1>1 DEF Taken
<1>12. PendingOK'
  <2>1. ASSUME NEW i \in DOMAIN pending' PROVE Pends(pending[i])' /\ Untaken(pending[i])'
    <3>1. i \in DOMAIN pending /\ i > Taken BY <1>1, <1>11 DEF Types
    <3>2. Pends(pending[i]) /\ Untaken(pending[i]) BY <3>1 DEF PendingOK
    <3>3. Pends(pending[i])' BY <1>1, <1>4, <1>7, <3>2 DEF Pends, Untaken
    <3>4. Untaken(pending[i])' BY <1>1, <1>4, <3>2 DEF Untaken
    <3>5. QED BY <3>3, <3>4
  <2>2. QED BY <1>1, <2>1 DEF PendingOK
<1>13. AdmissionOK' BY <1>1 DEF AdmissionOK
<1>14. \A v : ChunkWaits(v)' <=> ChunkWaits(v) BY <1>1 DEF ChunkWaits, Waiting
<1>15. HoldsOK' BY <1>1, <1>4, <1>7, <1>14 DEF HoldsOK
<1>16. OpenOK'
  <2>1. ASSUME NEW u \in Late'
        PROVE  /\ u \in holds' \cup finishedReqs' \cup aborted'
               /\ inflight'.phase = "prefill" => u \in holds' /\ u \notin running' /\ u \notin Fresh'
    <3>1. u \in Fresh BY <1>4, <2>1
    <3>2. inflight'.phase = "prefill" => batch.phase = "prefill" BY <1>1 DEF NoBatch
    <3>3. QED BY <1>1, <1>4, <1>7, <3>1, <3>2 DEF OpenOK
  <2>2. InBatch(batch)' \cup InBatch(inflight)' \subseteq arrived' BY <1>1, <1>4, <1>5 DEF OpenOK
  <2>3. QED BY <1>4, <2>1, <2>2 DEF OpenOK
<1>17. LengthsOK'
  <2>1. \A u \in holds' \cup InBatch(batch)' \cup InBatch(inflight)' : reqs'[u] # None
    BY <1>1, <1>4, <1>5, <1>8 DEF LengthsOK
  <2>2. ASSUME NEW u \in Uids, Prefilled(u)' PROVE DecodeLengths(u)'
    <3>1. u \in running \/ u \in Late' BY <1>1, <1>4, <2>2 DEF Prefilled
    <3>2. u \in running \/ u \in Fresh BY <1>4, <3>1
    <3>3. DecodeLengths(u) BY <1>1, <3>2 DEF LengthsOK, Prefilled
    <3>4. reqs'[u] = reqs[u] BY <1>6, <1>8, <3>1 DEF HoldsOK
    <3>5. ToCome(u)' = ToCome(u) BY <1>1, <1>4 DEF ToCome
    <3>6. QED BY <1>1, <3>3, <3>4, <3>5 DEF DecodeLengths
  <2>3. \A u : ~Begun(u)' /\ ~Begun(u) BY <1>1 DEF Begun
  <2>4. ASSUME NEW u \in Uids, ChunkWaits(u) PROVE ChunkLengths(u)'
    <3>1. PICK i \in DOMAIN pending : pending[i].uid = u /\ pending[i].chunked
      BY <2>4 DEF ChunkWaits, Waiting
    <3>2. i > Taken BY <1>11, <3>1 DEF Types
    <3>3. u \in holds BY <3>1, <3>2 DEF PendingOK, Untaken
    <3>4. reqs'[u] = reqs[u] BY <1>8, <3>3
    <3>5. ChunkLengths(u) BY <2>3, <2>4 DEF LengthsOK
    <3>6. QED BY <3>4, <3>5 DEF ChunkLengths
  <2>5. QED BY <1>14, <2>1, <2>2, <2>3, <2>4 DEF LengthsOK
<1>18. RepliesOK' BY <1>1 DEF RepliesOK, Ended
<1>20. DecodingOK'
  <2>1. ASSUME NEW v \in holds', Decoding(v)' PROVE Decoding(v) /\ v \in holds /\ reqs'[v] = reqs[v]
    <3>1. v \in Late' /\ inflight'.phase = "decode" BY <1>4, <2>1 DEF Decoding
    <3>2. v \in Fresh /\ batch.phase = "decode" BY <1>1, <1>4, <3>1 DEF NoBatch
    <3>3. QED BY <1>1, <1>8, <2>1, <3>2 DEF Decoding
  <2>2. QED BY <1>1, <2>1 DEF DecodingOK
<1>19. QED BY <1>20, <1>9, <1>10, <1>12, <1>13, <1>15, <1>16, <1>17, <1>18

----------------------------------------------------------------------------
(* The Req of a result: one more token, and a key that is computed.        *)
Longer(r, s, token) ==
  /\ s \in Request /\ s.ids = Append(r.ids, token) /\ Len(s.ids) = Len(r.ids) + 1
  /\ s.slot = r.slot /\ s.cached = r.cached /\ s.device = r.device
  /\ s.maxDevice = r.maxDevice

LEMMA AppendedFacts ==
  ASSUME NEW o \in Request, NEW token \in Vocab, o.cached <= Len(o.ids) + 1
  PROVE  LET r == [o EXCEPT !.ids = Append(o.ids, token)]
             s == [r EXCEPT !.handle = ReqKey(r)]
         IN  /\ Longer(o, r, token) /\ r.handle = o.handle
             /\ ReqKey(r) \in Seq(Block)
             /\ Longer(o, s, token) /\ s.handle = ReqKey(r)
<1> DEFINE ids == Append(o.ids, token)
           r == [o EXCEPT !.ids = ids]
<1>1. token \in Token BY DEF Token
<1>2. o.ids \in Seq(Token) /\ o.cached \in Nat BY DEF Request
<1>3. ids \in Seq(Token) /\ Len(ids) = Len(o.ids) + 1 BY <1>1, <1>2
<1>0. ids = Append(o.ids, token) OBVIOUS
<1> HIDE DEF ids
<1>4. /\ r \in Request /\ r.ids = ids /\ r.slot = o.slot /\ r.cached = o.cached
      /\ r.device = o.device /\ r.maxDevice = o.maxDevice /\ r.handle = o.handle
  BY <1>3 DEF Request
<1>5. Longer(o, r, token) BY <1>0, <1>3, <1>4 DEF Longer
<1> HIDE DEF r
<1>6. ReqKey(r) \in Seq(Block) BY <1>2, <1>3, <1>4, FirstTokens DEF ReqKey, Block
<1> DEFINE k == ReqKey(r)
           s == [r EXCEPT !.handle = k]
<1> HIDE DEF k
<1>7. /\ s \in Request /\ s.ids = r.ids /\ s.slot = r.slot /\ s.cached = r.cached
      /\ s.device = r.device /\ s.maxDevice = r.maxDevice /\ s.handle = k
  BY <1>4, <1>6 DEF Request, k
<1>8. Longer(o, s, token) BY <1>0, <1>3, <1>4, <1>7 DEF Longer
<1>9. QED BY <1>5, <1>4, <1>6, <1>7, <1>8 DEF r, k, ids

(* A request whose result is processed: its prompt is computed, and it     *)
(* holds resources unless its end or its abort is behind it.               *)
LEMMA ResultFacts ==
  ASSUME Going, pc = "process", cursor <= Len(Results.reqs), ~Current.chunked,
         NEW u, u = Current.uid
  PROVE  /\ u \in Uids /\ u \in arrived /\ u \in Late \cup Fresh
         /\ Prefilled(u) /\ DecodeLengths(u) /\ ~Begun(u) /\ ToCome(u) \in {1, 2}
         /\ reqs[u] \in Request /\ reqs[u].cached <= Len(reqs[u].ids) + 1
         /\ reqs[u].cached < reqs[u].device
         /\ \A i \in DOMAIN pending : pending[i].uid # u
         /\ u \in holds => u \notin finishedReqs \cup newFinished
         /\ u \notin holds => u \in finishedReqs \cup aborted
         /\ ~Overlap => u \in holds
         /\ Results.phase = "prefill" => u \in holds /\ u \notin running
         /\ Results.phase # "prefill" => Decoding(u)
<1> USE DEF Going
<1> DEFINE c == cursor
<1>1. /\ Results \in Batch /\ BatchOK(Results) /\ c \in 1..Len(Results.reqs)
  BY DEF Results, Types, Phases, Batch
<1> HIDE DEF c
<1>2. Current.uid \in Uids /\ u \in Open(Results, c)
  <2> DEFINE b == Results
  <2>1. b \in Batch /\ BatchOK(b) /\ c \in 1..Len(b.reqs) BY <1>1
  <2>2. Current = b.reqs[c] BY DEF Current, c
  <2> HIDE DEF b
  <2>3. b.reqs[c] \in BatchEntry /\ (~b.reqs[c].chunked => b.reqs[c].uid \in Open(b, c))
    BY <2>1, OpenNext
  <2>4. Current.uid \in Uids BY <2>2, <2>3 DEF BatchEntry
  <2>5. QED BY <2>2, <2>3, <2>4 DEF b
<1>3. /\ u \in Late \cup Fresh
      /\ Overlap => u \in Late /\ Results = inflight
      /\ ~Overlap => u \in Fresh /\ Late = {} /\ Results = batch
  <2>1. CASE Overlap BY <1>2, <2>1 DEF Results, Late, c
  <2>2. CASE ~Overlap
    <3>1. inflight.reqs = <<>> BY <2>2 DEF Phases, NoBatch
    <3>2. Late = {} BY <1>1, <3>1 DEF Late, Open, Types
    <3>3. QED BY <1>2, <2>2, <3>2 DEF Results, Fresh, c
  <2>3. QED BY <2>1, <2>2
<1>4. Prefilled(u) BY <1>3 DEF Prefilled
<1>5. DecodeLengths(u) BY <1>2, <1>4 DEF LengthsOK
<1>6. u \in InBatch(batch) \cup InBatch(inflight)
  <2>1. Late \subseteq InBatch(inflight) BY DEF Late, Open, InBatch, Types
  <2>2. Fresh \subseteq InBatch(batch) BY DEF Fresh, Open, InBatch, Types
  <2>3. QED BY <1>3, <2>1, <2>2
<1>7. u \in arrived /\ reqs[u] \in Request BY <1>2, <1>6 DEF OpenOK, LengthsOK, Types
<1>8. ToCome(u) \in {1, 2} BY <1>3 DEF ToCome
<1>9. reqs[u].cached <= Len(reqs[u].ids) + 1 /\ reqs[u].cached < reqs[u].device
  <2>1. /\ Len(reqs[u].ids) \in Nat /\ reqs[u].cached \in Nat /\ reqs[u].device \in Nat
    BY <1>7 DEF Request
  <2>2. /\ reqs[u].device = Len(reqs[u].ids) + ToCome(u) /\ reqs[u].cached = reqs[u].device - 1
    BY <1>5 DEF DecodeLengths
  <2>3. QED BY <1>8, <2>1, <2>2
<1>10. ASSUME NEW i \in DOMAIN pending PROVE pending[i].uid # u
  <2>1. Taken = 0 /\ i > Taken BY DEF Taken, Types
  <2>2. Pends(pending[i]) /\ Untaken(pending[i]) BY <2>1 DEF PendingOK
  <2>3. QED BY <1>3, <2>2 DEF Pends, Untaken
<1>11. /\ u \in holds => u \notin finishedReqs \cup newFinished
       /\ u \notin holds => u \in finishedReqs \cup aborted
       /\ ~Overlap => u \in holds
  BY <1>3 DEF HoldsOK, OpenOK
<1>12. Results.phase = "prefill" => u \in holds /\ u \notin running BY <1>3 DEF OpenOK
<1>13. ~Begun(u) BY DEF Begun
<1>15. ASSUME Results.phase # "prefill" PROVE Decoding(u)
  <2>1. Results.reqs # <<>> BY <1>1
  <2>2. Results.phase = "decode" BY <1>1, <1>15, <2>1 DEF Batch, BatchOK
  <2>3. QED BY <1>3, <2>2 DEF Decoding
<1>14. QED BY <1>15, <1>2, <1>3, <1>4, <1>5, <1>7, <1>8, <1>9, <1>10, <1>11, <1>12, <1>13

(* What a result does to the request: it ends, its prompt goes into the    *)
(* cache and it runs, or it only has one more token.                       *)
Ends(u) ==
  /\ u \in holds /\ u \notin finishedReqs /\ running' = running \ {u}
  /\ freeSlots' = Append(freeSlots, reqs[u].slot) /\ holds' = holds \ {u}
  /\ newFinished' = newFinished \cup {u} /\ reqs'[u].handle = reqs[u].handle
Runs(u, token) ==
  /\ ~Finished(token) /\ Results.phase = "prefill" /\ u \in holds
  /\ running' = running \cup {u} /\ UNCHANGED <<freeSlots, holds, newFinished>>
GoesOn(u, token) ==
  /\ ~Finished(token) \/ u \in finishedReqs
  /\ Results.phase # "prefill" /\ reqs'[u].handle = reqs[u].handle
  /\ UNCHANGED <<running, freeSlots, holds, newFinished>>

LEMMA ProcessReqFacts ==
  ASSUME Going, NEW token \in Vocab, ProcessReq(token), pc' = "process",
         NEW u, u = Current.uid
  PROVE  /\ pc = "process" /\ pc' = "process" /\ cursor <= Len(Results.reqs) /\ ~Current.chunked
         /\ cursor' = cursor + 1
         /\ UNCHANGED <<arrived, aborted, pending, adder, batch, inflight, finishedReqs, streak>>
         /\ reqs' \in [Uids -> Request \cup {None}] /\ Longer(reqs[u], reqs'[u], token)
         /\ \A v \in Uids : v # u => reqs'[v] = reqs[v]
         /\ replies' \in [Uids -> Seq(Reply)]
         /\ replies'[u] = Append(replies[u], [eos |-> token = Eos, finished |-> Finished(token)])
         /\ \A v \in Uids : v # u => replies'[v] = replies[v]
         /\ Ends(u) \/ Runs(u, token) \/ GoesOn(u, token)
<1> USE DEF Going
<1> DEFINE r == [reqs[u] EXCEPT !.ids = Append(reqs[u].ids, token)]
           a == [eos |-> token = Eos, finished |-> Finished(token)]
<1>1. /\ pc = "process" /\ cursor <= Len(Results.reqs) /\ ~Current.chunked
      /\ cursor' = cursor + 1
      /\ UNCHANGED <<arrived, aborted, pending, adder, batch, inflight, finishedReqs, streak>>
      /\ replies' = [replies EXCEPT ![u] = Append(@, a)]
  BY DEF ProcessReq
<1>2. Appended(token) = r BY DEF Appended
<1>3. /\ u \in Uids /\ reqs[u] \in Request /\ reqs[u].cached <= Len(reqs[u].ids) + 1
      /\ u \in holds => u \notin finishedReqs \cup newFinished
      /\ Results.phase = "prefill" => u \in holds
  BY <1>1, ResultFacts
<1> DEFINE s == [r EXCEPT !.handle = ReqKey(r)]
<1>4. /\ Longer(reqs[u], r, token) /\ r.handle = reqs[u].handle /\ Longer(reqs[u], s, token)
  BY <1>3, AppendedFacts
<1> HIDE DEF r, s
<1>5. r \in Request /\ s \in Request /\ r.slot = reqs[u].slot BY <1>4 DEF Longer
<1>6. reqs \in [Uids -> Request \cup {None}] BY DEF Types
<1>7. /\ replies' \in [Uids -> Seq(Reply)] /\ replies'[u] = Append(replies[u], a)
      /\ \A v \in Uids : v # u => replies'[v] = replies[v]
  <2>1. a \in Reply
    <3>1. (token = Eos) \in BOOLEAN /\ Finished(token) \in BOOLEAN BY DEF Finished, CanDecode
    <3>2. QED BY <3>1 DEF Reply
  <2> HIDE DEF a
  <2>2. replies \in [Uids -> Seq(Reply)] BY DEF Types
  <2>3. u \in Uids BY <1>3
  <2>4. replies' = [replies EXCEPT ![u] = Append(@, a)] BY <1>1
  <2>5. Append(replies[u], a) \in Seq(Reply) BY <2>1, <2>2, <2>3
  <2>6. replies' = [replies EXCEPT ![u] = Append(replies[u], a)] BY <2>4
  <2> DEFINE b == Append(replies[u], a)
  <2> HIDE DEF b
  <2>7. /\ replies' \in [Uids -> Seq(Reply)] /\ replies'[u] = b
        /\ \A v \in Uids : v # u => replies'[v] = replies[v]
    BY <2>2, <2>3, <2>5, <2>6 DEF b
  <2>8. QED BY <2>7 DEF b
<1>8. CASE FirstFinish(token)
  <2>1. /\ pc' = IF u \in holds THEN pc ELSE "freed twice"
        /\ running' = running \ {u}
        /\ freeSlots' = Append(freeSlots, r.slot) /\ holds' = holds \ {u}
        /\ newFinished' = newFinished \cup {u} /\ reqs' = [reqs EXCEPT ![u] = r]
    BY <1>2, <1>8 DEF ProcessReq, RemoveReq, FreeReqResources
  <2>2. u \in holds /\ pc' = "process" BY <1>1, <2>1
  <2>3. /\ reqs' \in [Uids -> Request \cup {None}] /\ reqs'[u] = r
        /\ \A v \in Uids : v # u => reqs'[v] = reqs[v]
    BY <1>3, <1>5, <1>6, <2>1
  <2>4. Ends(u) BY <1>3, <1>4, <1>5, <2>1, <2>2, <2>3 DEF Ends
  <2>5. Longer(reqs[u], reqs'[u], token) BY <1>4, <2>3
  <2>6. QED BY <1>1, <1>7, <2>2, <2>3, <2>4, <2>5
<1>9. CASE ~FirstFinish(token) /\ Results.phase = "prefill"
  <2>1. /\ running' = running \cup {u} /\ UNCHANGED <<pc, freeSlots, holds, newFinished>>
        /\ reqs' = [reqs EXCEPT ![u] = s]
    BY <1>2, <1>9 DEF ProcessReq, s
  <2>2. ~Finished(token) BY <1>3, <1>9 DEF FirstFinish
  <2>3. /\ reqs' \in [Uids -> Request \cup {None}] /\ reqs'[u] = s
        /\ \A v \in Uids : v # u => reqs'[v] = reqs[v]
    BY <1>3, <1>5, <1>6, <2>1
  <2>4. Runs(u, token) BY <1>3, <1>9, <2>1, <2>2 DEF Runs
  <2>5. Longer(reqs[u], reqs'[u], token) BY <1>4, <2>3
  <2>6. QED BY <1>1, <1>7, <2>1, <2>3, <2>4, <2>5
<1>10. CASE ~FirstFinish(token) /\ Results.phase # "prefill"
  <2>1. /\ UNCHANGED <<pc, running, freeSlots, holds, newFinished>>
        /\ reqs' = [reqs EXCEPT ![u] = r]
    BY <1>2, <1>10 DEF ProcessReq
  <2>2. ~Finished(token) \/ u \in finishedReqs BY <1>10 DEF FirstFinish
  <2>3. /\ reqs' \in [Uids -> Request \cup {None}] /\ reqs'[u] = r
        /\ \A v \in Uids : v # u => reqs'[v] = reqs[v]
    BY <1>3, <1>5, <1>6, <2>1
  <2>4. GoesOn(u, token) BY <1>4, <1>10, <2>1, <2>2, <2>3 DEF GoesOn
  <2>5. Longer(reqs[u], reqs'[u], token) BY <1>4, <2>3
  <2>6. QED BY <1>1, <1>7, <2>1, <2>3, <2>4, <2>5
<1>11. QED BY <1>8, <1>9, <1>10

LEMMA ProcessReqGoing ==
  ASSUME Going, NEW token \in Vocab, ProcessReq(token), pc' = "process",
         NEW u, u = Current.uid
  PROVE  Going'
<1> USE DEF Going
<1> DEFINE a == [eos |-> token = Eos, finished |-> Finished(token)]
<1>0. /\ /\ pc = "process" /\ pc' = "process" /\ cursor <= Len(Results.reqs) /\ ~Current.chunked
         /\ cursor' = cursor + 1
         /\ UNCHANGED <<arrived, aborted, pending, adder, batch, inflight, finishedReqs, streak>>
      /\ /\ reqs' \in [Uids -> Request \cup {None}] /\ Longer(reqs[u], reqs'[u], token)
         /\ \A v \in Uids : v # u => reqs'[v] = reqs[v]
      /\ /\ replies' \in [Uids -> Seq(Reply)]
         /\ replies'[u] = Append(replies[u], [eos |-> token = Eos, finished |-> Finished(token)])
         /\ \A v \in Uids : v # u => replies'[v] = replies[v]
      /\ Ends(u) \/ Runs(u, token) \/ GoesOn(u, token)
  BY ProcessReqFacts
<1>1. /\ pc = "process" /\ pc' = "process" /\ cursor <= Len(Results.reqs) /\ ~Current.chunked
      /\ cursor' = cursor + 1
      /\ UNCHANGED <<arrived, aborted, pending, adder, batch, inflight, finishedReqs, streak>>
  BY <1>0
<1>b. /\ reqs' \in [Uids -> Request \cup {None}] /\ Longer(reqs[u], reqs'[u], token)
      /\ \A v \in Uids : v # u => reqs'[v] = reqs[v]
  BY <1>0
<1>c. /\ replies' \in [Uids -> Seq(Reply)]
      /\ replies'[u] = Append(replies[u], a)
      /\ \A v \in Uids : v # u => replies'[v] = replies[v]
  BY <1>0
<1>d. Ends(u) \/ Runs(u, token) \/ GoesOn(u, token)
  BY <1>0
<1>2. /\ u \in Uids /\ u \in arrived /\ u \in Late \cup Fresh
      /\ Prefilled(u) /\ DecodeLengths(u) /\ ~Begun(u) /\ ToCome(u) \in {1, 2}
      /\ reqs[u] \in Request
      /\ \A i \in DOMAIN pending : pending[i].uid # u
      /\ u \in holds => u \notin finishedReqs \cup newFinished
      /\ u \notin holds => u \in finishedReqs \cup aborted
      /\ ~Overlap => u \in holds
      /\ Results.phase = "prefill" => u \in holds /\ u \notin running
      /\ Results.phase # "prefill" => Decoding(u)
  BY <1>1, ResultFacts
<1>3. /\ Results' = Results /\ cursor \in 1..Len(Results.reqs)
      /\ \/ Overlap /\ u \in Late /\ Late' = Late \ {u} /\ Fresh' = Fresh
         \/ ~Overlap /\ Late = {} /\ Late' = {} /\ u \in Fresh /\ Fresh' = Fresh \ {u}
  BY <1>1, CurrentFacts
<1>a. a.finished = Finished(token) OBVIOUS
<1> HIDE DEF a
<1>4. /\ InBatch(batch)' = InBatch(batch) /\ InBatch(inflight)' = InBatch(inflight)
      /\ Taken = 0 /\ Taken' = 0
  BY <1>1 DEF InBatch, Taken
<1>5. /\ holds' \subseteq holds /\ \A v \in holds : v # u => v \in holds'
      /\ running' \subseteq running \cup {u} /\ \A v \in running : v # u => v \in running'
      /\ newFinished' \subseteq newFinished \cup {u} /\ newFinished \subseteq newFinished'
  BY <1>d DEF Ends, Runs, GoesOn
<1>6. Types'
  <2>1. freeSlots' \in Seq(Slot)
    <3>1. reqs[u].slot \in Slot BY <1>2 DEF Request
    <3>2. freeSlots \in Seq(Slot) BY DEF Types
    <3>3. freeSlots' = Append(freeSlots, reqs[u].slot) \/ freeSlots' = freeSlots
      BY <1>d DEF Ends, Runs, GoesOn
    <3>4. QED BY <3>1, <3>2, <3>3
  <2>2. /\ running' \subseteq Uids /\ holds' \subseteq arrived' /\ newFinished' \subseteq arrived'
    BY <1>1, <1>2, <1>5 DEF Types
  <2>3. cursor' \in Nat \ {0} BY <1>1 DEF Types
  <2>4. QED BY <1>1, <1>b, <1>c, <2>1, <2>2, <2>3 DEF Types
<1>7. Phases'
  <2>0. Len(Results.reqs) \in Nat /\ cursor \in 1..Len(Results.reqs) /\ Results' = Results
    BY <1>3 DEF Results, Types, Batch
  <2>1. cursor' \in 1..(Len(Results'.reqs) + 1)
    <3> DEFINE n == Len(Results.reqs)
    <3>1. n \in Nat /\ cursor \in 1..n /\ cursor' = cursor + 1 BY <1>1, <2>0
    <3> HIDE DEF n
    <3>2. cursor' \in 1..(n + 1) BY <3>1
    <3>3. QED BY <2>0, <3>2 DEF n
  <2>2. Results'.reqs # <<>> BY <2>0
  <2>3. QED BY <1>1, <2>1, <2>2 DEF Phases, BatchOK
<1>8. PendingOK'
  <2>1. ASSUME NEW i \in DOMAIN pending' PROVE Pends(pending[i])' /\ Untaken(pending[i])'
    <3>0. i \in DOMAIN pending /\ pending[i].uid # u BY <1>1, <1>2
    <3>a. pending \in Seq(PendingReq) BY DEF Types
    <3>b. pending[i] \in PendingReq /\ i \in Nat \ {0} BY <3>0, <3>a
    <3>c. pending[i].uid \in Uids BY <3>b DEF PendingReq
    <3>1. i \in DOMAIN pending /\ i > Taken /\ pending[i].uid # u /\ pending[i].uid \in Uids
      BY <1>4, <3>0, <3>b, <3>c
    <3>2. Pends(pending[i]) /\ Untaken(pending[i]) BY <3>1 DEF PendingOK
    <3>3. Pends(pending[i])' BY <1>1, <1>3, <1>5, <1>c, <3>1, <3>2 DEF Pends
    <3>4. Untaken(pending[i])'
      <4> DEFINE f == pending[i]
      <4>1. /\ f.chunked <=> f.uid \in holds
            /\ f.uid \notin Fresh
        BY <3>2 DEF Untaken
      <4>2. f.uid # u BY <3>1
      <4>3. pending'[i] = f BY <1>1
      <4> HIDE DEF f
      <4>4. f.uid \in holds' <=> f.uid \in holds BY <1>5, <4>2
      <4>5. f.uid \notin Fresh' BY <1>3, <4>1
      <4>6. QED BY <1>1, <4>1, <4>3, <4>4, <4>5 DEF Untaken
    <3>5. QED BY <3>3, <3>4
  <2>2. QED BY <1>1, <2>1 DEF PendingOK
<1>9. AdmissionOK' BY <1>1 DEF AdmissionOK
<1>10. \A v : ChunkWaits(v)' <=> ChunkWaits(v) BY <1>1 DEF ChunkWaits, Waiting
<1>11. ~ChunkWaits(u) BY <1>2 DEF ChunkWaits, Waiting
<1>12. HoldsOK'
  <2>1. running' \subseteq holds' BY <1>d, <1>5 DEF HoldsOK, Ends, Runs, GoesOn
  <2>2. ASSUME NEW v \in holds'
        PROVE  /\ ~TooLong(v) /\ v \notin finishedReqs' \cup newFinished'
               /\ v \in running' \cup Late' \cup Fresh' \/ ChunkWaits(v)'
    <3>1. v \in holds BY <1>5
    <3>2. CASE v # u BY <1>1, <1>3, <1>5, <1>10, <3>1, <3>2 DEF HoldsOK
    <3>3. CASE v = u
      <4>1. ~Ends(u) BY <2>2, <3>3 DEF Ends
      <4>2. newFinished' = newFinished BY <1>d, <4>1 DEF Runs, GoesOn
      <4>3. CASE Runs(u, token) BY <1>1, <3>1, <3>3, <4>2, <4>3 DEF HoldsOK, Runs
      <4>4. CASE GoesOn(u, token)
        <5>1. u \in running'
          <6>1. /\ running' = running /\ Results.phase # "prefill"
                /\ ~Finished(token) \/ u \in finishedReqs
            BY <4>4 DEF GoesOn
          <6>2. CanDecode(reqs[u]) BY <1>2, <3>1, <3>3, <6>1 DEF Finished
          <6> DEFINE d == reqs[u].device
                     m == reqs[u].maxDevice
          <6>3. d \in Nat /\ m \in Nat BY <1>2 DEF Request
          <6>4. m = FullLength(u) BY <1>2 DEF DecodeLengths
          <6>a. m - d > 0 BY <6>2 DEF CanDecode, RemainLen
          <6> HIDE DEF d, m
          <6>b. ~(d >= m) BY <6>3, <6>a
          <6>5. ~(reqs[u].device >= FullLength(u)) BY <6>4, <6>b DEF d, m
          <6>6. Decoding(u) BY <1>2, <6>1
          <6>7. QED BY <3>1, <3>3, <6>1, <6>5, <6>6 DEF DecodingOK
        <5>2. QED BY <1>1, <3>1, <3>3, <4>2, <5>1 DEF HoldsOK
      <4>5. QED BY <1>d, <4>1, <4>3, <4>4
    <3>4. QED BY <3>2, <3>3
  <2>3. ~Overlap => aborted' \cap holds' = {} BY <1>1, <1>5 DEF HoldsOK
  <2>4. QED BY <2>1, <2>2, <2>3 DEF HoldsOK
<1>13. OpenOK'
  <2>1. ASSUME NEW v \in Late'
        PROVE  /\ v \in holds' \cup finishedReqs' \cup aborted'
               /\ inflight'.phase = "prefill" => v \in holds' /\ v \notin running' /\ v \notin Fresh'
    <3>1. v \in Late /\ v # u /\ Fresh' = Fresh BY <1>3, <2>1
    <3>2. QED BY <1>1, <1>5, <3>1 DEF OpenOK
  <2>2. ASSUME NEW v \in Fresh'
        PROVE  /\ v \in holds' \/ (Overlap /\ v \in newFinished')
               /\ batch'.phase = "prefill" => v \in holds' /\ v \notin running' /\ v \notin Late'
    <3>1. v \in Fresh BY <1>3, <2>2
    <3>2. CASE v # u BY <1>1, <1>3, <1>5, <3>1, <3>2 DEF OpenOK
    <3>3. CASE v = u
      <4>1. Overlap /\ u \in Late BY <1>3, <2>2, <3>3
      <4>2. batch.phase # "prefill" BY <3>1, <3>3, <4>1 DEF OpenOK
      <4>3. u \in holds \/ u \in newFinished BY <3>1, <3>3 DEF OpenOK
      <4>4. u \in holds' \/ u \in newFinished'
        BY <1>d, <1>5, <4>3 DEF Ends, Runs, GoesOn
      <4>5. QED BY <1>1, <3>3, <4>1, <4>2, <4>4
    <3>4. QED BY <3>2, <3>3
  <2>3. InBatch(batch)' \cup InBatch(inflight)' \subseteq arrived' BY <1>1, <1>4 DEF OpenOK
  <2>4. QED BY <1>1, <2>1, <2>2, <2>3 DEF OpenOK
<1>14. /\ reqs'[u] \in Request /\ Len(reqs'[u].ids) = Len(reqs[u].ids) + 1
       /\ reqs'[u].cached = reqs[u].cached /\ reqs'[u].device = reqs[u].device
       /\ reqs'[u].maxDevice = reqs[u].maxDevice
  BY <1>b DEF Longer
<1>15. LengthsOK'
  <2>1. \A v \in holds' \cup InBatch(batch)' \cup InBatch(inflight)' : reqs'[v] # None
    <3>1. TAKE v \in holds' \cup InBatch(batch)' \cup InBatch(inflight)'
    <3>2. v \in Uids /\ reqs[v] # None BY <1>4, <1>5 DEF LengthsOK, OpenOK, Types
    <3>3. CASE v = u BY <1>14, <3>3, NoneAssumption
    <3>4. CASE v # u BY <1>b, <3>2, <3>4
    <3>5. QED BY <3>3, <3>4
  <2>2. ASSUME NEW v \in Uids, v # u, Prefilled(v)' PROVE DecodeLengths(v)'
    <3>1. v \in running \cup Late \cup Fresh BY <1>1, <1>3, <1>5, <2>2 DEF Prefilled
    <3>2. DecodeLengths(v) BY <1>1, <3>1 DEF LengthsOK, Prefilled
    <3>3. /\ v \in Late' <=> v \in Late
          /\ v \in Fresh' <=> v \in Fresh
      BY <1>3, <2>2
    <3>4. ToCome(v)' = ToCome(v) BY <1>1, <3>3 DEF ToCome
    <3>5. /\ reqs'[v] = reqs[v] /\ replies'[v] = replies[v]
          /\ v \in running' => v \in running
      BY <1>b, <1>c, <1>5, <2>2
    <3>6. QED BY <3>2, <3>4, <3>5 DEF DecodeLengths
  <2>3. DecodeLengths(u)'
    <3>1. /\ Len(reqs[u].ids) = Len(Prompt[u]) + Len(replies[u])
          /\ reqs[u].device = Len(reqs[u].ids) + ToCome(u)
          /\ reqs[u].cached = reqs[u].device - 1
          /\ reqs[u].maxDevice = FullLength(u) /\ reqs[u].device <= FullLength(u)
          /\ u \in running => reqs[u].device < FullLength(u)
      BY <1>2 DEF DecodeLengths
    <3>2. /\ Len(reqs[u].ids) \in Nat /\ reqs[u].device \in Nat /\ reqs[u].maxDevice \in Nat
          /\ Len(Prompt[u]) \in Nat /\ Len(replies[u]) \in Nat
      <4>1. reqs[u] \in Request /\ u \in Uids BY <1>2
      <4>2. Len(Prompt[u]) \in Nat BY <4>1, RequestFacts
      <4>3. replies[u] \in Seq(Reply) BY <4>1 DEF Types
      <4>4. Len(replies[u]) \in Nat BY <4>3
      <4>5. reqs[u].ids \in Seq(Token) /\ reqs[u].device \in Nat /\ reqs[u].maxDevice \in Nat
        BY <4>1 DEF Request
      <4>6. QED BY <4>2, <4>4, <4>5
    <3>3. Len(replies'[u]) = Len(replies[u]) + 1
      <4>1. replies[u] \in Seq(Reply) BY <1>2 DEF Types
      <4>2. replies'[u] = Append(replies[u], a) BY <1>c
      <4>3. QED BY <4>1, <4>2
    <3>4. ToCome(u)' = ToCome(u) - 1
      <4>1. CASE Overlap /\ u \in Late /\ Late' = Late \ {u} /\ Fresh' = Fresh
        <5> DEFINE y == IF u \in Fresh /\ pc = "process" THEN 1 ELSE 0
        <5>1. u \in Late /\ u \notin Late' /\ (u \in Fresh' <=> u \in Fresh) /\ pc' = pc
          BY <1>1, <4>1
        <5>2. y \in Nat /\ ToCome(u) = 1 + y BY <5>1 DEF ToCome
        <5>3. ToCome(u)' = 0 + y BY <5>1 DEF ToCome
        <5> HIDE DEF y
        <5>4. 0 + y = (1 + y) - 1 BY <5>2
        <5>5. QED BY <5>2, <5>3, <5>4
      <4>2. CASE ~Overlap /\ Late = {} /\ Late' = {} /\ u \in Fresh /\ Fresh' = Fresh \ {u}
        <5>1. /\ u \notin Late' /\ u \notin Fresh' /\ u \notin Late /\ u \in Fresh
              /\ pc = "process"
          BY <1>1, <4>2
        <5>2. ToCome(u) = 0 + 1 BY <5>1 DEF ToCome
        <5>3. ToCome(u)' = 0 + 0 BY <5>1 DEF ToCome
        <5>4. QED BY <5>2, <5>3
      <4>3. QED BY <1>3, <4>1, <4>2
    <3>5. ASSUME u \in running' PROVE reqs[u].device < FullLength(u)
      <4>1. CASE u \in running BY <3>1, <4>1
      <4>2. CASE u \notin running
        <5>1. ~Finished(token) BY <1>d, <3>5, <4>2 DEF Ends, Runs, GoesOn
        <5>2. CanDecode(reqs[u]) BY <5>1 DEF Finished
        <5> DEFINE d == reqs[u].device
                   m == reqs[u].maxDevice
        <5>3. d \in Nat /\ m \in Nat /\ m - d > 0 BY <3>2, <5>2 DEF CanDecode, RemainLen
        <5> HIDE DEF d, m
        <5>4. d < m BY <5>3
        <5>5. QED BY <3>1, <5>4 DEF d, m
      <4>3. QED BY <4>1, <4>2
    <3> DEFINE l == Len(reqs[u].ids)
               p == Len(Prompt[u])
               k == Len(replies[u])
               t == ToCome(u)
               d == reqs[u].device
    <3>a. t \in {1, 2} BY <1>2
    <3>6. l \in Nat /\ p \in Nat /\ k \in Nat /\ t \in Nat /\ d \in Nat /\ l = p + k /\ d = l + t
      <4>1. l \in Nat /\ p \in Nat /\ k \in Nat /\ d \in Nat BY <3>2
      <4>2. l = p + k /\ d = l + t BY <3>1
      <4> HIDE DEF l, p, k, t, d
      <4>3. QED BY <3>a, <4>1, <4>2
    <3>b. Len(reqs'[u].ids) = l + 1 /\ reqs'[u].device = d BY <1>14
    <3>c. Len(replies'[u]) = k + 1 BY <3>3
    <3>d. ToCome(u)' = t - 1 BY <3>4
    <3>e. p = Len(Prompt[u]) OBVIOUS
    <3> HIDE DEF l, p, k, t, d
    <3>7. l + 1 = p + (k + 1) /\ d = (l + 1) + (t - 1) BY <3>6
    <3>8. Len(reqs'[u].ids) = Len(Prompt[u]) + Len(replies'[u]) BY <3>7, <3>b, <3>c, <3>e
    <3>9. reqs'[u].device = Len(reqs'[u].ids) + ToCome(u)' BY <3>7, <3>b, <3>d
    <3>10. /\ reqs'[u].cached = reqs'[u].device - 1
           /\ reqs'[u].maxDevice = FullLength(u) /\ reqs'[u].device <= FullLength(u)
      BY <1>14, <3>1
    <3>11. u \in running' => reqs'[u].device < FullLength(u) BY <1>14, <3>5
    <3>12. QED BY <3>8, <3>9, <3>10, <3>11 DEF DecodeLengths
  <2>4. \A v : ~Begun(v)' /\ ~Begun(v) BY <1>1 DEF Begun
  <2>5. ASSUME NEW v \in Uids, ChunkWaits(v)' PROVE ChunkLengths(v)'
    <3>1. v # u /\ ChunkWaits(v) BY <1>10, <1>11, <2>5
    <3>2. ChunkLengths(v) BY <2>4, <3>1 DEF LengthsOK
    <3>3. reqs'[v] = reqs[v] BY <1>b, <3>1
    <3>4. QED BY <3>2, <3>3 DEF ChunkLengths
  <2>6. \A v \in Uids : Prefilled(v)' => DecodeLengths(v)'
    <3>1. TAKE v \in Uids
    <3>2. CASE v = u BY <2>3, <3>2
    <3>3. CASE v # u BY <2>2, <3>3
    <3>4. QED BY <3>2, <3>3
  <2>7. QED BY <2>1, <2>4, <2>5, <2>6 DEF LengthsOK
<1>16. DecodingOK'
  <2>1. ASSUME NEW v \in holds', Decoding(v)'
        PROVE  v \in running' \/ reqs'[v].device >= FullLength(v)
    <3>1. v \in holds /\ Decoding(v) /\ v \in Uids BY <1>1, <1>3, <1>5, <2>1 DEF Decoding, Types
    <3>2. v \in running \/ reqs[v].device >= FullLength(v) BY <3>1 DEF DecodingOK
    <3>3. CASE v # u BY <1>b, <1>5, <3>1, <3>2, <3>3
    <3>4. CASE v = u
      <4>1. ~Ends(u) BY <2>1, <3>4 DEF Ends
      <4>2. running \subseteq running' BY <1>d, <4>1 DEF Runs, GoesOn
      <4>3. QED BY <1>14, <3>2, <3>4, <4>2
    <3>5. QED BY <3>3, <3>4
  <2>2. QED BY <2>1 DEF DecodingOK
<1>17. RepliesOK'
  <2>1. \A v \in Uids \ arrived' : replies'[v] = <<>> BY <1>1, <1>2, <1>c DEF RepliesOK, Types
  <2>2. ASSUME ~Overlap, NEW v \in holds' PROVE ~Ended(v)'
    <3>1. v \in holds /\ v \in Uids /\ ~Ended(v) BY <1>5, <2>2 DEF RepliesOK, Types
    <3>2. CASE v # u BY <1>c, <3>1, <3>2 DEF Ended
    <3>3. CASE v = u
      <4>1. ~Finished(token) BY <1>d, <1>2, <2>2, <3>1, <3>3 DEF Ends, Runs, GoesOn
      <4>2. replies[u] \in Seq(Reply) /\ Len(replies[u]) \in Nat BY <1>2 DEF Types
      <4>3. /\ Len(replies'[u]) = Len(replies[u]) + 1
            /\ \A i \in 1..Len(replies[u]) : replies'[u][i] = replies[u][i]
            /\ replies'[u][Len(replies[u]) + 1] = a
        BY <1>c, <4>2
      <4>4. ASSUME NEW i \in 1..Len(replies'[u]) PROVE ~replies'[u][i].finished
        <5>1. i \in 1..Len(replies[u]) \/ i = Len(replies[u]) + 1 BY <4>2, <4>3
        <5>2. CASE i \in 1..Len(replies[u]) BY <3>1, <3>3, <4>3, <5>2 DEF Ended
        <5>3. CASE i = Len(replies[u]) + 1 BY <1>a, <4>1, <4>3, <5>3
        <5>4. QED BY <5>1, <5>2, <5>3
      <4>5. QED BY <3>3, <4>4 DEF Ended
    <3>4. QED BY <3>2, <3>3
  <2>3. QED BY <2>1, <2>2 DEF RepliesOK
<1>18. QED BY <1>6, <1>7, <1>8, <1>9, <1>12, <1>13, <1>15, <1>16, <1>17

----------------------------------------------------------------------------
(* The rows of the page table: kept, taken by an admission, given back.    *)
LEMMA RowsKept ==
  ASSUME RowsOK, freeSlots' = freeSlots, holds' = holds,
         \A u \in holds : reqs'[u].slot = reqs[u].slot
  PROVE  RowsOK'
BY DEF RowsOK

LEMMA RowsTaken ==
  ASSUME RowsOK, freeSlots # <<>>, freeSlots' = Front(freeSlots),
         NEW u, u \notin holds, holds' = holds \cup {u}, reqs'[u].slot = Last(freeSlots),
         \A v \in holds : reqs'[v].slot = reqs[v].slot
  PROVE  RowsOK'
<1> DEFINE n == Len(freeSlots)
           sl == Last(freeSlots)
<1>1. freeSlots \in Seq(Slot) /\ n \in Nat \ {0} /\ DOMAIN freeSlots = 1..n
  BY EmptySeq DEF RowsOK
<1>2. sl = freeSlots[n] BY DEF Last
<1>3. sl \in Slot /\ sl \in ToSet(freeSlots) BY <1>1, <1>2 DEF ToSet
<1>4. freeSlots' = SubSeq(freeSlots, 1, n - 1) BY DEF Front
<1>5. /\ freeSlots' \in Seq(Slot) /\ DOMAIN freeSlots' = 1..(n - 1)
      /\ \A i \in 1..(n - 1) : freeSlots'[i] = freeSlots[i]
  BY <1>1, <1>4
<1> HIDE DEF n
<1>6. ToSet(freeSlots') = ToSet(freeSlots) \ {sl}
  <2>1. \A i, j \in 1..n : freeSlots[i] = freeSlots[j] => i = j BY <1>1 DEF RowsOK
  <2>2. 1..(n - 1) \subseteq 1..n /\ n \in 1..n /\ n \notin 1..(n - 1) BY <1>1
  <2>3. \A i \in 1..n : i = n \/ i \in 1..(n - 1) BY <1>1
  <2>4. ToSet(freeSlots) = {freeSlots[i] : i \in 1..n} BY <1>1 DEF ToSet
  <2>5. ToSet(freeSlots') = {freeSlots[i] : i \in 1..(n - 1)} BY <1>5 DEF ToSet
  <2>6. QED BY <1>2, <2>1, <2>2, <2>3, <2>4, <2>5
<1>7. \A i, j \in DOMAIN freeSlots' : freeSlots'[i] = freeSlots'[j] => i = j
  <2>1. 1..(n - 1) \subseteq 1..n BY <1>1
  <2>2. QED BY <1>1, <1>5, <2>1 DEF RowsOK
<1> HIDE DEF sl
<1>8. \A v \in holds : reqs[v].slot \in Slot /\ reqs[v].slot # sl /\ reqs[v].slot \notin ToSet(freeSlots')
  BY <1>3, <1>6 DEF RowsOK
<1>9. reqs'[u].slot = sl BY DEF sl
<1>10. \A v \in holds' : reqs'[v].slot \in Slot \ ToSet(freeSlots') BY <1>3, <1>6, <1>8, <1>9
<1>11. \A v, w \in holds' : reqs'[v].slot = reqs'[w].slot => v = w
  BY <1>8, <1>9 DEF RowsOK
<1>12. ASSUME NEW s \in Slot PROVE s \in ToSet(freeSlots') \/ \E v \in holds' : reqs'[v].slot = s
  <2>1. CASE s = sl BY <1>9, <2>1
  <2>2. CASE s \in ToSet(freeSlots) /\ s # sl BY <1>6, <2>2
  <2>3. CASE \E v \in holds : reqs[v].slot = s BY <2>3
  <2>4. QED BY <2>1, <2>2, <2>3 DEF RowsOK
<1>13. QED BY <1>5, <1>7, <1>10, <1>11, <1>12 DEF RowsOK

LEMMA RowsFreed ==
  ASSUME RowsOK, NEW u \in holds, freeSlots' = Append(freeSlots, reqs[u].slot),
         holds' = holds \ {u}, \A v \in holds \ {u} : reqs'[v].slot = reqs[v].slot
  PROVE  RowsOK'
<1> DEFINE n == Len(freeSlots)
           sl == reqs[u].slot
<1>1. /\ freeSlots \in Seq(Slot) /\ n \in Nat /\ DOMAIN freeSlots = 1..n
      /\ sl \in Slot /\ sl \notin ToSet(freeSlots)
  BY DEF RowsOK
<1>2. freeSlots' = Append(freeSlots, sl) OBVIOUS
<1>3. /\ freeSlots' \in Seq(Slot) /\ DOMAIN freeSlots' = 1..(n + 1)
      /\ freeSlots'[n + 1] = sl /\ \A i \in 1..n : freeSlots'[i] = freeSlots[i]
  BY <1>1, <1>2
<1> HIDE DEF n
<1>4. ToSet(freeSlots) = {freeSlots[i] : i \in 1..n} BY <1>1 DEF ToSet
<1>5. \A i \in 1..(n + 1) : i = n + 1 \/ i \in 1..n BY <1>1
<1>6. 1..n \subseteq 1..(n + 1) /\ n + 1 \in 1..(n + 1) BY <1>1
<1>7. ToSet(freeSlots') = ToSet(freeSlots) \cup {sl}
  <2>1. ToSet(freeSlots') = {freeSlots'[i] : i \in 1..(n + 1)} BY <1>3 DEF ToSet
  <2>2. QED BY <1>3, <1>4, <1>5, <1>6, <2>1
<1>8. ASSUME NEW i \in DOMAIN freeSlots', NEW j \in DOMAIN freeSlots', freeSlots'[i] = freeSlots'[j]
      PROVE  i = j
  <2>1. \A k \in 1..n : freeSlots[k] # sl BY <1>1, <1>4
  <2>2. \A k, l \in 1..n : freeSlots[k] = freeSlots[l] => k = l BY <1>1 DEF RowsOK
  <2>3. QED BY <1>3, <1>5, <1>8, <2>1, <2>2
<1> HIDE DEF sl
<1>9. \A v \in holds : v # u => reqs[v].slot # sl BY DEF RowsOK, sl
<1>10. \A v \in holds' : reqs'[v].slot \in Slot \ ToSet(freeSlots')
  BY <1>7, <1>9 DEF RowsOK
<1>11. \A v, w \in holds' : reqs'[v].slot = reqs'[w].slot => v = w BY DEF RowsOK
<1>12. ASSUME NEW s \in Slot PROVE s \in ToSet(freeSlots') \/ \E v \in holds' : reqs'[v].slot = s
  <2>1. CASE s = sl BY <1>7, <2>1
  <2>2. CASE s \in ToSet(freeSlots) BY <1>7, <2>2
  <2>3. CASE s # sl /\ \E v \in holds : reqs[v].slot = s
    <3>1. PICK v \in holds : reqs[v].slot = s BY <2>3
    <3>2. v # u BY <2>3, <3>1 DEF sl
    <3>3. QED BY <3>1, <3>2
  <2>4. QED BY <2>1, <2>2, <2>3 DEF RowsOK
<1>13. QED BY <1>3, <1>8, <1>10, <1>11, <1>12 DEF RowsOK

----------------------------------------------------------------------------
(* The tree and its locks: kept, walked, with a leaf less, with one more   *)
(* lock, one lock less, and with a lock moved on to a longer key.          *)
LEMMA TreeFrom ==
  ASSUME NEW t, WellShaped(t, Block), NEW h, Counted(t, holds', h), tree' = t, holds' \subseteq Uids,
         \A v \in holds' : reqs'[v].handle = h[v]
  PROVE  TreeOK'
<1>1. \A v \in holds' : HandleOf'[v] = h[v] BY DEF HandleOf
<1>2. \A n : Through(n, holds', HandleOf') = Through(n, holds', h) BY <1>1 DEF Through
<1>3. Counted(t, holds', HandleOf') BY <1>1, <1>2 DEF Counted
<1>4. QED BY <1>3 DEF TreeOK

LEMMA TreeKept ==
  ASSUME TreeOK, tree' = tree, holds' = holds, holds \subseteq Uids,
         \A v \in holds : reqs'[v].handle = reqs[v].handle
  PROVE  TreeOK'
<1>1. \A v \in holds' : reqs'[v].handle = HandleOf[v] BY DEF HandleOf
<1>2. QED BY <1>1, TreeFrom DEF TreeOK

LEMMA TreeWalked ==
  ASSUME TreeOK, NEW key \in Seq(Block), tree' = Walk(tree, key), holds' = holds,
         holds \subseteq Uids, UNCHANGED reqs
  PROVE  TreeOK'
<1> DEFINE w == Walk(tree, key)
<1>1. WellShaped(w, Block) /\ Counted(w, holds, HandleOf) BY WalkShape, ExtendCounted DEF TreeOK
<1>2. \A v \in holds' : reqs'[v].handle = HandleOf[v] BY DEF HandleOf
<1> HIDE DEF w
<1>3. tree' = w BY DEF w
<1>4. QED BY <1>1, <1>2, <1>3, TreeFrom

LEMMA TreeEvicted ==
  ASSUME TreeOK, NEW n \in FreeLeaves(tree), tree' = RemoveLeaf(tree, n), holds' = holds,
         holds \subseteq Uids, UNCHANGED reqs
  PROVE  TreeOK'
<1> DEFINE w == RemoveLeaf(tree, n)
<1>0. n \in Nodes(tree) /\ IsLeaf(tree, n) BY DEF FreeLeaves
<1>1. WellShaped(w, Block) /\ Counted(w, holds, HandleOf)
  BY <1>0, RemoveLeafShape, RemoveLeafCounted DEF TreeOK
<1>2. \A v \in holds' : reqs'[v].handle = HandleOf[v] BY DEF HandleOf
<1> HIDE DEF w
<1>3. tree' = w BY DEF w
<1>4. QED BY <1>1, <1>2, <1>3, TreeFrom

LEMMA TreeLocked ==
  ASSUME TreeOK, NEW key \in Seq(Block), NEW k, k = Matched(tree, key),
         tree' = LockHandle(Walk(tree, key), k),
         NEW u \in Uids, u \notin holds, holds' = holds \cup {u}, holds \subseteq Uids,
         reqs'[u].handle = k, \A v \in holds : reqs'[v].handle = reqs[v].handle
  PROVE  TreeOK'
<1> DEFINE w == Walk(tree, key)
<1>1. WellShaped(w, Block) /\ Counted(w, holds, HandleOf) /\ k \in Nodes(w) \cup {<<>>}
  BY WalkShape, ExtendCounted DEF TreeOK
<1> HIDE DEF w
<1>2. HandleOf'[u] = k /\ \A v \in holds : HandleOf'[v] = HandleOf[v] BY DEF HandleOf
<1>3. Counted(LockHandle(w, k), holds \cup {u}, HandleOf') BY <1>1, <1>2, LockCounted
<1>4. WellShaped(LockHandle(w, k), Block) BY <1>1, LockShape
<1>5. QED BY <1>3, <1>4 DEF TreeOK, w

LEMMA UnlockedTree ==
  ASSUME TreeOK, NEW u \in holds, NEW r, r.handle = HandleOf[u], ReqKey(r) \in Seq(Block)
  PROVE  /\ WellShaped(UnlockHandle(Reinserted(r), r.handle), Block)
         /\ Counted(UnlockHandle(Reinserted(r), r.handle), holds \ {u}, HandleOf)
         /\ ReqKey(r) \in Nodes(UnlockHandle(Reinserted(r), r.handle)) \cup {<<>>}
         /\ CacheReqAsserts(r)
BY CacheReqLocks DEF TreeOK

LEMMA TreeReleased ==
  ASSUME TreeOK, NEW u \in holds, NEW r, r.handle = reqs[u].handle, ReqKey(r) \in Seq(Block),
         tree' = CacheReqTree(r, TRUE), holds' = holds \ {u}, holds \subseteq Uids,
         \A v \in holds \ {u} : reqs'[v].handle = reqs[v].handle
  PROVE  TreeOK'
<1> DEFINE t == UnlockHandle(Reinserted(r), r.handle)
<1>1. r.handle = HandleOf[u] BY DEF HandleOf
<1>2. WellShaped(t, Block) /\ Counted(t, holds \ {u}, HandleOf) BY <1>1, UnlockedTree
<1>3. tree' = t BY DEF CacheReqTree
<1> HIDE DEF t
<1>4. \A v \in holds' : reqs'[v].handle = HandleOf[v] BY DEF HandleOf
<1>5. QED BY <1>2, <1>3, <1>4, TreeFrom

LEMMA TreeMoved ==
  ASSUME TreeOK, NEW u \in holds, NEW r, r.handle = reqs[u].handle, ReqKey(r) \in Seq(Block),
         tree' = CacheReqTree(r, FALSE), holds' = holds, holds \subseteq Uids,
         reqs'[u].handle = ReqKey(r), \A v \in holds \ {u} : reqs'[v].handle = reqs[v].handle
  PROVE  TreeOK'
<1> DEFINE t == UnlockHandle(Reinserted(r), r.handle)
           k == ReqKey(r)
<1>1. r.handle = HandleOf[u] BY DEF HandleOf
<1>2. /\ WellShaped(t, Block) /\ Counted(t, holds \ {u}, HandleOf)
      /\ k \in Nodes(t) \cup {<<>>}
  BY <1>1, UnlockedTree
<1>3. tree' = LockHandle(t, k) BY DEF CacheReqTree
<1>4. reqs'[u].handle = k OBVIOUS
<1> HIDE DEF t, k
<1>5. u \notin holds \ {u} /\ (holds \ {u}) \cup {u} = holds' OBVIOUS
<1>6. HandleOf'[u] = k /\ \A v \in holds \ {u} : HandleOf'[v] = HandleOf[v] BY <1>4 DEF HandleOf
<1> DEFINE R == holds \ {u}
<1>10. u \notin R /\ Counted(t, R, HandleOf) BY <1>2
<1>11. \A v \in R : HandleOf'[v] = HandleOf[v] BY <1>6
<1>12. R \cup {u} = holds' BY <1>5
<1> HIDE DEF R
<1>13. Counted(LockHandle(t, k), R \cup {u}, HandleOf')
  BY <1>2, <1>6, <1>10, <1>11, LockCounted
<1>7. Counted(tree', holds', HandleOf') BY <1>3, <1>12, <1>13
<1>8. WellShaped(tree', Block) BY <1>2, <1>3, LockShape
<1>9. QED BY <1>7, <1>8 DEF TreeOK

(* The assert of an unlock holds for a request that holds resources.       *)
LEMMA UnlockOK ==
  ASSUME TreeOK, NEW u \in holds, holds \subseteq Uids,
         NEW r, r.handle = reqs[u].handle, ReqKey(r) \in Seq(Block)
  PROVE  CacheReqAsserts(r)
<1>1. r.handle = HandleOf[u] BY DEF HandleOf
<1>2. QED BY <1>1, UnlockedTree

----------------------------------------------------------------------------
(* What each action does with the rows and the locks.                      *)
LEMMA HeldFacts ==
  ASSUME Going
  PROVE  /\ holds \subseteq Uids /\ \A u \in holds : reqs[u] \in Request
         /\ reqs \in [Uids -> Request \cup {None}]
<1>1. holds \subseteq Uids /\ reqs \in [Uids -> Request \cup {None}] BY DEF Going, Types
<1>2. ASSUME NEW u \in holds PROVE reqs[u] \in Request
  <2>1. reqs[u] # None BY DEF Going, LengthsOK
  <2>2. QED BY <1>1, <2>1
<1>3. QED BY <1>1, <1>2

LEMMA QuietKeeps ==
  ASSUME Going, RowsOK, TreeOK,
         \/ \E u \in Uids : ReceiveUser(u)
         \/ BecomeUrgent \/ StartPrefill \/ SkipPrefill \/ SkipChunk
  PROVE  RowsOK' /\ TreeOK'
<1>1. UNCHANGED <<reqs, freeSlots, holds, tree>>
  BY DEF ReceiveUser, BecomeUrgent, StartPrefill, SkipPrefill, SkipChunk, cacheVars
<1>2. holds \subseteq Uids BY HeldFacts
<1>3. QED BY <1>1, <1>2, RowsKept, TreeKept

(* A request whose abort frees something holds resources, and the host     *)
(* knows all the tokens it has computed.                                   *)
LEMMA AbortedHolds ==
  ASSUME Going, NEW u \in Uids, ReceiveAbort(u), AbortFrees(u)
  PROVE  u \in holds /\ reqs[u] \in Request /\ reqs[u].cached <= Len(reqs[u].ids)
<1>1. /\ pc = "receive" /\ Fresh = {} /\ Taken = 0 /\ ~Begun(u)
  BY Receiving DEF Going, ReceiveAbort
<1>2. CASE u \in running
  <2>1. DecodeLengths(u) BY <1>2 DEF Going, LengthsOK, Prefilled
  <2>2. u \in holds BY <1>2 DEF Going, HoldsOK
  <2>3. reqs[u] \in Request BY <2>2, HeldFacts
  <2>4. ToCome(u) \in {0, 1} BY <1>1 DEF ToCome
  <2>5. reqs[u].cached \in Nat /\ reqs[u].device \in Nat /\ Len(reqs[u].ids) \in Nat
    BY <2>3 DEF Request
  <2>6. reqs[u].device = Len(reqs[u].ids) + ToCome(u) /\ reqs[u].cached = reqs[u].device - 1
    BY <2>1 DEF DecodeLengths
  <2>7. reqs[u].cached <= Len(reqs[u].ids) BY <2>4, <2>5, <2>6
  <2>8. QED BY <2>2, <2>3, <2>7
<1>3. CASE u \notin running
  <2>1. PICK i \in DOMAIN pending : pending[i].uid = u /\ pending[i].chunked
    BY <1>3 DEF AbortFrees, Waiting
  <2>2. i > Taken BY <1>1, <2>1 DEF Going, Types
  <2>3. u \in holds BY <2>1, <2>2 DEF Going, PendingOK, Untaken
  <2>4. ChunkWaits(u) BY <2>1 DEF ChunkWaits, Waiting
  <2>5. ChunkLengths(u) BY <1>1, <2>4 DEF Going, LengthsOK
  <2>6. reqs[u] \in Request BY <2>3, HeldFacts
  <2>7. reqs[u].cached \in Nat /\ reqs[u].cached = Len(reqs[u].ids)
    BY <2>5, <2>6 DEF ChunkLengths, Request
  <2>8. QED BY <2>3, <2>6, <2>7
<1>4. QED BY <1>2, <1>3

LEMMA AbortKeeps ==
  ASSUME Going, RowsOK, TreeOK, NEW u \in Uids, ReceiveAbort(u)
  PROVE  RowsOK' /\ TreeOK'
<1>1. reqs' = reqs BY DEF ReceiveAbort
<1>2. holds \subseteq Uids BY HeldFacts
<1>3. CASE ~AbortFrees(u)
  <2>1. UNCHANGED <<freeSlots, holds, tree>> BY <1>3 DEF ReceiveAbort, cacheVars
  <2>2. QED BY <1>1, <1>2, <2>1, RowsKept, TreeKept
<1>4. CASE AbortFrees(u)
  <2>1. /\ freeSlots' = Append(freeSlots, reqs[u].slot) /\ holds' = holds \ {u}
        /\ tree' = CacheReqTree(reqs[u], TRUE)
    BY <1>4 DEF ReceiveAbort, FreeReqResources, CacheReq
  <2>2. u \in holds /\ reqs[u] \in Request /\ reqs[u].cached <= Len(reqs[u].ids)
    BY <1>4, AbortedHolds
  <2>3. ReqKey(reqs[u]) \in Seq(Block)
    <3>1. reqs[u].ids \in Seq(Token) /\ reqs[u].cached \in Nat BY <2>2 DEF Request
    <3>2. QED BY <2>2, <3>1, FirstTokens DEF ReqKey, Block
  <2>4. RowsOK' BY <1>1, <2>1, <2>2, RowsFreed
  <2>5. TreeOK' BY <1>1, <1>2, <2>1, <2>2, <2>3, TreeReleased
  <2>6. QED BY <2>4, <2>5
<1>5. QED BY <1>3, <1>4

LEMMA AdmitChunkKeeps ==
  ASSUME Going, RowsOK, TreeOK, AdmitChunk
  PROVE  RowsOK' /\ TreeOK'
<1> DEFINE u == Candidate.uid
           r == reqs[u]
<1>1. /\ pc = "admit" /\ More /\ UNCHANGED <<freeSlots, holds, tree>>
      /\ AddOneReq(u, r.handle, r.slot, r.cached)
  BY DEF AdmitChunk, cacheVars
<1>2. u \in Uids BY <1>1, CandidateFacts
<1>3. /\ reqs'[u].slot = r.slot /\ reqs'[u].handle = r.handle
      /\ \A v \in Uids : v # u => reqs'[v] = reqs[v]
  BY <1>1, <1>2, HeldFacts DEF AddOneReq
<1>4. holds \subseteq Uids BY HeldFacts
<1> HIDE DEF u
<1>5. \A v \in holds : reqs'[v].slot = reqs[v].slot /\ reqs'[v].handle = reqs[v].handle
  BY <1>3, <1>4
<1>6. QED BY <1>1, <1>4, <1>5, RowsKept, TreeKept

LEMMA AdmitNewKeeps ==
  ASSUME Going, RowsOK, TreeOK, AdmitNew
  PROVE  RowsOK' /\ TreeOK'
<1> DEFINE u == Candidate.uid
           key == MatchKey(Prompt[u])
           k == TriedHandle
           sl == Last(freeSlots)
<1>1. /\ pc = "admit" /\ More /\ ~Candidate.chunked /\ freeSlots # <<>>
      /\ freeSlots' = Front(freeSlots) /\ holds' = holds \cup {u}
      /\ tree' = LockHandle(Tried, k)
      /\ AddOneReq(u, k, sl, Len(k) * PageSize)
  BY DEF AdmitNew
<1>2. u \in Uids /\ ~TooLong(u) /\ (Candidate.chunked <=> u \in holds)
  BY <1>1, CandidateFacts DEF Pends, Untaken
<1>3. key \in Seq(Block) BY <1>2, TriedFacts
<1>4. k = Matched(tree, key) /\ Tried = Walk(tree, key) BY DEF TriedHandle, Tried
<1>5. /\ reqs'[u].slot = sl /\ reqs'[u].handle = k
      /\ \A v \in Uids : v # u => reqs'[v] = reqs[v]
  BY <1>1, <1>2, HeldFacts DEF AddOneReq
<1>6. u \notin holds /\ holds \subseteq Uids BY <1>1, <1>2, HeldFacts
<1>7. sl = Last(freeSlots) OBVIOUS
<1> HIDE DEF u, key, k, sl
<1>8. \A v \in holds : reqs'[v].slot = reqs[v].slot /\ reqs'[v].handle = reqs[v].handle
  BY <1>5, <1>6
<1>9. RowsOK' BY <1>1, <1>5, <1>6, <1>7, <1>8, RowsTaken
<1>10. tree' = LockHandle(Walk(tree, key), k) BY <1>1, <1>4
<1>11. TreeOK' BY <1>1, <1>2, <1>3, <1>4, <1>5, <1>6, <1>8, <1>10, TreeLocked
<1>12. QED BY <1>9, <1>11

LEMMA StopAdmittingKeeps ==
  ASSUME Going, RowsOK, TreeOK, StopAdmitting
  PROVE  RowsOK' /\ TreeOK'
<1>1. /\ UNCHANGED <<reqs, freeSlots, holds>> /\ pc = "admit"
      /\ tree' = IF Refused THEN Tried ELSE tree
  BY DEF StopAdmitting
<1>2. holds \subseteq Uids BY HeldFacts
<1>3. RowsOK' BY <1>1, RowsKept
<1>4. CASE ~Refused BY <1>1, <1>2, <1>3, <1>4, TreeKept
<1>5. CASE Refused
  <2> DEFINE u == Candidate.uid
             key == MatchKey(Prompt[u])
  <2>1. u \in Uids /\ ~TooLong(u) BY <1>1, <1>5, CandidateFacts DEF Pends, Refused
  <2>2. key \in Seq(Block) BY <2>1, TriedFacts
  <2>3. tree' = Walk(tree, key) BY <1>1, <1>5 DEF Tried
  <2> HIDE DEF key
  <2>4. QED BY <1>1, <1>2, <1>3, <2>2, <2>3, TreeWalked
<1>6. QED BY <1>4, <1>5

LEMMA EvictKeeps ==
  ASSUME Going, RowsOK, TreeOK, EvictForBatch
  PROVE  RowsOK' /\ TreeOK'
<1>1. UNCHANGED <<reqs, freeSlots, holds>> BY DEF EvictForBatch, schedVars
<1>2. PICK n \in OldestLeaves(tree) : tree' = RemoveLeaf(tree, n) BY DEF EvictForBatch, EvictOne
<1>3. n \in FreeLeaves(tree) BY DEF OldestLeaves
<1>4. holds \subseteq Uids BY HeldFacts
<1>5. QED BY <1>1, <1>2, <1>3, <1>4, RowsKept, TreeEvicted

LEMMA ForwardKeeps ==
  ASSUME Going, RowsOK, TreeOK, Forward
  PROVE  RowsOK' /\ TreeOK'
<1>1. /\ UNCHANGED <<freeSlots, holds, tree>>
      /\ reqs' = [v \in Uids |-> IF v \in InBatch(batch) THEN Advanced(reqs[v]) ELSE reqs[v]]
  BY DEF Forward, AllocatePaged
<1>2. holds \subseteq Uids /\ \A v \in holds : reqs[v] \in Request BY HeldFacts
<1>3. ASSUME NEW v \in holds
      PROVE  reqs'[v].slot = reqs[v].slot /\ reqs'[v].handle = reqs[v].handle
  <2>1. /\ v \in Uids /\ Advanced(reqs[v]).slot = reqs[v].slot
        /\ Advanced(reqs[v]).handle = reqs[v].handle
    BY <1>2, AdvancedFacts
  <2>2. QED BY <1>1, <2>1
<1>4. QED BY <1>1, <1>2, <1>3, RowsKept, TreeKept

LEMMA EndKeeps ==
  ASSUME Going, RowsOK, TreeOK, EndIteration
  PROVE  RowsOK' /\ TreeOK'
<1>1. /\ UNCHANGED <<freeSlots, holds, tree>>
      /\ reqs' = [v \in Uids |-> IF v \in holds \cup InBatch(inflight') THEN reqs[v] ELSE None]
  BY DEF EndIteration, cacheVars
<1>2. holds \subseteq Uids BY HeldFacts
<1>3. \A v \in holds : reqs'[v] = reqs[v] BY <1>1, <1>2
<1>4. QED BY <1>1, <1>2, <1>3, RowsKept, TreeKept

(* A result of a request that holds resources.                             *)
LEMMA ProcessKeeps ==
  ASSUME Going, RowsOK, TreeOK, NEW token \in Vocab, ProcessReq(token), pc' = "process"
  PROVE  RowsOK' /\ TreeOK'
<1> DEFINE u == Current.uid
           r == Appended(token)
<1>1. pc = "process" /\ cursor <= Len(Results.reqs) /\ ~Current.chunked BY DEF ProcessReq
<1>2. /\ u \in Uids /\ reqs[u] \in Request /\ reqs[u].cached <= Len(reqs[u].ids) + 1
      /\ Results.phase = "prefill" => u \in holds
  BY <1>1, ResultFacts
<1>3. /\ Longer(reqs[u], r, token) /\ r.handle = reqs[u].handle /\ ReqKey(r) \in Seq(Block)
      /\ [r EXCEPT !.handle = ReqKey(r)].handle = ReqKey(r)
      /\ Longer(reqs[u], [r EXCEPT !.handle = ReqKey(r)], token)
  BY <1>2, AppendedFacts DEF Appended
<1>4. holds \subseteq Uids /\ reqs \in [Uids -> Request \cup {None}] BY HeldFacts
<1> DEFINE s == [r EXCEPT !.handle = ReqKey(r)]
<1>5. /\ r.slot = reqs[u].slot /\ s.slot = reqs[u].slot /\ s.handle = ReqKey(r)
  BY <1>3 DEF Longer
<1>6. CASE FirstFinish(token)
  <2>1. /\ u \in holds /\ freeSlots' = Append(freeSlots, r.slot) /\ holds' = holds \ {u}
        /\ tree' = CacheReqTree(r, TRUE) /\ reqs' = [reqs EXCEPT ![u] = r]
    BY <1>6 DEF ProcessReq, FreeReqResources, CacheReq
  <2> HIDE DEF r, u, s
  <2>2. \A v \in holds \ {u} : reqs'[v] = reqs[v] BY <1>4, <2>1
  <2>3. freeSlots' = Append(freeSlots, reqs[u].slot) BY <1>5, <2>1
  <2>4. RowsOK' BY <2>1, <2>2, <2>3, RowsFreed
  <2>5. TreeOK' BY <1>3, <1>4, <2>1, <2>2, TreeReleased
  <2>6. QED BY <2>4, <2>5
<1>7. CASE ~FirstFinish(token) /\ Results.phase = "prefill"
  <2>1. /\ u \in holds /\ UNCHANGED <<freeSlots, holds>>
        /\ tree' = CacheReqTree(r, FALSE) /\ reqs' = [reqs EXCEPT ![u] = s]
    BY <1>2, <1>7 DEF ProcessReq, CacheReq
  <2> HIDE DEF r, u, s
  <2>2. reqs'[u] = s /\ \A v \in holds \ {u} : reqs'[v] = reqs[v] BY <1>2, <1>4, <2>1
  <2>3. \A v \in holds : reqs'[v].slot = reqs[v].slot BY <1>5, <2>2
  <2>4. RowsOK' BY <2>1, <2>3, RowsKept
  <2>5. reqs'[u].handle = ReqKey(r) BY <1>5, <2>2
  <2>6. TreeOK' BY <1>3, <1>4, <2>1, <2>2, <2>5, TreeMoved
  <2>7. QED BY <2>4, <2>6
<1>8. CASE ~FirstFinish(token) /\ Results.phase # "prefill"
  <2>1. UNCHANGED <<freeSlots, holds, tree>> /\ reqs' = [reqs EXCEPT ![u] = r]
    BY <1>8 DEF ProcessReq, cacheVars
  <2> HIDE DEF r, u, s
  <2>2. reqs'[u] = r /\ \A v \in Uids : v # u => reqs'[v] = reqs[v] BY <1>2, <1>4, <2>1
  <2>3. \A v \in holds : reqs'[v].slot = reqs[v].slot /\ reqs'[v].handle = reqs[v].handle
    BY <1>3, <1>4, <1>5, <2>2
  <2>4. QED BY <1>4, <2>1, <2>3, RowsKept, TreeKept
<1>9. QED BY <1>6, <1>7, <1>8

----------------------------------------------------------------------------
(* The reply to a result: one more, within what the request may have.      *)
Replied(u, token) ==
  /\ u \in Uids /\ Len(replies[u]) \in Nat /\ ToCome(u) \in {1, 2}
  /\ Len(replies'[u]) = Len(replies[u]) + 1
  /\ \A i \in 1..Len(replies[u]) : replies'[u][i] = replies[u][i]
  /\ replies'[u][Len(replies[u]) + 1]
       = [eos |-> token = Eos, finished |-> Finished(token)]
  /\ \A v \in Uids : v # u => replies'[v] = replies[v]
  /\ reqs[u].device = Len(Prompt[u]) + Len(replies[u]) + ToCome(u)
  /\ reqs[u].device <= Len(Prompt[u]) + OutputLen(u)
  /\ reqs[u].maxDevice = Len(Prompt[u]) + OutputLen(u)

LEMMA ReplyFacts ==
  ASSUME Going, NEW token \in Vocab, ProcessReq(token), NEW u, u = Current.uid
  PROVE  Replied(u, token)
<1> DEFINE a == [eos |-> token = Eos, finished |-> Finished(token)]
<1>1. /\ pc = "process" /\ cursor <= Len(Results.reqs) /\ ~Current.chunked
      /\ replies' = [replies EXCEPT ![u] = Append(@, a)]
  BY DEF ProcessReq
<1>2. u \in Uids /\ DecodeLengths(u) /\ ToCome(u) \in {1, 2} BY <1>1, ResultFacts
<1>3. replies \in [Uids -> Seq(Reply)] BY DEF Going, Types
<1>4. a \in Reply
  <2>1. (token = Eos) \in BOOLEAN /\ Finished(token) \in BOOLEAN BY DEF Finished, CanDecode
  <2>2. QED BY <2>1 DEF Reply
<1> HIDE DEF a
<1>5. replies[u] \in Seq(Reply) BY <1>2, <1>3
<1>6. /\ Len(replies[u]) \in Nat /\ Len(Append(replies[u], a)) = Len(replies[u]) + 1
      /\ \A i \in 1..Len(replies[u]) : Append(replies[u], a)[i] = replies[u][i]
      /\ Append(replies[u], a)[Len(replies[u]) + 1] = a
  BY <1>4, <1>5
<1> DEFINE b == Append(replies[u], a)
<1>7. replies' = [replies EXCEPT ![u] = b] BY <1>1
<1> HIDE DEF b
<1>8. replies'[u] = b /\ \A v \in Uids : v # u => replies'[v] = replies[v] BY <1>2, <1>3, <1>7
<1>9. /\ reqs[u].device = Len(Prompt[u]) + Len(replies[u]) + ToCome(u)
      /\ reqs[u].device <= Len(Prompt[u]) + OutputLen(u)
      /\ reqs[u].maxDevice = Len(Prompt[u]) + OutputLen(u)
  BY <1>2 DEF DecodeLengths, FullLength
<1>10. QED BY <1>2, <1>6, <1>8, <1>9 DEF a, b, Replied

LEMMA ExcessStep ==
  ASSUME Going, NoExcess, NEW token \in Vocab, ProcessReq(token),
         NEW u, u = Current.uid
  PROVE  NoExcess'
<1>0. Replied(u, token) BY ReplyFacts
<1> DEFINE p == Len(Prompt[u])
           k == Len(replies[u])
           t == ToCome(u)
           o == OutputLen(u)
           d == reqs[u].device
<1>1. /\ u \in Uids /\ k \in Nat /\ t \in {1, 2} /\ Len(replies'[u]) = k + 1
      /\ \A v \in Uids : v # u => replies'[v] = replies[v]
      /\ d = p + k + t /\ d <= p + o
  BY <1>0 DEF Replied
<1>2. p \in Nat /\ o \in Int BY <1>1, RequestFacts
<1>3. k + 1 <= o
  <2> HIDE DEF p, k, t, o, d
  <2>1. QED BY <1>1, <1>2
<1>4. ~TooLong(u)
  <2>1. MaxSeqLen - p \in Int /\ MaxTokens[u] \in Int
    BY <1>1, <1>2, RequestAssumption, BudgetAssumption
  <2>2. o <= MaxSeqLen - p BY <2>1, MinOfTwo DEF OutputLen
  <2>3. TooLong(u) <=> p >= MaxSeqLen BY DEF TooLong
  <2>4. MaxSeqLen \in Nat BY BudgetAssumption
  <2> HIDE DEF p, k, t, o, d
  <2>5. ~(p >= MaxSeqLen) BY <1>1, <1>2, <1>3, <2>2, <2>4
  <2>6. QED BY <2>3, <2>5
<1>5. Len(replies'[u]) <= OutputLen(u) BY <1>1, <1>3
<1>6. ASSUME NEW v \in Uids PROVE Len(replies'[v]) <= IF TooLong(v) THEN 0 ELSE OutputLen(v)
  <2>1. CASE v = u BY <1>4, <1>5, <2>1
  <2>2. CASE v # u BY <1>1, <2>2 DEF NoExcess
  <2>3. QED BY <2>1, <2>2
<1>7. QED BY <1>6 DEF NoExcess

LEMMA RepliesEndStep ==
  ASSUME Going, ~Overlap, RepliesEnd, NEW token \in Vocab, ProcessReq(token),
         NEW u, u = Current.uid
  PROVE  RepliesEnd'
<1>0. Replied(u, token) BY ReplyFacts
<1> DEFINE p == Len(Prompt[u])
           k == Len(replies[u])
           t == ToCome(u)
           o == OutputLen(u)
           d == reqs[u].device
           m == reqs[u].maxDevice
           a == [eos |-> token = Eos, finished |-> Finished(token)]
<1>1. /\ u \in Uids /\ k \in Nat /\ t \in {1, 2} /\ Len(replies'[u]) = k + 1
      /\ \A i \in 1..k : replies'[u][i] = replies[u][i]
      /\ replies'[u][k + 1] = a
      /\ \A v \in Uids : v # u => replies'[v] = replies[v]
      /\ d = p + k + t /\ d <= p + o /\ m = p + o
  BY <1>0 DEF Replied
<1>2. p \in Nat /\ o \in Int BY <1>1, RequestFacts
<1>3. pc = "process" /\ cursor <= Len(Results.reqs) /\ ~Current.chunked BY DEF ProcessReq
<1>4. u \in holds BY <1>3, ResultFacts
<1>5. \A i \in 1..k : ~replies[u][i].finished BY <1>4 DEF Going, RepliesOK, Ended
<1>6. t = 1
  <2>1. inflight.reqs = <<>> BY DEF Going, Phases, NoBatch
  <2>2. Late = {} BY <2>1 DEF Late, Open, Going, Types
  <2>3. ToCome(u) \in {0, 1} BY <2>2 DEF ToCome
  <2>4. QED BY <1>1, <2>3
<1>7. Finished(token) => token = Eos \/ k + 1 = o
  <2>1. ~CanDecode(reqs[u]) => ~(m - d > 0) BY DEF CanDecode, RemainLen
  <2>2. Finished(token) => token = Eos \/ ~CanDecode(reqs[u]) BY DEF Finished
  <2> HIDE DEF p, k, t, o, d, m
  <2>3. ~(m - d > 0) => k + 1 = o BY <1>1, <1>2, <1>6
  <2>4. QED BY <2>1, <2>2, <2>3
<1>8. a.finished = Finished(token) /\ a.eos = (token = Eos) OBVIOUS
<1>9. o = OutputLen(u) OBVIOUS
<1> HIDE DEF a, k, o
<1>10. ASSUME NEW v \in Uids, NEW i \in 1..Len(replies'[v]), replies'[v][i].finished
       PROVE  i = Len(replies'[v]) /\ (replies'[v][i].eos \/ i = OutputLen(v))
  <2>1. CASE v # u BY <1>1, <1>10, <2>1 DEF RepliesEnd
  <2>2. CASE v = u
    <3>1. i \in 1..k \/ i = k + 1 BY <1>1, <2>2
    <3>2. i = k + 1 BY <1>1, <1>5, <1>10, <2>2, <3>1
    <3>3. QED BY <1>1, <1>7, <1>8, <1>9, <1>10, <2>2, <3>2
  <2>3. QED BY <2>1, <2>2
<1>11. QED BY <1>10 DEF RepliesEnd

(* A fault: the request holds nothing any more, and it is not one whose    *)
(* end finished_reqs remembers.                                            *)
Faulty(token) == \/ ProcessReq(token) /\ pc' = "freed twice"
                 \/ ProcessFails(token)

LEMMA FaultStep ==
  ASSUME Going, TreeOK, NEW token \in Vocab, Faulty(token)
  PROVE  FaultsAreAborts' /\ aborted # {} /\ Overlap
<1> DEFINE u == Current.uid
           r == Appended(token)
<1>1. pc = "process" /\ cursor <= Len(Results.reqs) /\ ~Current.chunked
  BY DEF Faulty, ProcessReq, ProcessFails
<1>2. /\ u \in Uids /\ reqs[u] \in Request /\ reqs[u].cached <= Len(reqs[u].ids) + 1
      /\ Results.phase = "prefill" => u \in holds
      /\ u \notin holds => u \in finishedReqs \cup aborted
      /\ ~Overlap => u \in holds
  BY <1>1, ResultFacts
<1>3. r.handle = reqs[u].handle /\ ReqKey(r) \in Seq(Block)
  BY <1>2, AppendedFacts DEF Appended
<1>4. u \in holds => CacheReqAsserts(r)
  <2>1. holds \subseteq Uids BY HeldFacts
  <2> HIDE DEF u, r
  <2>2. QED BY <1>3, <2>1, UnlockOK
<1>5. /\ FirstFinish(token) /\ u \notin holds
      /\ UNCHANGED <<aborted, batch, inflight>> /\ holds' \subseteq holds
  <2>1. CASE ProcessReq(token) /\ pc' = "freed twice"
    <3>1. FirstFinish(token) /\ u \notin holds /\ holds' = holds \ {u}
      BY <1>1, <2>1 DEF ProcessReq, FreeReqResources
    <3>2. UNCHANGED <<aborted, batch, inflight>> BY <2>1 DEF ProcessReq
    <3>3. QED BY <3>1, <3>2
  <2>2. CASE ProcessFails(token)
    <3>1. /\ FirstFinish(token) \/ Results.phase = "prefill"
          /\ ~CacheReqAsserts(r) /\ UNCHANGED <<aborted, batch, inflight, holds>>
      BY <2>2 DEF ProcessFails, Crash
    <3> HIDE DEF u, r
    <3>2. QED BY <1>2, <1>4, <3>1
  <2>3. QED BY <2>1, <2>2 DEF Faulty
<1>6. u \in aborted /\ Overlap BY <1>2, <1>5 DEF FirstFinish
<1>7. u \in InBatch(Results)
  <2>1. cursor \in 1..Len(Results.reqs)
    <3>1. cursor \in Nat \ {0} /\ Results \in Batch BY DEF Going, Types, Results
    <3> DEFINE s == Results.reqs
    <3>2. s \in Seq(BatchEntry) BY <3>1 DEF Batch
    <3>3. cursor <= Len(s) BY <1>1
    <3> HIDE DEF s
    <3>4. Len(s) \in Nat BY <3>2
    <3>5. cursor \in 1..Len(s) BY <3>1, <3>3, <3>4
    <3>6. QED BY <3>5 DEF s
  <2>2. QED BY <2>1 DEF InBatch, Current
<1>8. Results' = Results BY <1>5 DEF Results
<1>9. u \in InBatch(Results') BY <1>7, <1>8
<1> HIDE DEF u, r
<1>10. u \in aborted' \cap InBatch(Results') /\ u \notin holds' BY <1>5, <1>6, <1>9
<1>11. FaultsAreAborts'
  <2>1. InBatch(Results)' = InBatch(Results') BY DEF InBatch
  <2>2. QED BY <1>10, <2>1 DEF FaultsAreAborts
<1>12. QED BY <1>6, <1>11

----------------------------------------------------------------------------
(* Initially everything is free and nothing is held.                       *)
LEMMA SchedInit == Init => SchedInv
<1> SUFFICES ASSUME Init PROVE SchedInv OBVIOUS
<1> USE DEF Init
<1>1. /\ pc = "receive" /\ arrived = {} /\ aborted = {} /\ pending = <<>> /\ running = {}
      /\ reqs = [u \in Uids |-> None] /\ adder = NoAdder /\ batch = NoBatch
      /\ inflight = NoBatch /\ cursor = 1 /\ finishedReqs = {} /\ newFinished = {}
      /\ replies = [u \in Uids |-> <<>>] /\ holds = {}
  OBVIOUS
<1>2. NumSlots \in Nat /\ Slot = 0..(NumSlots - 1) BY NumSlotsAssumption DEF Slot
<1>3. freeSlots = [i \in 1..NumSlots |-> i - 1] /\ freeSlots \in Seq(Slot)
  <2>1. [i \in 1..NumSlots |-> i - 1] \in [1..NumSlots -> Slot] BY <1>2
  <2>2. QED BY <1>2, <2>1
<1>4. /\ batch.reqs = <<>> /\ batch.phase = "none" /\ inflight.reqs = <<>>
      /\ inflight.phase = "none" /\ Results.reqs = <<>>
  BY <1>1 DEF NoBatch, Results
<1>5. Types
  <2>1. <<>> \in Seq(BatchEntry) /\ <<>> \in Seq(PendingReq) /\ <<>> \in Seq(Reply) OBVIOUS
  <2>2. batch \in Batch /\ inflight \in Batch BY <1>1, <2>1 DEF NoBatch, Batch
  <2>3. adder.budget \in Int /\ adder.chunks \in Seq(PendingReq) BY <1>1, <2>1 DEF NoAdder
  <2>4. IsFiniteSet(arrived) BY <1>1, FS_EmptySet
  <2>5. reqs \in [Uids -> Request \cup {None}] /\ replies \in [Uids -> Seq(Reply)]
    BY <1>1, <2>1
  <2>6. QED BY <1>1, <1>3, <2>1, <2>2, <2>3, <2>4, <2>5 DEF Types
<1>6. Late = {} /\ Fresh = {} /\ InBatch(batch) = {} /\ InBatch(inflight) = {}
  <2>1. \A k \in Nat \ {0} : k..0 = {} OBVIOUS
  <2>2. Len(batch.reqs) = 0 /\ Len(inflight.reqs) = 0 BY <1>4
  <2>3. Late = {} BY <1>1, <2>1, <2>2 DEF Late, Open
  <2>4. Fresh = {} BY <1>1, <2>1, <2>2 DEF Fresh, Open
  <2>5. QED BY <2>1, <2>2, <2>3, <2>4 DEF InBatch
<1>7. Phases
  <2>1. BatchOK(batch) /\ BatchOK(inflight) BY <1>4 DEF BatchOK
  <2>2. Len(Results.reqs) = 0 BY <1>4
  <2>3. cursor \in 1..(Len(Results.reqs) + 1) BY <1>1, <2>2
  <2>4. QED BY <1>1, <2>1, <2>3 DEF Phases
<1>8. DOMAIN pending = {} BY <1>1
<1>9. PendingOK /\ AdmissionOK BY <1>1, <1>8 DEF PendingOK, AdmissionOK
<1>10. \A u : ~ChunkWaits(u) BY <1>8 DEF ChunkWaits, Waiting
<1>11. HoldsOK /\ OpenOK BY <1>1, <1>6 DEF HoldsOK, OpenOK
<1>12. LengthsOK BY <1>1, <1>6, <1>10 DEF LengthsOK, Prefilled, Begun
<1>13. DecodingOK BY <1>1 DEF DecodingOK
<1>14. \A u \in Uids : replies[u] = <<>> /\ Len(replies[u]) = 0 BY <1>1
<1>15. RepliesOK BY <1>1, <1>14 DEF RepliesOK
<1>16. Going
  BY <1>5, <1>7, <1>9, <1>11, <1>12, <1>13, <1>15 DEF Going
<1>17. RowsOK
  <2>1. DOMAIN freeSlots = 1..NumSlots /\ \A i \in 1..NumSlots : freeSlots[i] = i - 1 BY <1>3
  <2>2. \A i, j \in 1..NumSlots : i - 1 = j - 1 => i = j BY <1>2
  <2>3. ASSUME NEW s \in Slot PROVE s \in ToSet(freeSlots)
    <3>1. s + 1 \in 1..NumSlots /\ (s + 1) - 1 = s BY <1>2
    <3>2. QED BY <2>1, <3>1 DEF ToSet
  <2>4. QED BY <1>1, <1>3, <2>1, <2>2, <2>3 DEF RowsOK
<1>18. TreeOK
  <2>1. /\ TreeRecord(tree) /\ Nodes(tree) = {} /\ Covered(tree) = {} /\ DOMAIN tree.span = {}
    BY DEF CacheInit, EmptyTree, TreeRecord, Nodes, Covered
  <2>2. WellShaped(tree, Block) BY <2>1 DEF WellShaped, Tree, Shaped
  <2>3. Counted(tree, holds, HandleOf) BY <1>1, <2>1, FS_EmptySet DEF Counted
  <2>4. QED BY <2>2, <2>3 DEF TreeOK
<1>19. NoExcess
  <2>1. ASSUME NEW u \in Uids PROVE 0 <= IF TooLong(u) THEN 0 ELSE OutputLen(u)
    <3>1. CASE TooLong(u) BY <3>1
    <3>2. CASE ~TooLong(u) BY <3>2, RequestFacts
    <3>3. QED BY <3>1, <3>2
  <2>2. QED BY <1>14, <2>1 DEF NoExcess
<1>20. RepliesEnd BY <1>14 DEF RepliesEnd
<1>21. pc \notin Faults /\ pc \notin Stopped /\ FaultsAreAborts
  BY <1>1 DEF Faults, Stopped, FaultsAreAborts
<1>22. QED BY <1>1, <1>16, <1>17, <1>18, <1>19, <1>20, <1>21 DEF SchedInv

----------------------------------------------------------------------------
(* A step after which the loop goes on, and that sends nothing.            *)
LEMMA GoingOn ==
  ASSUME SchedInv, Going', RowsOK', TreeOK', UNCHANGED replies
  PROVE  SchedInv'
<1>1. pc' \in {"receive", "admit", "allocate", "process"} BY DEF Going, Types
<1>2. pc' \notin Faults BY <1>1 DEF Faults
<1>3. FaultsAreAborts' BY <1>1 DEF FaultsAreAborts
<1>4. NoExcess' BY DEF SchedInv, NoExcess
<1>5. ~Overlap => RepliesEnd' BY DEF SchedInv, RepliesEnd
<1>6. holds' \subseteq Uids BY DEF Going, Types
<1>7. QED BY <1>1, <1>2, <1>3, <1>4, <1>5, <1>6 DEF SchedInv

(* Every step but a result and a crash is one.                             *)
LEMMA QuietStep ==
  ASSUME SchedInv, Going, RowsOK, TreeOK,
         \/ StartPrefill \/ SkipPrefill \/ AdmitChunk \/ AdmitNew \/ StopAdmitting
         \/ EvictForBatch \/ Forward \/ SkipChunk \/ EndIteration
         \/ \E u \in Uids : ReceiveUser(u) \/ ReceiveAbort(u)
         \/ BecomeUrgent
  PROVE  SchedInv'
<1>1. CASE StartPrefill
  <2>1. UNCHANGED replies BY <1>1 DEF StartPrefill
  <2>2. Going' BY <1>1, StartPrefillGoing
  <2>3. RowsOK' /\ TreeOK' BY <1>1, QuietKeeps
  <2>4. QED BY <2>1, <2>2, <2>3, GoingOn
<1>2. CASE SkipPrefill
  <2>1. UNCHANGED replies BY <1>2 DEF SkipPrefill
  <2>2. Going' BY <1>2, SkipPrefillGoing
  <2>3. RowsOK' /\ TreeOK' BY <1>2, QuietKeeps
  <2>4. QED BY <2>1, <2>2, <2>3, GoingOn
<1>3. CASE AdmitChunk
  <2>1. UNCHANGED replies BY <1>3 DEF AdmitChunk
  <2>2. Going' BY <1>3, AdmitChunkGoing
  <2>3. RowsOK' /\ TreeOK' BY <1>3, AdmitChunkKeeps
  <2>4. QED BY <2>1, <2>2, <2>3, GoingOn
<1>4. CASE AdmitNew
  <2>1. UNCHANGED replies BY <1>4 DEF AdmitNew
  <2>2. Going' BY <1>4, AdmitNewGoing
  <2>3. RowsOK' /\ TreeOK' BY <1>4, AdmitNewKeeps
  <2>4. QED BY <2>1, <2>2, <2>3, GoingOn
<1>5. CASE StopAdmitting
  <2>1. UNCHANGED replies BY <1>5 DEF StopAdmitting
  <2>2. Going' BY <1>5, StopAdmittingGoing
  <2>3. RowsOK' /\ TreeOK' BY <1>5, StopAdmittingKeeps
  <2>4. QED BY <2>1, <2>2, <2>3, GoingOn
<1>6. CASE EvictForBatch
  <2>1. UNCHANGED schedVars /\ UNCHANGED replies BY <1>6 DEF EvictForBatch, schedVars
  <2>2. Going' BY <2>1, SameGoing
  <2>3. RowsOK' /\ TreeOK' BY <1>6, EvictKeeps
  <2>4. QED BY <2>1, <2>2, <2>3, GoingOn
<1>7. CASE Forward
  <2>1. UNCHANGED replies BY <1>7 DEF Forward
  <2>2. Going' BY <1>7, ForwardGoing
  <2>3. RowsOK' /\ TreeOK' BY <1>7, ForwardKeeps
  <2>4. QED BY <2>1, <2>2, <2>3, GoingOn
<1>8. CASE SkipChunk
  <2>1. UNCHANGED replies BY <1>8 DEF SkipChunk
  <2>2. Going' BY <1>8, SkipChunkGoing
  <2>3. RowsOK' /\ TreeOK' BY <1>8, QuietKeeps
  <2>4. QED BY <2>1, <2>2, <2>3, GoingOn
<1>9. CASE EndIteration
  <2>1. UNCHANGED replies BY <1>9 DEF EndIteration
  <2>2. Going' BY <1>9, EndIterationGoing
  <2>3. RowsOK' /\ TreeOK' BY <1>9, EndKeeps
  <2>4. QED BY <2>1, <2>2, <2>3, GoingOn
<1>10. ASSUME NEW u \in Uids, ReceiveUser(u) PROVE SchedInv'
  <2>1. UNCHANGED replies BY <1>10 DEF ReceiveUser
  <2>2. Going' BY <1>10, ReceiveUserGoing
  <2>3. RowsOK' /\ TreeOK' BY <1>10, QuietKeeps
  <2>4. QED BY <2>1, <2>2, <2>3, GoingOn
<1>11. ASSUME NEW u \in Uids, ReceiveAbort(u) PROVE SchedInv'
  <2>1. UNCHANGED replies BY <1>11 DEF ReceiveAbort
  <2>2. Going' BY <1>11, ReceiveAbortGoing
  <2>3. RowsOK' /\ TreeOK' BY <1>11, AbortKeeps
  <2>4. QED BY <2>1, <2>2, <2>3, GoingOn
<1>12. CASE BecomeUrgent
  <2>1. UNCHANGED replies BY <1>12 DEF BecomeUrgent
  <2>2. Going' BY <1>12, BecomeUrgentGoing
  <2>3. RowsOK' /\ TreeOK' BY <1>12, QuietKeeps
  <2>4. QED BY <2>1, <2>2, <2>3, GoingOn
<1>13. QED BY <1>1, <1>2, <1>3, <1>4, <1>5, <1>6, <1>7, <1>8, <1>9, <1>10, <1>11, <1>12

(* The process stops: freed twice, or at an assert.                        *)
LEMMA FreedTwiceStep ==
  ASSUME pc' = "freed twice", NoExcess', FaultsAreAborts', Overlap, CanAbort # {}
  PROVE  SchedInv'
BY DEF SchedInv, Stopped

LEMMA CrashStep ==
  ASSUME SchedInv, RowsOK, TreeOK, holds \subseteq Uids, NEW w, Crash(w),
         \/ w = "out of pages"
         \/ w = "unlock failed" /\ FaultsAreAborts' /\ Overlap /\ CanAbort # {}
  PROVE  SchedInv'
<1>1. /\ pc' = w /\ UNCHANGED <<aborted, reqs, freeSlots, batch, inflight, replies, holds, cacheVars>>
  BY DEF Crash
<1>2. RowsOK' BY <1>1 DEF RowsOK
<1>3. TreeOK' BY <1>1 DEF TreeOK, HandleOf, cacheVars
<1>4. NoExcess' BY <1>1 DEF SchedInv, NoExcess
<1>5. ~Overlap => RepliesEnd' BY <1>1 DEF SchedInv, RepliesEnd
<1>6. pc' \in Stopped BY <1>1 DEF Stopped
<1>7. FaultsAreAborts' BY <1>1 DEF FaultsAreAborts
<1>8. ~Overlap \/ CanAbort = {} => pc' \notin Faults BY <1>1 DEF Faults
<1>9. holds' \subseteq Uids BY <1>1
<1>10. QED BY <1>2, <1>3, <1>4, <1>5, <1>6, <1>7, <1>8, <1>9 DEF SchedInv

LEMMA ResultStep ==
  ASSUME SchedInv, Going, RowsOK, TreeOK, NEW token \in Vocab, ProcessReq(token),
         NEW u, u = Current.uid
  PROVE  SchedInv'
<1>1. pc' = "process" \/ Faulty(token) BY DEF ProcessReq, Faulty
<1>2. NoExcess' BY ExcessStep DEF SchedInv
<1>3. CASE pc' = "process"
  <2>1. Going' BY <1>3, ProcessReqGoing
  <2>2. RowsOK' /\ TreeOK' BY <1>3, ProcessKeeps
  <2>3. ~Overlap => RepliesEnd'
    <3>1. ~Overlap => RepliesEnd BY DEF SchedInv
    <3>2. QED BY <3>1, RepliesEndStep
  <2>4. pc' \notin Faults /\ pc' \notin Stopped BY <1>3 DEF Faults, Stopped
  <2>5. FaultsAreAborts' BY <1>3 DEF FaultsAreAborts
  <2>6. holds' \subseteq Uids BY <2>1 DEF Going, Types
  <2>7. QED BY <1>2, <1>3, <2>1, <2>2, <2>3, <2>4, <2>5, <2>6 DEF SchedInv
<1>4. CASE pc' # "process"
  <2>1. FaultsAreAborts' /\ aborted # {} /\ Overlap BY <1>1, <1>4, FaultStep
  <2>2. CanAbort # {} BY <2>1 DEF Going, Types
  <2>3. pc' = "freed twice"
    <3>1. pc = "process" BY DEF ProcessReq
    <3>2. QED BY <1>4, <3>1 DEF ProcessReq
  <2>4. QED BY <1>2, <2>1, <2>2, <2>3, FreedTwiceStep
<1>5. QED BY <1>3, <1>4

(* A process that has stopped takes no step.                               *)
LEMMA StepsAreGoing ==
  ASSUME SchedInv, Next
  PROVE  Going /\ RowsOK /\ TreeOK /\ holds \subseteq Uids
<1>1. pc \in {"receive", "admit", "allocate", "process"}
  BY DEF Next, Loop, Environment, StartPrefill, SkipPrefill, AdmitChunk, AdmitNew,
         StopAdmitting, EvictForBatch, EvictFails, Forward, SkipChunk, EndIteration,
         ProcessReq, ProcessFails, ReceiveUser, ReceiveAbort, BecomeUrgent
<1>2. QED BY <1>1 DEF SchedInv, Stopped

LEMMA SchedStep == SchedInv /\ [Next]_vars => SchedInv'
<1> SUFFICES ASSUME SchedInv, [Next]_vars PROVE SchedInv' OBVIOUS
<1>1. CASE UNCHANGED vars
  <2>1. UNCHANGED schedVars /\ UNCHANGED cacheVars BY <1>1 DEF vars
  <2>2. UNCHANGED <<pc, aborted, reqs, freeSlots, batch, inflight, replies, holds, tree>>
    BY <2>1 DEF schedVars, cacheVars
  <2>3. Going => Going' BY <2>1, SameGoing
  <2>4. (RowsOK => RowsOK') /\ (TreeOK => TreeOK') BY <2>2 DEF RowsOK, TreeOK, HandleOf
  <2>5. (NoExcess => NoExcess') /\ (RepliesEnd => RepliesEnd')
    BY <2>2 DEF NoExcess, RepliesEnd
  <2>6. FaultsAreAborts => FaultsAreAborts'
    BY <2>2 DEF FaultsAreAborts, InBatch, Results
  <2>7. QED BY <2>2, <2>3, <2>4, <2>5, <2>6 DEF SchedInv
<1>2. CASE Next
  <2>2. Going /\ RowsOK /\ TreeOK /\ holds \subseteq Uids BY <1>2, StepsAreGoing
  <2>3. CASE EvictFails
    <3>1. Crash("out of pages") BY <2>3 DEF EvictFails
    <3>2. QED BY <2>2, <3>1, CrashStep
  <2>4. ASSUME NEW token \in Vocab, ProcessFails(token) PROVE SchedInv'
    <3>1. Crash("unlock failed") BY <2>4 DEF ProcessFails
    <3>2. Faulty(token) BY <2>4 DEF Faulty
    <3>3. FaultsAreAborts' /\ aborted # {} /\ Overlap BY <2>2, <3>2, FaultStep
    <3>4. CanAbort # {} BY <2>2, <3>3 DEF Going, Types
    <3>5. QED BY <2>2, <3>1, <3>3, <3>4, CrashStep
  <2>5. ASSUME NEW token \in Vocab, ProcessReq(token) PROVE SchedInv'
    BY <2>2, <2>5, ResultStep
  <2>6. CASE \/ StartPrefill \/ SkipPrefill \/ AdmitChunk \/ AdmitNew \/ StopAdmitting
             \/ EvictForBatch \/ Forward \/ SkipChunk \/ EndIteration
             \/ \E u \in Uids : ReceiveUser(u) \/ ReceiveAbort(u)
             \/ BecomeUrgent
    BY <2>2, <2>6, QuietStep
  <2>7. QED BY <1>2, <2>3, <2>4, <2>5, <2>6 DEF Next, Loop, Environment
<1>3. QED BY <1>1, <1>2

THEOREM SchedulerInvariant == Spec => []SchedInv
BY SchedInit, SchedStep, PTL DEF Spec

----------------------------------------------------------------------------
(* A sequence without repetitions has as many elements as places, and as   *)
(* many requests as rows hold them.                                        *)
LEMMA DistinctElements ==
  ASSUME NEW S, NEW s \in Seq(S), \A i, j \in DOMAIN s : s[i] = s[j] => i = j
  PROVE  IsFiniteSet(ToSet(s)) /\ Cardinality(ToSet(s)) = Len(s)
<1>1. Len(s) \in Nat /\ DOMAIN s = 1..Len(s) /\ s \in [1..Len(s) -> ToSet(s)] BY DEF ToSet
<1>2. IsFiniteSet(1..Len(s)) /\ Cardinality(1..Len(s)) = Len(s) BY <1>1, FS_Interval
<1>3. s \in Bijection(1..Len(s), ToSet(s))
  BY <1>1 DEF Bijection, Injection, Surjection, IsInjective, ToSet
<1>4. QED BY <1>2, <1>3, FS_Bijection DEF ExistsBijection

LEMMA RowsPartition ==
  ASSUME RowsOK
  PROVE  SlotsPartition
<1> DEFINE H == {reqs[u].slot : u \in holds}
           F == ToSet(freeSlots)
           g == [u \in holds |-> reqs[u].slot]
<1>1. NumSlots \in Nat \ {0} /\ Slot = 0..(NumSlots - 1) BY NumSlotsAssumption DEF Slot
<1>2. IsFiniteSet(Slot) /\ Cardinality(Slot) = NumSlots
  <2>1. 0 \in Int /\ NumSlots - 1 \in Int /\ ~(0 > NumSlots - 1) /\ NumSlots - 1 - 0 + 1 = NumSlots
    BY <1>1
  <2>2. QED BY <1>1, <2>1, FS_Interval
<1>3. IsFiniteSet(F) /\ Cardinality(F) = Len(freeSlots) BY DistinctElements DEF RowsOK
<1>4. F \cap H = {} BY DEF RowsOK
<1>5. F \cup H = Slot BY DEF RowsOK, ToSet
<1>6. IsFiniteSet(H) BY <1>2, <1>5, FS_Subset
<1>7. g \in Bijection(holds, H) BY DEF RowsOK, Bijection, Injection, Surjection, IsInjective
<1>8. IsFiniteSet(holds)
  <2>1. g \in Injection(holds, H) BY <1>7 DEF Bijection
  <2>2. QED BY <1>6, <2>1, FS_Injection
<1>9. Cardinality(H) = Cardinality(holds) BY <1>7, <1>8, FS_Bijection DEF ExistsBijection
<1>10. Cardinality(F \cup H) = Cardinality(F) + Cardinality(H) - Cardinality(F \cap H)
  BY <1>3, <1>6, FS_Union
<1>11. Cardinality(F \cap H) = 0 BY <1>4, FS_EmptySet
<1>12. Cardinality(F) \in Nat /\ Cardinality(H) \in Nat BY <1>3, <1>6, FS_CardinalityType
<1>13. Len(freeSlots) + Cardinality(holds) = NumSlots
  <2> HIDE DEF H, F, g
  <2>1. NumSlots = Cardinality(F \cup H) BY <1>2, <1>5
  <2>2. NumSlots = Cardinality(F) + Cardinality(H) BY <1>10, <1>11, <1>12, <2>1
  <2>3. QED BY <1>3, <1>9, <2>2
<1>14. QED BY <1>5, <1>13 DEF SlotsPartition

(* Until a request is freed twice, every row of the page table is free     *)
(* once or held by one request (table_manager.allocate and free).          *)
THEOREM SlotsPartitionHolds == Spec => [](pc # "freed twice" => SlotsPartition)
<1>1. SchedInv => (pc # "freed twice" => SlotsPartition) BY RowsPartition DEF SchedInv
<1>2. QED BY SchedulerInvariant, <1>1, PTL

(* Without overlap, or with no aborts, the scheduler never stops at the    *)
(* assert of an unlock and never frees twice, and every row of the page    *)
(* table is free once or held by one request, always.                      *)
THEOREM NoFaults ==
  ASSUME ~Overlap \/ CanAbort = {}
  PROVE  Spec => [](pc \notin {"unlock failed", "freed twice"} /\ SlotsPartition)
<1>1. SchedInv => pc \notin {"unlock failed", "freed twice"} /\ SlotsPartition
  BY RowsPartition DEF SchedInv, Faults
<1>2. QED BY SchedulerInvariant, <1>1, PTL

(* ref_count is the number of requests that hold a prefix through the      *)
(* node, and no prefix that is held has left the tree, through admission,  *)
(* chunks, results, evictions and aborts (lock_handle, cache_req).         *)
THEOREM LocksExactHolds == Spec => [](pc # "freed twice" => LocksExact)
<1>1. ASSUME TreeOK, holds \subseteq Uids PROVE LocksExact
  <2>1. \A u \in holds : HandleOf[u] = reqs[u].handle BY <1>1 DEF HandleOf
  <2>2. \A n \in Nodes(tree) :
          Through(n, holds, HandleOf) = {u \in holds : IsPrefix(n, reqs[u].handle)}
    BY <2>1 DEF Through
  <2>3. QED BY <1>1, <2>1, <2>2 DEF TreeOK, Counted, LocksExact
<1>2. SchedInv => (pc # "freed twice" => LocksExact) BY <1>1 DEF SchedInv
<1>3. QED BY SchedulerInvariant, <1>2, PTL

(* The overlapped loop frees a request twice, or fails the assert of an    *)
(* unlock, only while the results that it processes are of a request whose *)
(* abort was received and that holds nothing (_process_last_data).         *)
THEOREM FaultsAreAbortsHolds == Spec => []FaultsAreAborts
<1>1. SchedInv => FaultsAreAborts BY DEF SchedInv
<1>2. QED BY SchedulerInvariant, <1>1, PTL

(* No request gets more replies than it may have tokens, in either loop    *)
(* and whatever is aborted (complete_one, can_decode, max_tokens); with    *)
(* overlap and aborts, until a request is freed twice.                     *)
THEOREM NoExcessHolds == Spec => []NoExcess
<1>1. SchedInv => NoExcess BY DEF SchedInv
<1>2. QED BY SchedulerInvariant, <1>1, PTL

(* In normal_loop nothing follows the finished reply of a request, and it  *)
(* comes at EOS or with exactly its last token (_process_last_data).       *)
THEOREM RepliesEndHolds == ASSUME ~Overlap PROVE Spec => []RepliesEnd
<1>1. SchedInv => RepliesEnd BY DEF SchedInv
<1>2. QED BY SchedulerInvariant, <1>1, PTL

(* finished_reqs remembers one batch, and that is enough: without aborts a *)
(* request that was freed is never in a batch still to be processed        *)
(* without being remembered (_process_last_data of overlap_loop).          *)
THEOREM FinishedRememberedHolds ==
  ASSUME CanAbort = {}
  PROVE  Spec => []FinishedRemembered
<1>1. ASSUME SchedInv PROVE FinishedRemembered
  <2> SUFFICES ASSUME pc = "receive", NEW i \in 1..Len(inflight.reqs),
                      ~inflight.reqs[i].chunked, inflight.reqs[i].uid \notin holds
               PROVE  inflight.reqs[i].uid \in finishedReqs
    BY DEF FinishedRemembered
  <2>1. Going BY <1>1 DEF SchedInv, Stopped
  <2>2. cursor = 1 /\ aborted = {} BY <2>1 DEF Going, Phases, Types
  <2> DEFINE s == inflight.reqs
             v == s[i].uid
  <2>3. s \in Seq(BatchEntry) BY <2>1 DEF Going, Types, Batch
  <2>4. i \in 1..Len(s) /\ ~s[i].chunked OBVIOUS
  <2>5. Late = Open(inflight, 1) BY <2>2 DEF Late
  <2>6. v \in Uids
    <3> HIDE DEF s
    <3>1. s[i] \in BatchEntry BY <2>3, <2>4
    <3>2. QED BY <3>1 DEF BatchEntry
  <2>7. v \in Late BY <2>4, <2>5, <2>6 DEF Open
  <2> HIDE DEF v
  <2>8. v \in holds \cup finishedReqs \cup aborted BY <2>1, <2>7 DEF Going, OpenOK
  <2>9. v \in finishedReqs BY <2>2, <2>8 DEF v
  <2>10. QED BY <2>9 DEF v
<1>2. SchedInv => FinishedRemembered BY <1>1
<1>3. QED BY SchedulerInvariant, <1>2, PTL

(* In normal_loop an abort takes effect at once and for good: the request  *)
(* holds nothing from then on and gets no reply any more (abort_req).      *)
LEMMA RepliesOfStep ==
  ASSUME ~Overlap, SchedInv, Next, NEW u \in aborted
  PROVE  replies'[u] = replies[u]
<1>1. Going BY StepsAreGoing
<1>2. aborted \cap holds = {} BY <1>1 DEF Going, HoldsOK
<1>3. ASSUME NEW token \in Vocab, ProcessReq(token) PROVE replies'[u] = replies[u]
  <2> DEFINE v == Current.uid
             a == Append(replies[v], [eos |-> token = Eos, finished |-> Finished(token)])
  <2>1. pc = "process" /\ cursor <= Len(Results.reqs) /\ ~Current.chunked
        /\ replies' = [replies EXCEPT ![v] = a]
    BY <1>3 DEF ProcessReq
  <2>2. v \in holds BY <1>1, <2>1, ResultFacts
  <2>3. u # v BY <1>2, <2>2
  <2>4. replies \in [Uids -> Seq(Reply)] /\ u \in Uids BY <1>1 DEF Going, Types
  <2> HIDE DEF v, a
  <2>5. QED BY <2>1, <2>3, <2>4
<1>4. (\A token \in Vocab : ~ProcessReq(token)) => UNCHANGED replies
  BY DEF Next, Loop, Environment, StartPrefill, SkipPrefill, AdmitChunk, AdmitNew,
         StopAdmitting, EvictForBatch, EvictFails, Forward, SkipChunk, EndIteration,
         ProcessFails, ReceiveUser, ReceiveAbort, BecomeUrgent, schedVars, Crash
<1>5. QED BY <1>3, <1>4

LEMMA HoldsAfterStep ==
  ASSUME ~Overlap, SchedInv, SchedInv', Next
  PROVE  \A u \in aborted' : u \notin holds'
<1>1. CASE pc' \notin Stopped
  <2>1. Going' BY <1>1 DEF SchedInv
  <2>2. aborted' \cap holds' = {} BY <2>1 DEF Going, HoldsOK
  <2>3. QED BY <2>2
<1>2. CASE pc' \in Stopped
  <2>1. pc' = "out of pages" BY <1>2 DEF SchedInv, Stopped, Faults
  <2>2. Going BY StepsAreGoing
  <2>3. pc \in {"receive", "admit", "allocate", "process"} BY <2>2 DEF Going, Types
  <2>4. EvictFails
    BY <2>1, <2>3 DEF Next, Loop, Environment, StartPrefill, SkipPrefill, AdmitChunk, AdmitNew,
         StopAdmitting, ScheduleDecode, EvictForBatch, Forward, SkipChunk, EndIteration,
         ProcessReq, ProcessFails, ReceiveUser, ReceiveAbort, BecomeUrgent, schedVars, Crash
  <2>5. UNCHANGED <<aborted, holds>> BY <2>4 DEF EvictFails, Crash
  <2>6. aborted \cap holds = {} BY <2>2 DEF Going, HoldsOK
  <2>7. QED BY <2>5, <2>6
<1>3. QED BY <1>1, <1>2

THEOREM AbortEndsHolds == ASSUME ~Overlap PROVE Spec => AbortEnds
<1>1. SchedInv /\ SchedInv' /\ [Next]_vars =>
        [/\ \A u \in aborted' : u \notin holds'
         /\ \A u \in aborted : replies'[u] = replies[u]]_vars
  BY RepliesOfStep, HoldsAfterStep
<1>2. QED BY SchedulerInvariant, <1>1, PTL DEF Spec, AbortEnds
----------------------------------------------------------------------------
(* The pages. Store is the abstract prefix store of Scheduler with its     *)
(* invariant; the pages' own invariant says what the rows hold.            *)

Store == INSTANCE PrefixStoreProofs WITH
  Clients <- Uids,
  Pages   <- Page,
  Nobody  <- None,
  store   <- tree.page,
  free    <- ToSet(freePages),
  held    <- [u \in Uids |-> IF u \in holds THEN reqs[u].handle ELSE None],
  owned   <- [u \in Uids |-> IF u \in holds THEN ToSet(Private(u)) ELSE {}]

(* What the requests hold and own, as the store sees it.                   *)
HeldNow == [u \in Uids |-> IF u \in holds THEN reqs[u].handle ELSE None]
OwnedNow == [u \in Uids |-> IF u \in holds THEN ToSet(Private(u)) ELSE {}]

(* A request holds the pages of a beginning of what it knows, no more than *)
(* it has computed; until its prompt is known that is a part of the        *)
(* prompt.                                                                 *)
KeyOK(u, r) ==
  /\ IsPrefix(r.handle, Key(r.ids)) /\ Len(r.handle) * PageSize <= r.cached
  /\ Len(r.ids) <= Len(Prompt[u]) => r.ids = SubSeq(Prompt[u], 1, Len(r.ids))

(* The rows of the requests that hold resources, the lists and the table.  *)
PagesRows ==
  /\ freePages \in Seq(Page) /\ IsInjective(freePages)
  /\ tree.page \in [Covered(tree) -> Page]
  /\ pageTable \in [Slot -> Seq(Page)]
  /\ holds \subseteq Uids
  /\ \A u \in holds : reqs[u] \in Request /\ RowOK(pageTable, reqs[u]) /\ KeyOK(u, reqs[u])

(* The inductive invariant of the pages.                                   *)
PagesInv == PagesRows /\ Store!StoreInv

(* What a request owns is the part of its row that is its own.             *)
OwnedOK ==
  /\ \A u \in holds : /\ ToSet(Private(u)) = Owned(pageTable, reqs[u])
                      /\ IsInjective(Private(u)) /\ OwnedNow[u] = Owned(pageTable, reqs[u])
                      /\ HeldNow[u] = reqs[u].handle
  /\ \A u \in Uids \ holds : OwnedNow[u] = {} /\ HeldNow[u] = None

(* The private part of a request is what its row holds for it.             *)
LEMMA OwnedOfRow == PagesRows => OwnedOK
<1> SUFFICES ASSUME PagesRows PROVE OwnedOK OBVIOUS
<1>1. ASSUME NEW u \in holds
      PROVE  ToSet(Private(u)) = Owned(pageTable, reqs[u]) /\ IsInjective(Private(u))
  <2>1. reqs[u] \in Request /\ RowOK(pageTable, reqs[u]) BY DEF PagesRows
  <2>2. Len(reqs[u].handle) \in Nat /\ pageTable[reqs[u].slot] \in Seq(Page)
    BY <2>1 DEF Request, PagesRows
  <2>3. ListOf(Private(u), Page, Owned(pageTable, reqs[u])) BY <2>1, <2>2, OwnedList DEF Private
  <2>4. QED BY <2>3 DEF ListOf
<1>2. holds \subseteq Uids BY DEF PagesRows
<1>3. \A u \in holds : OwnedNow[u] = ToSet(Private(u)) /\ HeldNow[u] = reqs[u].handle
  BY <1>2 DEF OwnedNow, HeldNow
<1>4. \A u \in Uids \ holds : OwnedNow[u] = {} /\ HeldNow[u] = None BY DEF OwnedNow, HeldNow
<1>5. QED BY <1>1, <1>3, <1>4 DEF OwnedOK

(* The same in the next state.                                             *)
LEMMA OwnedOfRowNext == PagesRows' => OwnedOK'
BY OwnedOfRow, PTL

(* What OnePlace says of the scheduler's state.                            *)
LEMMA PlacesApart ==
  ASSUME PagesInv
  PROVE  /\ \A u \in holds : Owned(pageTable, reqs[u]) \cap ToSet(freePages) = {}
         /\ \A u \in Uids : OwnedNow[u] \cap ToSet(freePages) = {}
         /\ \A q \in Covered(tree) : tree.page[q] \notin ToSet(freePages)
         /\ IsInjective(tree.page)
<1>1. Store!OnePlace BY DEF Store!StoreInv, PagesInv
<1>2. /\ \A k, l \in Covered(tree) : tree.page[k] = tree.page[l] => k = l
      /\ \A k \in Covered(tree) : tree.page[k] \notin ToSet(freePages)
      /\ \A u \in Uids : \A p \in OwnedNow[u] : p \notin ToSet(freePages)
  BY <1>1 DEF Store!OnePlace, Store!Keys, OwnedNow, Covered
<1>3. \A u \in holds : Owned(pageTable, reqs[u]) = OwnedNow[u] /\ u \in Uids
  BY OwnedOfRow DEF PagesInv, PagesRows, OwnedOK
<1>4. QED BY <1>2, <1>3 DEF IsInjective, Covered

(* Store and Abstract are two instances of one module: their actions are   *)
(* the same.                                                               *)
LEMMA SameBegin == ASSUME NEW u \in Uids, NEW k, Abstract!Begin(u, k) PROVE Store!Begin(u, k)
BY Zenon DEF Abstract!Begin, Store!Begin, Abstract!Above, Store!Above, Abstract!Keys, Store!Keys,
  Abstract!Active, Store!Active, Abstract!Prefixes, Store!Prefixes

LEMMA SameTake == Abstract!Take => Store!Take
BY Zenon DEF Abstract!Take, Store!Take, Abstract!Active, Store!Active

LEMMA SameSettle == ASSUME NEW u \in Uids, NEW k, Abstract!Settle(u, k) PROVE Store!Settle(u, k)
BY Zenon DEF Abstract!Settle, Store!Settle, Abstract!Above, Store!Above, Abstract!Keys, Store!Keys,
  Abstract!Kept, Store!Kept, Abstract!Active, Store!Active, Abstract!Prefixes, Store!Prefixes,
  Abstract!IsPrefix, Store!IsPrefix

LEMMA SameDrop == Abstract!Drop => Store!Drop
BY Zenon DEF Abstract!Drop, Store!Drop, Abstract!Above, Store!Above, Abstract!Keys, Store!Keys,
  Abstract!Kept, Store!Kept, Abstract!Active, Store!Active, Abstract!Prefixes, Store!Prefixes

(* The keys of a cached key are cached.                                    *)
LEMMA AboveIsKeys ==
  ASSUME NEW k
  PROVE  Abstract!Above(k) = KeysOf(k)
BY DEF Abstract!Above, KeysOf, Abstract!Prefixes, Prefixes

(* The clients of the store are the requests that hold resources.          *)
LEMMA ActiveHolds ==
  ASSUME PagesRows
  PROVE  Abstract!Active = holds
<1>1. ASSUME NEW u \in holds PROVE reqs[u].handle # None
  <2>1. reqs[u].handle \in Seq(Block) BY DEF PagesRows, Request
  <2>2. QED BY <2>1, NoneAssumption
<1>2. OwnedOK BY OwnedOfRow
<1>3. Abstract!Active = {u \in Uids : HeldNow[u] # None} BY DEF Abstract!Active, HeldNow
<1>4. holds \subseteq Uids BY DEF PagesRows
<1>5. QED BY <1>1, <1>2, <1>3, <1>4 DEF OwnedOK

(* Initially every page is free and nothing is held.                       *)
LEMMA PagesInit == Init => PagesInv /\ Abstract!Init
<1> SUFFICES ASSUME Init PROVE PagesInv /\ Abstract!Init OBVIOUS
<1>1. /\ holds = {} /\ freePages = [i \in 1..NumPages |-> i - 1] /\ tree.page = <<>>
      /\ pageTable = [s \in Slot |-> <<>>]
  BY DEF Init, CacheInit, EmptyTree
<1>2. \A i \in 1..NumPages : i - 1 \in Page BY NumPagesAssumption DEF Page
<1>3. freePages \in Seq(Page) /\ DOMAIN freePages = 1..NumPages BY <1>1, <1>2, NumPagesAssumption
<1>4. IsInjective(freePages) BY <1>1, NumPagesAssumption DEF IsInjective
<1>5. ToSet(freePages) = Page
  <2>1. \A p \in Page : p + 1 \in 1..NumPages /\ (p + 1) - 1 = p BY NumPagesAssumption DEF Page
  <2>2. QED BY <1>1, <1>2, <1>3, <2>1 DEF ToSet
<1>6. PagesRows
  <2>1. Covered(tree) = {} BY <1>1 DEF Covered
  <2>2. tree.page \in [Covered(tree) -> Page] BY <1>1, <2>1
  <2>3. pageTable \in [Slot -> Seq(Page)] BY <1>1
  <2>4. QED BY <1>1, <1>3, <1>4, <2>2, <2>3 DEF PagesRows
<1>7. HeldNow = [u \in Uids |-> None] /\ OwnedNow = [u \in Uids |-> {}]
  BY <1>1 DEF HeldNow, OwnedNow
<1>8. Abstract!Init BY <1>1, <1>5, <1>7 DEF Abstract!Init, HeldNow, OwnedNow
<1>9. Store!Init BY <1>1, <1>5, <1>7 DEF Store!Init, HeldNow, OwnedNow
<1>10. QED BY <1>6, <1>8, <1>9, Store!StoreInit DEF PagesInv

----------------------------------------------------------------------------
(* Each step keeps the invariant and is a step of the prefix store, or     *)
(* changes nothing the store sees.                                         *)

(* A request that can be cached: what it holds is a beginning of the key   *)
(* of what it has computed.                                                *)
LEMMA KeyOfComputed ==
  ASSUME NEW h \in Seq(Block), NEW ids \in Seq(Token), NEW n \in Nat, n <= Len(ids),
         IsPrefix(h, Key(ids)), Len(h) * PageSize <= n
  PROVE  /\ Key(SubSeq(ids, 1, n)) \in Seq(Block) /\ IsPrefix(h, Key(SubSeq(ids, 1, n)))
         /\ Len(Key(SubSeq(ids, 1, n))) * PageSize <= n
         /\ IsPrefix(Key(SubSeq(ids, 1, n)), Key(ids))
<1>1. /\ SubSeq(ids, 1, n) \in Seq(Token) /\ Key(SubSeq(ids, 1, n)) \in Seq(Block)
      /\ Len(Key(SubSeq(ids, 1, n))) * PageSize <= n
  BY FirstTokens DEF Block
<1>2. n \in 0..Len(ids) OBVIOUS
<1>3. IsPrefix(SubSeq(ids, 1, n), ids) BY <1>2, FirstPart
<1>4. IsPrefix(Key(SubSeq(ids, 1, n)), Key(ids)) BY <1>1, <1>3, KeyExtends
<1>5. Len(h) * PageSize \in Nat BY PageSizeAssumption
<1> DEFINE m == Len(h) * PageSize
<1>6. m \in Nat /\ m <= n /\ m <= Len(ids) BY <1>5
<1>7. /\ SubSeq(ids, 1, m) \in Seq(Token) /\ Key(SubSeq(ids, 1, m)) \in Seq(Block)
  BY <1>6, FirstTokens DEF Block
<1>8. IsPrefix(h, Key(SubSeq(ids, 1, m))) BY <1>6, KeyOfPrefix DEF Block
<1> HIDE DEF m
<1>9. IsPrefix(SubSeq(ids, 1, m), SubSeq(ids, 1, n))
  <2>1. SubSeq(SubSeq(ids, 1, n), 1, m) = SubSeq(ids, 1, m) BY <1>6
  <2>2. m \in 0..Len(SubSeq(ids, 1, n)) BY <1>6
  <2>3. QED BY <1>1, <2>1, <2>2, FirstPart
<1>10. IsPrefix(Key(SubSeq(ids, 1, m)), Key(SubSeq(ids, 1, n))) BY <1>1, <1>7, <1>9, KeyExtends
<1>11. IsPrefix(h, Key(SubSeq(ids, 1, n))) BY <1>1, <1>7, <1>8, <1>10, PrefixTransitive
<1>12. QED BY <1>1, <1>4, <1>11

(* More tokens leave what a request holds a beginning of what it knows.    *)
LEMMA KeyOKLonger ==
  ASSUME NEW r \in Request, NEW s \in Request, NEW u, KeyOK(u, r), IsPrefix(r.ids, s.ids),
         s.handle = r.handle, r.cached <= s.cached,
         Len(s.ids) <= Len(Prompt[u]) => s.ids = SubSeq(Prompt[u], 1, Len(s.ids))
  PROVE  KeyOK(u, s)
<1>1. /\ r.ids \in Seq(Token) /\ s.ids \in Seq(Token) /\ r.handle \in Seq(Block)
      /\ r.cached \in Nat /\ s.cached \in Nat
  BY DEF Request
<1>2. /\ Key(r.ids) \in Seq(Block) /\ Key(s.ids) \in Seq(Block)
  BY <1>1, KeyType DEF Block
<1>3. IsPrefix(Key(r.ids), Key(s.ids)) BY <1>1, KeyExtends
<1>4. IsPrefix(r.handle, Key(r.ids)) BY DEF KeyOK
<1>5. IsPrefix(s.handle, Key(s.ids)) BY <1>1, <1>2, <1>3, <1>4, PrefixTransitive
<1>6. Len(s.handle) * PageSize <= s.cached
  <2>1. Len(r.handle) * PageSize <= r.cached BY DEF KeyOK
  <2>2. Len(r.handle) * PageSize \in Nat BY <1>1, PageSizeAssumption
  <2>3. QED BY <1>1, <2>1, <2>2
<1>7. QED BY <1>5, <1>6 DEF KeyOK

(* A step that moves no page and changes at most what the requests know.   *)
LEMMA PagesKept ==
  ASSUME PagesInv, UNCHANGED <<freePages, pageTable, holds>>, tree'.page = tree.page,
         \A u \in holds : /\ reqs'[u] \in Request /\ KeyOK(u, reqs'[u])
                          /\ reqs'[u].slot = reqs[u].slot /\ reqs'[u].handle = reqs[u].handle
                          /\ reqs'[u].cached = reqs[u].cached
  PROVE  PagesInv' /\ UNCHANGED Abstract!vars
<1>1. PagesRows BY DEF PagesInv
<1>2. HeldNow' = HeldNow
  <2>1. holds \subseteq Uids BY <1>1 DEF PagesRows
  <2>2. QED BY <2>1 DEF HeldNow
<1>3. OwnedNow' = OwnedNow
  <2>1. \A u \in holds : Private(u)' = Private(u) BY DEF Private
  <2>2. QED BY <2>1 DEF OwnedNow
<1>4. ToSet(freePages)' = ToSet(freePages) OBVIOUS
<1>5. UNCHANGED Abstract!vars BY <1>2, <1>3, <1>4 DEF Abstract!vars, HeldNow, OwnedNow
<1>6. UNCHANGED Store!vars BY <1>2, <1>3, <1>4 DEF Store!vars, HeldNow, OwnedNow
<1>7. Store!StoreInv' BY <1>6, Store!StoreStutters DEF PagesInv
<1>8. \A u \in holds : RowOK(pageTable', reqs'[u]) BY <1>1 DEF PagesRows, RowOK, Own
<1>9. PagesRows' BY <1>1, <1>8 DEF PagesRows, Covered
<1>10. QED BY <1>5, <1>7, <1>9 DEF PagesInv

(* A step that leaves the requests that hold resources as they are.        *)
LEMMA RequestsKept ==
  ASSUME PagesInv, UNCHANGED <<freePages, pageTable, holds>>, tree'.page = tree.page,
         \A u \in holds : reqs'[u] = reqs[u]
  PROVE  PagesInv' /\ UNCHANGED Abstract!vars
<1>1. \A u \in holds : reqs[u] \in Request /\ KeyOK(u, reqs[u]) BY DEF PagesInv, PagesRows
<1>2. QED BY <1>1, PagesKept

(* The request that an admission makes knows a part of its prompt.         *)
LEMMA AdmittedReq ==
  ASSUME Going, pc = "admit", More, NEW u, u = Candidate.uid,
         NEW handle \in Seq(Block), NEW slot \in Slot, NEW cached \in Nat,
         cached < Len(Prompt[u]), AddOneReq(u, handle, slot, cached)
  PROVE  \E n \in Nat, r \in Request :
           /\ cached <= n /\ n <= Len(Prompt[u])
           /\ r.ids = SubSeq(Prompt[u], 1, n) /\ r.handle = handle /\ r.slot = slot
           /\ r.cached = cached /\ reqs' = [reqs EXCEPT ![u] = r]
<1>1. u \in Uids /\ Prompt[u] \in Seq(Token) BY CandidateFacts, RequestFacts
<1>2. PICK w \in PendingReq, e \in BatchEntry, r \in Request :
        Adds(u, handle, slot, cached, w, e, r)
  BY AddOneReqFacts
<1>3. /\ reqs' = [reqs EXCEPT ![u] = r] /\ r.handle = handle /\ r.slot = slot /\ r.cached = cached
      /\ r.device = Len(r.ids) /\ r.cached < r.device /\ r.device <= Len(Prompt[u])
  BY <1>2 DEF Adds
<1>4. reqs'[u].ids = SubSeq(Prompt[u], 1, cached + Min({adder.budget, Len(Prompt[u]) - cached}))
  BY <1>1, HeldFacts DEF AddOneReq
<1> DEFINE m == cached + Min({adder.budget, Len(Prompt[u]) - cached})
<1>5. r.ids = SubSeq(Prompt[u], 1, m)
  <2>1. reqs'[u] = r BY <1>1, <1>3, HeldFacts
  <2>2. QED BY <1>4, <2>1
<1>6. m \in Nat /\ m <= Len(Prompt[u])
  <2> DEFINE a == adder.budget
             b == Len(Prompt[u]) - cached
  <2>1. Len(Prompt[u]) \in Nat BY <1>1
  <2>2. a \in Nat BY CandidateFacts
  <2>3. b \in Nat /\ cached + b = Len(Prompt[u]) BY <2>1
  <2>4. m = cached + Min({a, b}) OBVIOUS
  <2> HIDE DEF a, b, m
  <2>5. a \in Int /\ b \in Int BY <2>2, <2>3
  <2>6. Min({a, b}) \in {a, b} /\ Min({a, b}) <= b BY <2>5, MinOfTwo
  <2>7. Min({a, b}) \in Nat BY <2>2, <2>3, <2>6
  <2>8. QED BY <2>1, <2>3, <2>4, <2>6, <2>7
<1>7. cached <= m
  <2>1. Len(r.ids) = m
    <3> HIDE DEF m
    <3>1. QED BY <1>1, <1>5, <1>6
  <2> HIDE DEF m
  <2>2. QED BY <1>3, <1>6, <2>1
<1> HIDE DEF m
<1>8. QED BY <1>3, <1>5, <1>6, <1>7

(* A next chunk moves no page.                                             *)
LEMMA AdmitChunkPages ==
  ASSUME Going, PagesInv, AdmitChunk
  PROVE  PagesInv' /\ UNCHANGED Abstract!vars
<1>1. PICK u : u = Candidate.uid OBVIOUS
<1>2. PICK r : r = reqs[u] OBVIOUS
<1>3. /\ pc = "admit" /\ More /\ Candidate.chunked /\ UNCHANGED <<holds, cacheVars>>
      /\ AddOneReq(u, r.handle, r.slot, r.cached)
  BY <1>1, <1>2 DEF AdmitChunk
<1>4. /\ u \in Uids /\ u \in holds /\ ChunkWaits(u) /\ u \notin InBatch(batch)
  BY <1>1, <1>3, CandidateFacts DEF Untaken
<1>5. /\ r \in Request /\ KeyOK(u, r) /\ holds \subseteq Uids
  BY <1>2, <1>4 DEF PagesInv, PagesRows
<1>6. ChunkLengths(u) BY <1>4 DEF Going, LengthsOK, Begun
<1>7. /\ r.ids \in Seq(Token) /\ r.handle \in Seq(Block) /\ r.slot \in Slot /\ r.cached \in Nat
      /\ r.cached = Len(r.ids) /\ r.cached < Len(Prompt[u])
  BY <1>2, <1>5, <1>6 DEF Request, ChunkLengths
<1>8. PICK n \in Nat, s \in Request :
        /\ r.cached <= n /\ n <= Len(Prompt[u])
        /\ s.ids = SubSeq(Prompt[u], 1, n) /\ s.handle = r.handle /\ s.slot = r.slot
        /\ s.cached = r.cached /\ reqs' = [reqs EXCEPT ![u] = s]
  <2>1. PICK h \in Seq(Block), sl \in Slot, c \in Nat : h = r.handle /\ sl = r.slot /\ c = r.cached
    BY <1>7
  <2>2. /\ pc = "admit" /\ More /\ u = Candidate.uid /\ c < Len(Prompt[u])
        /\ AddOneReq(u, h, sl, c)
    BY <1>1, <1>3, <1>7, <2>1
  <2>3. PICK n \in Nat, s \in Request :
          /\ c <= n /\ n <= Len(Prompt[u])
          /\ s.ids = SubSeq(Prompt[u], 1, n) /\ s.handle = h /\ s.slot = sl
          /\ s.cached = c /\ reqs' = [reqs EXCEPT ![u] = s]
    BY <2>2, AdmittedReq
  <2>4. QED BY <2>1, <2>3
<1>9. Prompt[u] \in Seq(Token) /\ Len(Prompt[u]) \in Nat BY <1>4, RequestFacts
<1>10. r.ids = SubSeq(Prompt[u], 1, r.cached) BY <1>5, <1>7, <1>9 DEF KeyOK
<1>11. s.ids \in Seq(Token) /\ Len(s.ids) = n BY <1>8, <1>9
<1>12. IsPrefix(r.ids, s.ids)
  <2>1. SubSeq(s.ids, 1, r.cached) = r.ids BY <1>7, <1>8, <1>9, <1>10
  <2>2. r.cached \in 0..Len(s.ids) BY <1>7, <1>8, <1>11
  <2>3. QED BY <1>11, <2>1, <2>2, FirstPart
<1>13. KeyOK(u, s)
  <2>1. s.cached = r.cached /\ r.cached <= s.cached /\ s.handle = r.handle BY <1>7, <1>8
  <2>2. s.ids = SubSeq(Prompt[u], 1, Len(s.ids)) BY <1>8, <1>11
  <2>3. QED BY <1>5, <1>8, <1>12, <2>1, <2>2, KeyOKLonger
<1>14. reqs'[u] = s /\ \A v \in holds \ {u} : reqs'[v] = reqs[v]
  BY <1>4, <1>5, <1>8, HeldFacts
<1>15. \A v \in holds : /\ reqs'[v] \in Request /\ KeyOK(v, reqs'[v])
                        /\ reqs'[v].slot = reqs[v].slot /\ reqs'[v].handle = reqs[v].handle
                        /\ reqs'[v].cached = reqs[v].cached
  BY <1>2, <1>8, <1>13, <1>14 DEF PagesInv, PagesRows
<1>16. UNCHANGED <<freePages, pageTable, holds>> /\ tree'.page = tree.page BY <1>3 DEF cacheVars
<1>17. QED BY <1>15, <1>16, PagesKept

(* An admission changes the row and the Req of one new request.            *)
LEMMA AdmitNewRows ==
  ASSUME Going, RowsOK, TreeOK, PagesInv, AdmitNew, NEW u, u = Candidate.uid, NEW k, k = TriedHandle
  PROVE  /\ PagesRows' /\ OwnedNow' = OwnedNow /\ HeldNow' = [HeldNow EXCEPT ![u] = k]
         /\ tree'.page = tree.page /\ freePages' = freePages
         /\ u \in Uids /\ u \notin holds
         /\ k \in Covered(tree) \cup {<<>>} /\ k \in Seq(Block)
<1>1. PICK key : key = MatchKey(Prompt[u]) OBVIOUS
<1>2. PICK sl : sl = Last(freeSlots) OBVIOUS
<1>3. PICK c : c = Len(k) * PageSize OBVIOUS
<1>4. PICK row : row = Overwrite(pageTable[sl], 0, PagesOf(Walk(tree, key), k)) OBVIOUS
<1>5. k = Matched(tree, key) /\ Tried = Walk(tree, key) BY <1>1 DEF TriedHandle, Tried
<1>6. /\ pc = "admit" /\ More /\ ~Candidate.chunked /\ freeSlots # <<>>
      /\ holds' = holds \cup {u} /\ freePages' = freePages
      /\ tree' = LockHandle(Walk(tree, key), k)
      /\ pageTable' = [pageTable EXCEPT ![sl] = row]
      /\ AddOneReq(u, k, sl, c)
  BY <1>2, <1>3, <1>4, <1>5 DEF AdmitNew
<1>7. u \in Uids /\ ~TooLong(u) /\ u \notin holds
  BY <1>6, CandidateFacts DEF Pends, Untaken
<1>8. key \in Seq(Block) /\ k \in Seq(Block) /\ c \in Nat /\ c < Len(Prompt[u])
  BY <1>1, <1>3, <1>7, TriedFacts
<1>9. /\ PagesRows /\ holds \subseteq Uids /\ pageTable \in [Slot -> Seq(Page)]
      /\ tree.page \in [Covered(tree) -> Page] /\ WellShaped(tree, Block)
  BY DEF PagesInv, PagesRows, TreeOK
<1>10. sl \in Slot /\ sl \in ToSet(freeSlots)
  <2>1. freeSlots \in Seq(Slot) /\ Len(freeSlots) \in 1..Len(freeSlots)
    BY <1>6, EmptySeq DEF RowsOK
  <2>2. QED BY <1>2, <2>1 DEF Last, ToSet
<1>11. \A v \in holds : reqs[v].slot # sl /\ reqs[v].slot \in Slot BY <1>10 DEF RowsOK
<1>12. row \in Seq(Page) /\ Len(k) <= Len(row) /\ Len(k) \in Nat
  <2>1. row = Overwrite(pageTable[sl], 0, PagesOf(Walk(tree, key), Matched(tree, key)))
    BY <1>4, <1>5
  <2>2. pageTable[sl] \in Seq(Page) BY <1>9, <1>10
  <2>3. row \in Seq(Page) /\ Len(Matched(tree, key)) <= Len(row)
    BY <1>8, <1>9, <2>1, <2>2, AdmittedRow
  <2>4. QED BY <1>5, <1>8, <2>3
<1>13. /\ Len(k) <= Len(key) /\ Len(key) \in Nat /\ IsPrefix(k, key)
       /\ k \in Covered(tree) \cup {<<>>}
  BY <1>5, <1>8, <1>9, MatchedIsLongest
<1>14. tree'.page = tree.page
  <2>1. WellShaped(Walk(tree, key), Block) /\ Walk(tree, key).page = tree.page
    BY <1>8, <1>9, WalkShape
  <2>2. QED BY <1>6, <2>1, LockShape
<1>15. PICK n \in Nat, r \in Request :
         /\ c <= n /\ n <= Len(Prompt[u])
         /\ r.ids = SubSeq(Prompt[u], 1, n) /\ r.handle = k /\ r.slot = sl
         /\ r.cached = c /\ reqs' = [reqs EXCEPT ![u] = r]
  <2>1. /\ pc = "admit" /\ More /\ u = Candidate.uid /\ k \in Seq(Block) /\ sl \in Slot
        /\ c \in Nat /\ c < Len(Prompt[u]) /\ AddOneReq(u, k, sl, c)
    BY <1>6, <1>8, <1>10
  <2>2. QED BY <2>1, AdmittedReq
<1>16. Prompt[u] \in Seq(Token) /\ Len(Prompt[u]) \in Nat \ {0} BY <1>7, RequestFacts
<1>17. c \in Nat /\ PagesFor(c) = Len(k) BY <1>3, <1>12, PagesForWhole
<1>18. IsPrefix(k, Key(r.ids))
  <2>1. PICK most : most = SubSeq(Prompt[u], 1, Len(Prompt[u]) - 1) OBVIOUS
  <2>2. most \in Seq(Token) /\ Len(most) = Len(Prompt[u]) - 1 BY <1>16, <2>1
  <2>3. key = Key(most) BY <1>1, <2>1 DEF MatchKey
  <2>4. c <= Len(most) BY <1>8, <1>16, <2>2
  <2>5. IsPrefix(k, Key(SubSeq(most, 1, c)))
    <3>1. IsPrefix(k, Key(most)) /\ Len(k) * PageSize <= Len(most) BY <1>3, <1>13, <2>3, <2>4
    <3>2. QED BY <1>3, <1>8, <2>2, <3>1, KeyOfPrefix DEF Block
  <2>6. SubSeq(most, 1, c) = SubSeq(r.ids, 1, c)
    <3>1. SubSeq(most, 1, c) = SubSeq(Prompt[u], 1, c) BY <1>8, <1>16, <2>1, <2>4
    <3>2. SubSeq(r.ids, 1, c) = SubSeq(Prompt[u], 1, c) BY <1>8, <1>15, <1>16
    <3>3. QED BY <3>1, <3>2
  <2>7. r.ids \in Seq(Token) /\ Len(r.ids) = n BY <1>15, <1>16
  <2>8. SubSeq(r.ids, 1, c) \in Seq(Token) /\ IsPrefix(SubSeq(r.ids, 1, c), r.ids)
    <3>1. c \in 0..Len(r.ids) BY <1>8, <1>15, <2>7
    <3>2. QED BY <2>7, <3>1, FirstPart
  <2>9. IsPrefix(Key(SubSeq(r.ids, 1, c)), Key(r.ids)) BY <2>7, <2>8, KeyExtends
  <2>10. /\ Key(SubSeq(r.ids, 1, c)) \in Seq(Block) /\ Key(r.ids) \in Seq(Block)
    BY <2>7, <2>8, KeyType DEF Block
  <2>11. QED BY <1>8, <2>5, <2>6, <2>9, <2>10, PrefixTransitive
<1>19. KeyOK(u, r)
  <2>1. Len(r.ids) = n BY <1>15, <1>16
  <2>2. Len(r.handle) * PageSize <= r.cached BY <1>3, <1>8, <1>15
  <2>3. QED BY <1>15, <1>18, <2>1, <2>2 DEF KeyOK
<1>20. reqs'[u] = r /\ \A v \in holds : reqs'[v] = reqs[v] BY <1>7, <1>9, <1>15, HeldFacts
<1>21. pageTable'[sl] = row /\ \A v \in holds : pageTable'[reqs[v].slot] = pageTable[reqs[v].slot]
  BY <1>6, <1>9, <1>10, <1>11
<1>22. Own(r) = {} BY <1>12, <1>15, <1>17 DEF Own
<1>23. RowOK(pageTable', r)
  BY <1>10, <1>12, <1>15, <1>17, <1>21, <1>22 DEF RowOK, Distinct
<1>24. PagesRows'
  <2>1. pageTable' \in [Slot -> Seq(Page)] BY <1>6, <1>9, <1>12
  <2>2. \A v \in holds : RowOK(pageTable', reqs[v]) BY <1>9, <1>21 DEF PagesRows, RowOK
  <2>3. \A v \in holds' : reqs'[v] \in Request /\ RowOK(pageTable', reqs'[v]) /\ KeyOK(v, reqs'[v])
    BY <1>6, <1>9, <1>19, <1>20, <1>23, <2>2 DEF PagesRows
  <2>4. Covered(tree)' = Covered(tree) BY <1>14 DEF Covered
  <2>5. holds' \subseteq Uids BY <1>6, <1>7, <1>9
  <2>6. QED BY <1>6, <1>9, <1>14, <2>1, <2>3, <2>4, <2>5 DEF PagesRows
<1>25. OwnedOK /\ OwnedOK' BY <1>9, <1>24, OwnedOfRow, OwnedOfRowNext
<1>26. OwnedNow' = OwnedNow
  <2>1. Owned(pageTable', r) = {} BY <1>22 DEF Owned, PagesAt
  <2>2. \A v \in holds : Owned(pageTable', reqs'[v]) = Owned(pageTable, reqs[v])
    BY <1>20, <1>21 DEF Owned
  <2>3. /\ \A v \in holds : OwnedNow[v] = Owned(pageTable, reqs[v])
        /\ \A v \in Uids \ holds : OwnedNow[v] = {}
        /\ \A v \in holds' : OwnedNow'[v] = Owned(pageTable', reqs'[v])
        /\ \A v \in Uids \ holds' : OwnedNow'[v] = {}
    BY <1>25 DEF OwnedOK
  <2>5. \A v \in Uids : OwnedNow'[v] = OwnedNow[v]
    <3>1. TAKE v \in Uids
    <3>2. CASE v = u
      <4>1. u \in holds' BY <1>6
      <4>2. OwnedNow'[u] = Owned(pageTable', r) BY <1>20, <2>3, <4>1
      <4>3. OwnedNow[u] = {} BY <1>7, <2>3
      <4>4. QED BY <2>1, <3>2, <4>2, <4>3
    <3>3. CASE v # u /\ v \in holds BY <1>6, <2>2, <2>3, <3>3
    <3>4. CASE v # u /\ v \notin holds BY <1>6, <2>3, <3>4
    <3>5. QED BY <3>2, <3>3, <3>4
  <2>6. QED BY <2>5 DEF OwnedNow
<1>27. HeldNow' = [HeldNow EXCEPT ![u] = k]
  <2>1. \A v \in Uids : HeldNow'[v] = IF v = u THEN k ELSE HeldNow[v]
    BY <1>6, <1>7, <1>15, <1>20, <1>25 DEF OwnedOK
  <2>2. QED BY <2>1 DEF HeldNow
<1>28. QED BY <1>6, <1>7, <1>8, <1>13, <1>14, <1>24, <1>26, <1>27

(* The admission of a request is a Begin: it holds what it matched, and    *)
(* owns no page yet.                                                       *)
LEMMA AdmitNewPages ==
  ASSUME Going, RowsOK, TreeOK, PagesInv, AdmitNew
  PROVE  PagesInv' /\ Abstract!Next
<1>1. PICK u : u = Candidate.uid OBVIOUS
<1>2. PICK k : k = TriedHandle OBVIOUS
<1>3. /\ PagesRows' /\ OwnedNow' = OwnedNow /\ HeldNow' = [HeldNow EXCEPT ![u] = k]
      /\ tree'.page = tree.page /\ freePages' = freePages
      /\ u \in Uids /\ u \notin holds
      /\ k \in Covered(tree) \cup {<<>>} /\ k \in Seq(Block)
  BY <1>1, <1>2, AdmitNewRows
<1>4. k # None BY <1>3, NoneAssumption
<1>5. u \notin Abstract!Active BY <1>3, ActiveHolds DEF PagesInv
<1>6. Abstract!Above(k) \subseteq Abstract!Keys
  <2>1. KeysOf(k) \subseteq Covered(tree) BY <1>3, CachedAbove DEF TreeOK
  <2>2. QED BY <2>1, AboveIsKeys DEF Abstract!Keys, Covered
<1>7. ToSet(freePages)' = ToSet(freePages) BY <1>3
<1>8. Abstract!Begin(u, k)
  BY <1>3, <1>4, <1>5, <1>6, <1>7 DEF Abstract!Begin, HeldNow, OwnedNow
<1>9. k \in Abstract!Keys \cup {<<>>} BY <1>3 DEF Abstract!Keys, Covered
<1>10. Abstract!Next BY <1>3, <1>8, <1>9 DEF Abstract!Next
<1>11. Store!StoreInv' BY <1>3, <1>8, SameBegin, Store!StoreBegin DEF PagesInv
<1>12. QED BY <1>3, <1>10, <1>11 DEF PagesInv

(* The end of admission: a walk moves no page.                             *)
LEMMA StopAdmittingPages ==
  ASSUME Going, TreeOK, PagesInv, StopAdmitting
  PROVE  PagesInv' /\ UNCHANGED Abstract!vars
<1>1. /\ UNCHANGED <<reqs, holds, freePages, pageTable>> /\ pc = "admit"
      /\ tree' = IF Refused THEN Tried ELSE tree
  BY DEF StopAdmitting
<1>2. tree'.page = tree.page
  <2>1. CASE ~Refused BY <1>1, <2>1
  <2>2. CASE Refused
    <3>1. PICK key : key = MatchKey(Prompt[Candidate.uid]) OBVIOUS
    <3>2. Candidate.uid \in Uids /\ ~TooLong(Candidate.uid)
      BY <1>1, <2>2, CandidateFacts DEF Pends, Refused
    <3>3. key \in Seq(Block) BY <3>1, <3>2, TriedFacts
    <3>4. tree' = Walk(tree, key) BY <1>1, <2>2, <3>1 DEF Tried
    <3>5. QED BY <3>3, <3>4, WalkShape DEF TreeOK
  <2>3. QED BY <2>1, <2>2
<1>3. QED BY <1>1, <1>2, RequestsKept

(* An eviction is a Drop: it takes a leaf that nobody holds.               *)
LEMMA EvictDrops ==
  ASSUME Going, RowsOK, TreeOK, PagesInv, EvictForBatch
  PROVE  PagesInv' /\ Abstract!Next
<1>1. /\ EvictOne(BatchReqs) /\ UNCHANGED <<reqs, holds, pageTable>>
  BY DEF EvictForBatch, schedVars, EvictOne
<1>2. TreeOK' BY EvictKeeps
<1>3. /\ WellShaped(tree, Block) /\ freePages \in Seq(Page) /\ IsInjective(freePages)
      /\ tree.page \in [Covered(tree) -> Page] /\ IsInjective(tree.page)
      /\ \A q \in Covered(tree) : tree.page[q] \notin ToSet(freePages)
      /\ PagesRows
  BY PlacesApart DEF PagesInv, PagesRows, TreeOK
<1>4. /\ Covered(tree)' \subseteq Covered(tree)
      /\ tree'.page = [q \in Covered(tree)' |-> tree.page[q]]
      /\ freePages' \in Seq(Page)
      /\ ToSet(freePages') =
           ToSet(freePages) \cup {tree.page[q] : q \in Covered(tree) \ Covered(tree)'}
      /\ IsInjective(freePages')
  BY <1>1, <1>3, EvictPages
<1>5. OwnedNow' = OwnedNow /\ HeldNow' = HeldNow BY <1>1 DEF OwnedNow, HeldNow, Private
<1>6. WellShaped(tree', Block) /\ Counted(tree', holds, HandleOf)
  <2>1. HandleOf' = HandleOf BY <1>1 DEF HandleOf
  <2>2. QED BY <1>1, <1>2, <2>1 DEF TreeOK
<1>7. \A k \in Covered(tree)' : Abstract!Above(k) \subseteq Covered(tree)'
  BY <1>6, CachedAbove, AboveIsKeys DEF Covered
<1>8. \A u \in Abstract!Active : Abstract!Above(HeldNow[u]) \subseteq Covered(tree)'
  <2>1. TAKE u \in Abstract!Active
  <2>2. u \in holds /\ HeldNow[u] = HandleOf[u]
    BY <1>3, ActiveHolds, OwnedOfRow DEF OwnedOK, HandleOf, PagesRows
  <2>3. HeldNow[u] \in Covered(tree') \cup {<<>>}
    BY <1>6, <2>2 DEF Counted, WellShaped, Tree
  <2>4. QED BY <1>6, <2>3, CachedAbove, AboveIsKeys DEF Covered
<1>9. Abstract!Drop
  <2>1. DOMAIN tree'.page \subseteq DOMAIN tree.page BY <1>4 DEF Covered
  <2>2. \A k \in DOMAIN tree.page \cap DOMAIN tree'.page : tree'.page[k] = tree.page[k]
    BY <1>4 DEF Covered
  <2>3. ToSet(freePages)' =
          ToSet(freePages) \cup {tree.page[k] : k \in DOMAIN tree.page \ DOMAIN tree'.page}
    BY <1>4 DEF Covered
  <2>4. \A k \in DOMAIN tree'.page : Abstract!Above(k) \subseteq DOMAIN tree'.page
    BY <1>7 DEF Covered
  <2>5. \A u \in Abstract!Active : Abstract!Above(HeldNow[u]) \subseteq DOMAIN tree'.page
    BY <1>8 DEF Covered
  <2>6. QED BY <1>5, <2>1, <2>2, <2>3, <2>4, <2>5
    DEF Abstract!Drop, Abstract!Keys, Abstract!Kept, HeldNow, OwnedNow
<1>10. Store!StoreInv' BY <1>9, SameDrop, Store!StoreDrop DEF PagesInv
<1>11. PagesRows'
  <2>1. tree'.page \in [Covered(tree)' -> Page] BY <1>3, <1>4
  <2>2. QED BY <1>1, <1>3, <1>4, <2>1 DEF PagesRows
<1>12. QED BY <1>9, <1>10, <1>11 DEF PagesInv, Abstract!Next

(* The batch that is run: requests that hold resources, with rows of their *)
(* own, that have computed no more than they will.                         *)
Runnable(rs, n) ==
  /\ rs \in Seq(Request) /\ Len(rs) = n /\ n = Len(batch.reqs) /\ n \in Nat
  /\ \A i \in 1..n : batch.reqs[i].uid \in holds /\ rs[i] = reqs[batch.reqs[i].uid]
  /\ \A i, j \in 1..n : batch.reqs[i].uid = batch.reqs[j].uid => i = j
  /\ RowsApart(rs)

LEMMA BatchRunnable ==
  ASSUME Going, RowsOK, PagesRows, pc = "allocate"
  PROVE  Runnable(BatchReqs, Len(batch.reqs))
<1>1. PICK n : n = Len(batch.reqs) OBVIOUS
<1>2. PICK rs : rs = BatchReqs OBVIOUS
<1>3. /\ batch \in Batch /\ batch.reqs \in Seq(BatchEntry) /\ n \in Nat
      /\ DOMAIN batch.reqs = 1..n /\ \A i \in 1..n : batch.reqs[i] \in BatchEntry
  BY <1>1 DEF Going, Types, Batch
<1>4. \A i, j \in 1..n : batch.reqs[i].uid = batch.reqs[j].uid => i = j
  BY <1>3 DEF Going, Phases, BatchOK
<1>5. Fresh = Open(batch, 1) BY DEF Going, Phases, Fresh
<1>6. ASSUME NEW i \in 1..n, NEW u, u = batch.reqs[i].uid
      PROVE  u \in holds /\ reqs[u].cached <= reqs[u].device
  <2>1. u \in Uids /\ u \in InBatch(batch) BY <1>1, <1>3, <1>6 DEF InBatch, BatchEntry
  <2>2. CASE batch.phase = "decode"
    <3>1. u \in Fresh
      <4>1. ~batch.reqs[i].chunked BY <1>3, <2>2 DEF Going, Phases, BatchOK
      <4>2. QED BY <1>1, <1>5, <1>6, <2>1, <4>1 DEF Open
    <3>2. u \in running BY <2>2, <3>1 DEF Going, OpenOK
    <3>3. u \in holds /\ DecodeLengths(u) BY <2>1, <3>2 DEF Going, HoldsOK, LengthsOK, Prefilled
    <3>4. reqs[u] \in Request BY <3>3, HeldFacts
    <3>5. reqs[u].device \in Nat /\ reqs[u].cached = reqs[u].device - 1
      BY <3>3, <3>4 DEF DecodeLengths, Request
    <3>6. QED BY <3>3, <3>5
  <2>3. CASE batch.phase = "prefill"
    <3>1. BegunLengths(u) BY <2>1, <2>3 DEF Going, LengthsOK, Begun
    <3>2. u \in holds /\ reqs[u].cached < reqs[u].device BY <3>1 DEF BegunLengths
    <3>3. reqs[u] \in Request BY <3>2, HeldFacts
    <3>4. reqs[u].device \in Nat /\ reqs[u].cached \in Nat BY <3>3 DEF Request
    <3>5. QED BY <3>2, <3>4
  <2>4. CASE batch.phase = "none"
    <3>1. batch.reqs = <<>> BY <2>4 DEF Going, Phases, BatchOK
    <3>2. QED BY <1>1, <3>1
  <2>5. QED BY <1>3, <2>2, <2>3, <2>4 DEF Batch
<1>7. \A i \in 1..n : batch.reqs[i].uid \in holds /\ rs[i] = reqs[batch.reqs[i].uid]
  BY <1>1, <1>2, <1>6 DEF BatchReqs
<1>8. \A i \in 1..n : rs[i] \in Request BY <1>7, HeldFacts
<1>9. rs \in Seq(Request) /\ Len(rs) = n
  <2>1. rs = [i \in 1..n |-> rs[i]] BY <1>1, <1>2 DEF BatchReqs
  <2>2. rs \in [1..n -> Request] BY <1>8, <2>1
  <2>3. QED BY <1>3, <2>2
<1>10. RowsApart(rs)
  <2>1. ASSUME NEW i \in 1..Len(rs)
        PROVE  /\ rs[i].slot \in Slot /\ rs[i].cached \in Nat /\ rs[i].device \in Nat
               /\ rs[i].cached <= rs[i].device
               /\ PagesFor(rs[i].cached) <= Len(pageTable[rs[i].slot])
    <3>1. PICK u : u = batch.reqs[i].uid OBVIOUS
    <3>2. i \in 1..n /\ u \in holds /\ rs[i] = reqs[u] BY <1>7, <1>9, <3>1
    <3>3. reqs[u].cached <= reqs[u].device BY <1>6, <3>1, <3>2
    <3>4. reqs[u] \in Request /\ RowOK(pageTable, reqs[u]) BY <3>2 DEF PagesRows
    <3>5. QED BY <3>2, <3>3, <3>4 DEF Request, RowOK
  <2>2. ASSUME NEW i \in 1..Len(rs), NEW j \in 1..Len(rs), rs[i].slot = rs[j].slot
        PROVE  i = j
    BY <1>4, <1>7, <1>9, <2>2 DEF RowsOK
  <2>3. QED BY <2>1, <2>2 DEF RowsApart
<1>11. QED BY <1>1, <1>2, <1>3, <1>4, <1>7, <1>9, <1>10 DEF Runnable

(* Where a request stands in the batch.                                    *)
LEMMA InRunnable ==
  ASSUME NEW rs, NEW n, Runnable(rs, n)
  PROVE  /\ InBatch(batch) = {batch.reqs[i].uid : i \in 1..n}
         /\ InBatch(batch) \subseteq holds
BY DEF Runnable, InBatch

(* What a forward pass makes of one request of the batch.                  *)
LEMMA ForwardReq ==
  ASSUME PagesInv, NEW rs, NEW n, Runnable(rs, n), NEW S, Cut(S, rs), NEW i \in 1..n,
         NEW u, u = batch.reqs[i].uid, reqs'[u] = Advanced(reqs[u])
  PROVE  /\ reqs'[u] \in Request /\ RowOK(pageTable', reqs'[u]) /\ KeyOK(u, reqs'[u])
         /\ reqs'[u].handle = reqs[u].handle
         /\ Owned(pageTable', reqs'[u]) = Owned(pageTable, reqs[u]) \cup Handed(S, i)
         /\ pageTable'[reqs[u].slot] \in Seq(Page)
         /\ Handed(S, i) \subseteq ToSet(freePages)
<1>1. PICK r : r = reqs[u] OBVIOUS
<1>2. PICK new : new = Advanced(r) OBVIOUS
<1>3. PICK pages : pages = Handed(S, i) OBVIOUS
<1>4. /\ PagesRows /\ u \in holds /\ rs[i] = r /\ rs \in Seq(Request) /\ i \in 1..Len(rs)
      /\ RowsApart(rs)
  BY <1>1 DEF PagesInv, Runnable
<1>5. /\ r \in Request /\ RowOK(pageTable, r) /\ KeyOK(u, r)
      /\ freePages \in Seq(Page) /\ IsInjective(freePages) /\ pageTable \in [Slot -> Seq(Page)]
  BY <1>1, <1>4 DEF PagesRows
<1>6. Grown(r, pages, Page)
  <2>1. Grown(rs[i], Handed(S, i), Page) BY <1>4, <1>5, CutGrows
  <2>2. QED BY <1>3, <1>4, <2>1
<1>7. pages \subseteq ToSet(freePages) BY <1>3, <1>4, <1>5, CutParts
<1>8. /\ new \in Request /\ new.ids = r.ids /\ new.slot = r.slot /\ new.handle = r.handle
      /\ new.cached = r.device
  BY <1>2, <1>5, AdvancedFacts
<1>9. r.cached <= r.device /\ r.device \in Nat /\ r.cached \in Nat /\ r.ids \in Seq(Token)
      /\ Len(r.handle) \in Nat
  <2>1. rs[i].cached <= rs[i].device BY <1>4 DEF RowsApart
  <2>2. r.cached <= r.device BY <1>4, <2>1
  <2>3. r.device \in Nat /\ r.cached \in Nat /\ r.ids \in Seq(Token) /\ r.handle \in Seq(Block)
    BY <1>5 DEF Request
  <2>4. QED BY <2>2, <2>3
<1>10. Owned(pageTable, r) \cap ToSet(freePages) = {} BY <1>1, <1>4, PlacesApart
<1>11. RowOK(pageTable', new) /\ Owned(pageTable', new) = Owned(pageTable, r) \cup pages
  BY <1>5, <1>6, <1>7, <1>8, <1>9, <1>10, RowGrows
<1>12. KeyOK(u, new)
  <2>1. IsPrefix(r.ids, new.ids) BY <1>8, <1>9, PrefixReflexive
  <2>2. Len(new.ids) <= Len(Prompt[u]) => new.ids = SubSeq(Prompt[u], 1, Len(new.ids))
    BY <1>5, <1>8 DEF KeyOK
  <2>3. QED BY <1>5, <1>8, <1>9, <2>1, <2>2, KeyOKLonger
<1>13. pageTable'[r.slot] \in Seq(Page) BY <1>6 DEF Grown
<1>14. QED BY <1>1, <1>2, <1>3, <1>7, <1>8, <1>11, <1>12, <1>13

(* What a forward pass does to the rows: those of the batch grow by pages  *)
(* that were free, the others stay.                                        *)
LEMMA ForwardRows ==
  ASSUME PagesInv, RowsOK, NEW rs, NEW n, Runnable(rs, n), NEW S, Cut(S, rs), holds' = holds,
         reqs' = [u \in Uids |-> IF u \in InBatch(batch) THEN Advanced(reqs[u]) ELSE reqs[u]]
  PROVE  /\ PagesRows' /\ HeldNow' = HeldNow /\ tree' = tree
         /\ ToSet(freePages)' = ToSet(freePages) \ HandedAll(S, n)
         /\ \A i \in 1..n : OwnedNow'[batch.reqs[i].uid]
                              = OwnedNow[batch.reqs[i].uid] \cup Handed(S, i)
         /\ \A u \in Uids \ InBatch(batch) : OwnedNow'[u] = OwnedNow[u]
<1>1. /\ PagesRows /\ holds \subseteq Uids /\ freePages \in Seq(Page) /\ IsInjective(freePages)
      /\ pageTable \in [Slot -> Seq(Page)] /\ tree.page \in [Covered(tree) -> Page]
  BY DEF PagesInv, PagesRows
<1>2. /\ rs \in Seq(Request) /\ Len(rs) = n /\ n \in Nat
      /\ \A i \in 1..n : batch.reqs[i].uid \in holds /\ rs[i] = reqs[batch.reqs[i].uid]
  BY DEF Runnable
<1>3. InBatch(batch) = {batch.reqs[i].uid : i \in 1..n} /\ InBatch(batch) \subseteq holds
  BY InRunnable
<1>4. \A u \in InBatch(batch) : reqs'[u] = Advanced(reqs[u]) BY <1>1, <1>3
<1>5. \A u \in holds \ InBatch(batch) : reqs'[u] = reqs[u] BY <1>1
<1>6. ASSUME NEW i \in 1..n, NEW u, u = batch.reqs[i].uid
      PROVE  /\ reqs'[u] \in Request /\ RowOK(pageTable', reqs'[u]) /\ KeyOK(u, reqs'[u])
             /\ reqs'[u].handle = reqs[u].handle
             /\ Owned(pageTable', reqs'[u]) = Owned(pageTable, reqs[u]) \cup Handed(S, i)
             /\ pageTable'[reqs[u].slot] \in Seq(Page)
  <2>1. reqs'[u] = Advanced(reqs[u]) BY <1>3, <1>4, <1>6
  <2>2. QED BY <1>6, <2>1, ForwardReq
<1>7. /\ \A i \in 1..n : rs[i].slot = reqs[batch.reqs[i].uid].slot
      /\ \A s \in Slot : (\A i \in 1..n : rs[i].slot # s) => pageTable'[s] = pageTable[s]
      /\ pageTable' = [s \in Slot |-> pageTable'[s]] /\ tree' = tree
  BY <1>2 DEF Cut
<1>8. \A u \in holds \ InBatch(batch) : pageTable'[reqs[u].slot] = pageTable[reqs[u].slot]
  <2>1. TAKE u \in holds \ InBatch(batch)
  <2>2. reqs[u].slot \in Slot BY DEF RowsOK
  <2>3. \A i \in 1..n : rs[i].slot # reqs[u].slot BY <1>2, <1>3, <1>7 DEF RowsOK
  <2>4. QED BY <1>7, <2>2, <2>3
<1>9. pageTable' \in [Slot -> Seq(Page)]
  <2>1. ASSUME NEW s \in Slot PROVE pageTable'[s] \in Seq(Page)
    <3>1. CASE \E i \in 1..n : rs[i].slot = s BY <1>6, <1>7, <3>1
    <3>2. CASE \A i \in 1..n : rs[i].slot # s BY <1>1, <1>7, <3>2
    <3>3. QED BY <3>1, <3>2
  <2>2. QED BY <1>7, <2>1
<1>10. /\ freePages' \in Seq(Page) /\ IsInjective(freePages')
       /\ ToSet(freePages') = ToSet(freePages) \ HandedAll(S, n)
  BY <1>1, <1>2, CutParts
<1>11. \A u \in holds : reqs'[u] \in Request /\ RowOK(pageTable', reqs'[u]) /\ KeyOK(u, reqs'[u])
                        /\ reqs'[u].handle = reqs[u].handle
  <2>1. TAKE u \in holds
  <2>2. CASE u \in InBatch(batch) BY <1>3, <1>6, <2>2
  <2>3. CASE u \notin InBatch(batch)
    <3>1. reqs[u] \in Request /\ RowOK(pageTable, reqs[u]) /\ KeyOK(u, reqs[u])
      BY <1>1 DEF PagesRows
    <3>2. reqs'[u] = reqs[u] /\ pageTable'[reqs[u].slot] = pageTable[reqs[u].slot]
      BY <1>5, <1>8, <2>3
    <3>3. QED BY <3>1, <3>2 DEF RowOK
  <2>4. QED BY <2>2, <2>3
<1>12. PagesRows' BY <1>1, <1>7, <1>9, <1>10, <1>11 DEF PagesRows
<1>13. HeldNow' = HeldNow BY <1>1, <1>11 DEF HeldNow
<1>14. /\ \A u \in holds : OwnedNow[u] = Owned(pageTable, reqs[u])
       /\ \A u \in Uids \ holds : OwnedNow[u] = {} /\ OwnedNow'[u] = {}
       /\ \A u \in holds : OwnedNow'[u] = Owned(pageTable', reqs'[u])
  BY <1>1, <1>12, OwnedOfRow, OwnedOfRowNext DEF OwnedOK
<1>15. \A i \in 1..n : OwnedNow'[batch.reqs[i].uid] = OwnedNow[batch.reqs[i].uid] \cup Handed(S, i)
  <2>1. TAKE i \in 1..n
  <2>2. PICK u : u = batch.reqs[i].uid OBVIOUS
  <2>3. u \in holds BY <1>2, <2>2
  <2>4. Owned(pageTable', reqs'[u]) = Owned(pageTable, reqs[u]) \cup Handed(S, i) BY <1>6, <2>2
  <2>5. QED BY <1>14, <2>2, <2>3, <2>4
<1>16. \A u \in Uids \ InBatch(batch) : OwnedNow'[u] = OwnedNow[u]
  <2>1. \A u \in holds \ InBatch(batch) : Owned(pageTable', reqs'[u]) = Owned(pageTable, reqs[u])
    BY <1>5, <1>8 DEF Owned
  <2>2. QED BY <1>14, <2>1
<1>17. ToSet(freePages)' = ToSet(freePages) \ HandedAll(S, n) BY <1>10
<1>18. QED BY <1>7, <1>12, <1>13, <1>15, <1>16, <1>17

(* A forward pass is a Take: each request of the batch gets pages that     *)
(* were free, and no page goes to two of them.                             *)
LEMMA ForwardTakes ==
  ASSUME Going, RowsOK, PagesInv, Forward
  PROVE  PagesInv' /\ Abstract!Next
<1>1. PICK n : n = Len(batch.reqs) OBVIOUS
<1>2. PICK rs : rs = BatchReqs OBVIOUS
<1>3. /\ pc = "allocate" /\ AllocatePaged(rs) /\ holds' = holds
      /\ reqs' = [u \in Uids |-> IF u \in InBatch(batch) THEN Advanced(reqs[u]) ELSE reqs[u]]
  BY <1>2 DEF Forward
<1>4. /\ PagesRows /\ freePages \in Seq(Page) /\ IsInjective(freePages) /\ holds \subseteq Uids
  BY DEF PagesInv, PagesRows
<1>5. Runnable(rs, n) BY <1>1, <1>2, <1>3, <1>4, BatchRunnable
<1>6. /\ rs \in Seq(Request) /\ Len(rs) = n /\ n \in Nat /\ RowsApart(rs)
      /\ \A i, j \in 1..n : batch.reqs[i].uid = batch.reqs[j].uid => i = j
  BY <1>5 DEF Runnable
<1>7. PICK S : Cut(S, rs) BY <1>3, <1>4, <1>6, AllocateCuts
<1>8. /\ PagesRows' /\ HeldNow' = HeldNow /\ tree' = tree
      /\ ToSet(freePages)' = ToSet(freePages) \ HandedAll(S, n)
      /\ \A i \in 1..n : OwnedNow'[batch.reqs[i].uid]
                           = OwnedNow[batch.reqs[i].uid] \cup Handed(S, i)
      /\ \A u \in Uids \ InBatch(batch) : OwnedNow'[u] = OwnedNow[u]
  BY <1>3, <1>5, <1>7, ForwardRows
<1>9. /\ \A i \in 1..n : Handed(S, i) \subseteq ToSet(freePages)
      /\ \A i, j \in 1..n : i # j => Handed(S, i) \cap Handed(S, j) = {}
  BY <1>4, <1>6, <1>7, CutParts
<1>10. InBatch(batch) = {batch.reqs[i].uid : i \in 1..n} /\ InBatch(batch) \subseteq holds
  BY <1>5, InRunnable
<1>11. \A u \in Uids : OwnedNow[u] \cap ToSet(freePages) = {} BY PlacesApart
<1>12. \A u \in Uids : /\ OwnedNow[u] \subseteq OwnedNow'[u]
                       /\ OwnedNow'[u] \ OwnedNow[u] \subseteq ToSet(freePages)
  <2>1. TAKE u \in Uids
  <2>2. CASE u \in InBatch(batch) BY <1>8, <1>9, <1>10, <2>2
  <2>3. CASE u \notin InBatch(batch) BY <1>8, <2>3
  <2>4. QED BY <2>2, <2>3
<1>13. \A u, v \in Uids : u # v => (OwnedNow'[u] \ OwnedNow[u]) \cap (OwnedNow'[v] \ OwnedNow[v]) = {}
  <2>1. SUFFICES ASSUME NEW u \in Uids, NEW v \in Uids, u # v
                 PROVE  (OwnedNow'[u] \ OwnedNow[u]) \cap (OwnedNow'[v] \ OwnedNow[v]) = {}
    OBVIOUS
  <2>2. CASE u \in InBatch(batch) /\ v \in InBatch(batch)
    <3>1. PICK i \in 1..n, j \in 1..n : u = batch.reqs[i].uid /\ v = batch.reqs[j].uid
      BY <1>10, <2>2
    <3>2. i # j BY <2>1, <3>1
    <3>3. OwnedNow'[u] \ OwnedNow[u] \subseteq Handed(S, i) BY <1>8, <3>1
    <3>4. OwnedNow'[v] \ OwnedNow[v] \subseteq Handed(S, j) BY <1>8, <3>1
    <3>5. QED BY <1>9, <3>2, <3>3, <3>4
  <2>3. CASE u \notin InBatch(batch) BY <1>8, <2>3
  <2>4. CASE v \notin InBatch(batch) BY <1>8, <2>4
  <2>5. QED BY <2>2, <2>3, <2>4
<1>14. ToSet(freePages)' = ToSet(freePages) \ UNION {OwnedNow'[u] : u \in Uids}
  <2>1. HandedAll(S, n) \subseteq UNION {OwnedNow'[u] : u \in Uids}
    <3>1. \A i \in 1..n : batch.reqs[i].uid \in Uids BY <1>4, <1>10
    <3>2. QED BY <1>8, <3>1 DEF HandedAll
  <2>2. \A u \in Uids : OwnedNow'[u] \cap ToSet(freePages) \subseteq HandedAll(S, n)
    <3>1. TAKE u \in Uids
    <3>2. CASE u \in InBatch(batch) BY <1>8, <1>10, <1>11, <3>2 DEF HandedAll
    <3>3. CASE u \notin InBatch(batch) BY <1>8, <1>11, <3>3
    <3>4. QED BY <3>2, <3>3
  <2>3. QED BY <1>8, <2>1, <2>2
<1>15. \A u \in Uids \ Abstract!Active : OwnedNow'[u] = OwnedNow[u]
  BY <1>4, <1>8, <1>10, ActiveHolds
<1>16. OwnedNow' = [u \in Uids |-> OwnedNow'[u]] BY DEF OwnedNow
<1>17. Abstract!Take
  BY <1>8, <1>12, <1>13, <1>14, <1>15, <1>16 DEF Abstract!Take, HeldNow, OwnedNow
<1>18. Store!StoreInv' BY <1>17, SameTake, Store!StoreTake DEF PagesInv
<1>19. QED BY <1>8, <1>17, <1>18 DEF PagesInv, Abstract!Next

(* A request that is cached with what it has computed can be cached.       *)
LEMMA RequestCacheable ==
  ASSUME PagesRows, TreeOK, NEW u \in holds, NEW r \in Request, r.slot = reqs[u].slot,
         r.handle = reqs[u].handle, r.cached = reqs[u].cached, IsPrefix(reqs[u].ids, r.ids),
         r.cached <= Len(r.ids)
  PROVE  /\ Cacheable(r, Block) /\ IsPrefix(ReqKey(r), Key(r.ids))
         /\ Len(ReqKey(r)) * PageSize <= r.cached
         /\ Owned(pageTable, r) = Owned(pageTable, reqs[u])
<1>1. /\ reqs[u] \in Request /\ RowOK(pageTable, reqs[u]) /\ KeyOK(u, reqs[u])
      /\ holds \subseteq Uids
  BY DEF PagesRows
<1>2. /\ r.ids \in Seq(Token) /\ r.handle \in Seq(Block) /\ r.cached \in Nat
      /\ reqs[u].ids \in Seq(Token)
  BY <1>1 DEF Request
<1>3. IsPrefix(r.handle, Key(r.ids)) /\ Len(r.handle) * PageSize <= r.cached
  <2>1. IsPrefix(r.handle, Key(reqs[u].ids)) /\ Len(r.handle) * PageSize <= r.cached
    BY <1>1 DEF KeyOK
  <2>2. IsPrefix(Key(reqs[u].ids), Key(r.ids)) BY <1>2, KeyExtends
  <2>3. Key(reqs[u].ids) \in Seq(Block) /\ Key(r.ids) \in Seq(Block) BY <1>2, KeyType DEF Block
  <2>4. QED BY <1>2, <2>1, <2>2, <2>3, PrefixTransitive
<1>4. PICK h \in Seq(Block), ids \in Seq(Token), n \in Nat :
        h = r.handle /\ ids = r.ids /\ n = r.cached
  BY <1>2
<1>5. /\ Key(SubSeq(ids, 1, n)) \in Seq(Block) /\ IsPrefix(h, Key(SubSeq(ids, 1, n)))
      /\ Len(Key(SubSeq(ids, 1, n))) * PageSize <= n
      /\ IsPrefix(Key(SubSeq(ids, 1, n)), Key(ids))
  <2>1. n <= Len(ids) /\ IsPrefix(h, Key(ids)) /\ Len(h) * PageSize <= n BY <1>3, <1>4
  <2>2. QED BY <2>1, KeyOfComputed
<1>6. ReqKey(r) = Key(SubSeq(ids, 1, n)) BY <1>4 DEF ReqKey
<1>7. Len(ReqKey(r)) <= PagesFor(r.cached)
  <2>1. Len(Key(SubSeq(ids, 1, n))) <= PagesFor(n) BY <1>4, KeyFits
  <2>2. QED BY <1>4, <1>6, <2>1
<1>8. RowOK(pageTable, r) /\ Owned(pageTable, r) = Owned(pageTable, reqs[u])
  BY <1>1 DEF RowOK, Own, Owned
<1>9. r.handle \in Covered(tree) \cup {<<>>}
  <2>1. HandleOf[u] = r.handle BY <1>1 DEF HandleOf
  <2>2. QED BY <2>1 DEF TreeOK, Counted, WellShaped, Tree
<1>10. Cacheable(r, Block) BY <1>2, <1>4, <1>5, <1>6, <1>7, <1>8, <1>9 DEF Cacheable
<1>11. IsPrefix(ReqKey(r), Key(r.ids)) /\ Len(ReqKey(r)) * PageSize <= r.cached
  BY <1>4, <1>5, <1>6
<1>12. QED BY <1>8, <1>10, <1>11

(* cache_req leaves the lists in order.                                    *)
LEMMA CacheReqLists ==
  ASSUME PagesInv, TreeOK, NEW u \in holds, NEW r, Cacheable(r, Block),
         Owned(pageTable, r) = Owned(pageTable, reqs[u]),
         NEW finished \in BOOLEAN, CacheReq(r, finished)
  PROVE  /\ freePages' \in Seq(Page) /\ IsInjective(freePages')
         /\ tree'.page \in [Covered(tree)' -> Page]
         /\ pageTable' = pageTable
<1>1. /\ WellShaped(tree, Block) /\ freePages \in Seq(Page) /\ pageTable \in [Slot -> Seq(Page)]
      /\ tree.page \in [Covered(tree) -> Page] /\ IsInjective(freePages)
  BY DEF TreeOK, PagesInv, PagesRows
<1>2. ToSet(freePages) \cap Owned(pageTable, r) = {} BY PlacesApart
<1>3. freePages' \in Seq(Page) /\ IsInjective(freePages') BY <1>1, <1>2, CacheReqFrees
<1>4. Stores(r, Page) BY <1>1, CacheReqStores
<1>5. QED BY <1>3, <1>4 DEF Stores, CacheReq

(* cache_req is a Settle, when the request goes on and when it ends.       *)
LEMMA CacheReqSettles ==
  ASSUME PagesInv, TreeOK, NEW u \in holds, NEW r, Cacheable(r, Block),
         r.handle = reqs[u].handle, Owned(pageTable, r) = Owned(pageTable, reqs[u]),
         NEW finished \in BOOLEAN, CacheReq(r, finished),
         OwnedNow' = [OwnedNow EXCEPT ![u] = IF finished THEN {} ELSE Remainder(r)],
         HeldNow' = [HeldNow EXCEPT ![u] = IF finished THEN None ELSE ReqKey(r)]
  PROVE  Store!StoreInv' /\ Abstract!Next
<1>1. PICK k : k = ReqKey(r) OBVIOUS
<1>2. PICK own : own = Owned(pageTable, r) OBVIOUS
<1>3. PICK added : added = Added(r) OBVIOUS
<1>4. PICK left : left = IF finished THEN {} ELSE Remainder(r) OBVIOUS
<1>5. /\ WellShaped(tree, Block) /\ freePages \in Seq(Page) /\ pageTable \in [Slot -> Seq(Page)]
      /\ tree.page \in [Covered(tree) -> Page] /\ PagesRows /\ u \in Uids
  BY DEF TreeOK, PagesInv, PagesRows
<1>6. k \in Seq(Block) /\ IsPrefix(r.handle, k) BY <1>1 DEF Cacheable
<1>7. /\ added \subseteq own /\ left \subseteq own \ added
      /\ ToSet(freePages') = ToSet(freePages) \cup (own \ (added \cup left))
  <2>1. LET kept == Added(r) \cup IF finished THEN {} ELSE Remainder(r)
        IN  /\ Added(r) \subseteq Owned(pageTable, r)
            /\ Remainder(r) \subseteq Owned(pageTable, r) \ Added(r)
            /\ ToSet(freePages') = ToSet(freePages) \cup (Owned(pageTable, r) \ kept)
    BY <1>5, CacheReqFrees
  <2>2. QED BY <1>2, <1>3, <1>4, <2>1
<1>8. /\ DOMAIN tree'.page = DOMAIN tree.page \cup KeysOf(k)
      /\ \A q \in DOMAIN tree.page : tree'.page[q] = tree.page[q]
      /\ {tree'.page[q] : q \in KeysOf(k) \ DOMAIN tree.page} = added
      /\ \A q, s \in KeysOf(k) \ DOMAIN tree.page : tree'.page[q] = tree'.page[s] => q = s
  <2>1. Stores(r, Page) BY <1>5, CacheReqStores
  <2>2. QED BY <1>1, <1>3, <2>1 DEF Stores, Covered
<1>9. OwnedNow[u] = own /\ HeldNow[u] = r.handle /\ u \in Abstract!Active
  BY <1>2, <1>5, OwnedOfRow, ActiveHolds DEF OwnedOK
<1>10. OwnedNow' = [OwnedNow EXCEPT ![u] = left] /\ OwnedNow'[u] = left
  BY <1>4, <1>5 DEF OwnedNow
<1>11. \/ HeldNow' = [HeldNow EXCEPT ![u] = k] /\ k # None
       \/ HeldNow' = [HeldNow EXCEPT ![u] = None] /\ OwnedNow'[u] = {}
  BY <1>1, <1>4, <1>6, <1>10, NoneAssumption
<1>12. Abstract!IsPrefix(HeldNow[u], k) BY <1>6, <1>9 DEF IsPrefix, Abstract!IsPrefix
<1>13. Abstract!Settle(u, k)
  <2>1. \A q \in DOMAIN tree.page \cap DOMAIN tree'.page : tree'.page[q] = tree.page[q] BY <1>8
  <2>2. ToSet(freePages)' = ToSet(freePages) \cup (OwnedNow[u] \ (added \cup OwnedNow'[u]))
    BY <1>7, <1>9, <1>10
  <2>3. OwnedNow'[u] \subseteq OwnedNow[u] \ added /\ added \subseteq OwnedNow[u]
    BY <1>7, <1>9, <1>10
  <2>4. OwnedNow' = [OwnedNow EXCEPT ![u] = OwnedNow'[u]] BY <1>10
  <2>5. Abstract!Above(k) = KeysOf(k) BY AboveIsKeys
  <2>6. QED BY <1>8, <1>9, <1>11, <1>12, <2>1, <2>2, <2>3, <2>4, <2>5
    DEF Abstract!Settle, Abstract!Keys, Abstract!Kept, HeldNow, OwnedNow
<1>14. k \in DOMAIN tree'.page \cup {<<>>}
  <2>1. /\ KeysOf(k) = {SubSeq(k, 1, i) : i \in 1..Len(k)} /\ SubSeq(k, 1, Len(k)) = k
    BY <1>6, KeysOfKey, SubSeqFull
  <2>2. k # <<>> => Len(k) \in 1..Len(k) BY <1>6, EmptySeq
  <2>3. k # <<>> => k \in KeysOf(k) BY <2>1, <2>2
  <2>4. QED BY <1>8, <2>3
<1>15. Abstract!Next BY <1>5, <1>13, <1>14 DEF Abstract!Next
<1>16. Store!StoreInv' BY <1>5, <1>13, SameSettle, Store!StoreSettle DEF PagesInv
<1>17. QED BY <1>15, <1>16

(* A request that ends, or is aborted, gives back all it has.              *)
LEMMA EndedPages ==
  ASSUME PagesInv, TreeOK, NEW u \in holds, NEW r \in Request, r.slot = reqs[u].slot,
         r.handle = reqs[u].handle, r.cached = reqs[u].cached, IsPrefix(reqs[u].ids, r.ids),
         r.cached <= Len(r.ids), CacheReq(r, TRUE), holds' = holds \ {u},
         \A v \in holds \ {u} : reqs'[v] = reqs[v]
  PROVE  PagesInv' /\ Abstract!Next
<1>1. Cacheable(r, Block) /\ Owned(pageTable, r) = Owned(pageTable, reqs[u])
  BY RequestCacheable DEF PagesInv
<1>2. /\ freePages' \in Seq(Page) /\ IsInjective(freePages')
      /\ tree'.page \in [Covered(tree)' -> Page] /\ pageTable' = pageTable
  BY <1>1, CacheReqLists
<1>3. PagesRows BY DEF PagesInv
<1>4. PagesRows' BY <1>2, <1>3 DEF PagesRows
<1>5. OwnedOK /\ OwnedOK' /\ u \in Uids
  BY <1>3, <1>4, OwnedOfRow, OwnedOfRowNext DEF PagesRows
<1>6. \A v \in Uids \ {u} : OwnedNow'[v] = OwnedNow[v] /\ HeldNow'[v] = HeldNow[v]
  <2>1. \A v \in holds \ {u} : Owned(pageTable', reqs'[v]) = Owned(pageTable, reqs[v])
    BY <1>2 DEF Owned
  <2>2. /\ \A v \in holds : OwnedNow[v] = Owned(pageTable, reqs[v]) /\ HeldNow[v] = reqs[v].handle
        /\ \A v \in Uids \ holds : OwnedNow[v] = {} /\ HeldNow[v] = None
    BY <1>5 DEF OwnedOK
  <2>3. /\ \A v \in holds' : /\ OwnedNow'[v] = Owned(pageTable', reqs'[v])
                             /\ HeldNow'[v] = reqs'[v].handle
        /\ \A v \in Uids \ holds' : OwnedNow'[v] = {} /\ HeldNow'[v] = None
    BY <1>5 DEF OwnedOK
  <2>4. TAKE v \in Uids \ {u}
  <2>5. CASE v \in holds BY <2>1, <2>2, <2>3, <2>5
  <2>6. CASE v \notin holds BY <2>2, <2>3, <2>6
  <2>7. QED BY <2>5, <2>6
<1>7. OwnedNow'[u] = {} /\ HeldNow'[u] = None BY <1>5 DEF OwnedOK
<1>8. /\ OwnedNow' = [OwnedNow EXCEPT ![u] = {}]
      /\ HeldNow' = [HeldNow EXCEPT ![u] = None]
  BY <1>5, <1>6, <1>7 DEF OwnedNow, HeldNow
<1>9. Store!StoreInv' /\ Abstract!Next
  <2>1. /\ OwnedNow' = [OwnedNow EXCEPT ![u] = IF TRUE THEN {} ELSE Remainder(r)]
        /\ HeldNow' = [HeldNow EXCEPT ![u] = IF TRUE THEN None ELSE ReqKey(r)]
    BY <1>8
  <2>2. QED BY <1>1, <2>1, CacheReqSettles
<1>10. QED BY <1>4, <1>9 DEF PagesInv

(* A request whose prompt is cached holds its key from then on.            *)
LEMMA KeptPages ==
  ASSUME PagesInv, TreeOK, NEW u \in holds, NEW r \in Request, r.slot = reqs[u].slot,
         r.handle = reqs[u].handle, r.cached = reqs[u].cached, IsPrefix(reqs[u].ids, r.ids),
         r.cached <= Len(r.ids), CacheReq(r, FALSE), holds' = holds,
         NEW s \in Request, s.ids = r.ids, s.slot = r.slot, s.cached = r.cached,
         s.handle = ReqKey(r), Len(s.ids) > Len(Prompt[u]),
         reqs'[u] = s, \A v \in holds \ {u} : reqs'[v] = reqs[v]
  PROVE  PagesInv' /\ Abstract!Next
<1>1. /\ Cacheable(r, Block) /\ Owned(pageTable, r) = Owned(pageTable, reqs[u])
      /\ IsPrefix(ReqKey(r), Key(r.ids)) /\ Len(ReqKey(r)) * PageSize <= r.cached
  BY RequestCacheable DEF PagesInv
<1>2. /\ freePages' \in Seq(Page) /\ IsInjective(freePages')
      /\ tree'.page \in [Covered(tree)' -> Page] /\ pageTable' = pageTable
  BY <1>1, CacheReqLists
<1>3. PagesRows /\ u \in Uids BY DEF PagesInv, PagesRows
<1>4. RowOK(pageTable', s) /\ Owned(pageTable', s) = Remainder(r)
  <2>1. WellShaped(tree, Block) BY DEF TreeOK
  <2>2. QED BY <1>1, <1>2, <2>1, RowSettles
<1>5. KeyOK(u, s)
  <2>1. Len(s.ids) \in Nat /\ Len(Prompt[u]) \in Nat BY <1>3, RequestFacts DEF Request
  <2>2. QED BY <1>1, <2>1 DEF KeyOK
<1>6. PagesRows'
  <2>1. \A v \in holds' : reqs'[v] \in Request /\ RowOK(pageTable', reqs'[v]) /\ KeyOK(v, reqs'[v])
    BY <1>2, <1>3, <1>4, <1>5 DEF PagesRows
  <2>2. QED BY <1>2, <1>3, <2>1 DEF PagesRows
<1>7. OwnedOK /\ OwnedOK' BY <1>3, <1>6, OwnedOfRow, OwnedOfRowNext
<1>8. \A v \in Uids \ {u} : OwnedNow'[v] = OwnedNow[v] /\ HeldNow'[v] = HeldNow[v]
  <2>1. \A v \in holds \ {u} : Owned(pageTable', reqs'[v]) = Owned(pageTable, reqs[v])
    BY <1>2 DEF Owned
  <2>2. /\ \A v \in holds : OwnedNow[v] = Owned(pageTable, reqs[v]) /\ HeldNow[v] = reqs[v].handle
        /\ \A v \in Uids \ holds : OwnedNow[v] = {} /\ HeldNow[v] = None
    BY <1>7 DEF OwnedOK
  <2>3. /\ \A v \in holds' : /\ OwnedNow'[v] = Owned(pageTable', reqs'[v])
                             /\ HeldNow'[v] = reqs'[v].handle
        /\ \A v \in Uids \ holds' : OwnedNow'[v] = {} /\ HeldNow'[v] = None
    BY <1>7 DEF OwnedOK
  <2>4. TAKE v \in Uids \ {u}
  <2>5. CASE v \in holds BY <2>1, <2>2, <2>3, <2>5
  <2>6. CASE v \notin holds BY <2>2, <2>3, <2>6
  <2>7. QED BY <2>5, <2>6
<1>9. OwnedNow'[u] = Remainder(r) /\ HeldNow'[u] = ReqKey(r) BY <1>4, <1>7 DEF OwnedOK
<1>10. /\ OwnedNow' = [OwnedNow EXCEPT ![u] = Remainder(r)]
       /\ HeldNow' = [HeldNow EXCEPT ![u] = ReqKey(r)]
  BY <1>3, <1>8, <1>9 DEF OwnedNow, HeldNow
<1>11. Store!StoreInv' /\ Abstract!Next
  <2>1. /\ OwnedNow' = [OwnedNow EXCEPT ![u] = IF FALSE THEN {} ELSE Remainder(r)]
        /\ HeldNow' = [HeldNow EXCEPT ![u] = IF FALSE THEN None ELSE ReqKey(r)]
    BY <1>10
  <2>2. QED BY <1>1, <2>1, CacheReqSettles
<1>12. QED BY <1>6, <1>11 DEF PagesInv

(* An abort gives back what the request has, or changes nothing of that.   *)
LEMMA AbortPages ==
  ASSUME Going, TreeOK, PagesInv, NEW u \in Uids, ReceiveAbort(u)
  PROVE  PagesInv' /\ [Abstract!Next]_(Abstract!vars)
<1>1. reqs' = reqs BY DEF ReceiveAbort
<1>2. CASE ~AbortFrees(u)
  <2>1. UNCHANGED <<freePages, pageTable, holds, tree>> BY <1>2 DEF ReceiveAbort, cacheVars
  <2>2. PagesInv' /\ UNCHANGED Abstract!vars BY <1>1, <2>1, RequestsKept
  <2>3. QED BY <2>2
<1>3. CASE AbortFrees(u)
  <2>1. u \in holds /\ reqs[u] \in Request /\ reqs[u].cached <= Len(reqs[u].ids)
    BY <1>3, AbortedHolds
  <2>2. CacheReq(reqs[u], TRUE) /\ holds' = holds \ {u}
    BY <1>3 DEF ReceiveAbort, FreeReqResources
  <2>3. PICK r \in Request : r = reqs[u] BY <2>1
  <2>4. IsPrefix(reqs[u].ids, r.ids)
    <3>1. r.ids \in Seq(Token) BY DEF Request
    <3>2. QED BY <2>3, <3>1, PrefixReflexive
  <2>5. /\ r.slot = reqs[u].slot /\ r.handle = reqs[u].handle /\ r.cached = reqs[u].cached
        /\ r.cached <= Len(r.ids) /\ CacheReq(r, TRUE) /\ \A v \in holds \ {u} : reqs'[v] = reqs[v]
    BY <1>1, <2>1, <2>2, <2>3
  <2>6. PagesInv' /\ Abstract!Next BY <2>1, <2>2, <2>4, <2>5, EndedPages
  <2>7. QED BY <2>6
<1>4. QED BY <1>2, <1>3

(* A request with one more token knows more.                               *)
LEMMA LongerFacts ==
  ASSUME NEW o \in Request, NEW r, NEW token, Longer(o, r, token)
  PROVE  /\ r \in Request /\ r.slot = o.slot /\ r.cached = o.cached /\ IsPrefix(o.ids, r.ids)
         /\ Len(r.ids) = Len(o.ids) + 1
<1>1. /\ r \in Request /\ r.slot = o.slot /\ r.cached = o.cached
      /\ r.ids = Append(o.ids, token) /\ Len(r.ids) = Len(o.ids) + 1
  BY DEF Longer
<1>2. o.ids \in Seq(Token) /\ r.ids \in Seq(Token) BY <1>1 DEF Request
<1>3. SubSeq(r.ids, 1, Len(o.ids)) = o.ids BY <1>1, <1>2
<1>4. Len(o.ids) \in 0..Len(r.ids) BY <1>1, <1>2
<1>5. IsPrefix(SubSeq(r.ids, 1, Len(o.ids)), r.ids) BY <1>2, <1>4, FirstPart
<1>6. QED BY <1>1, <1>3, <1>5

(* A result ends a request, caches its prompt, or adds one token to it.    *)
LEMMA ResultPages ==
  ASSUME Going, TreeOK, PagesInv, NEW token \in Vocab, ProcessReq(token), pc' = "process"
  PROVE  PagesInv' /\ [Abstract!Next]_(Abstract!vars)
<1>1. PICK u : u = Current.uid OBVIOUS
<1>2. PICK r : r = Appended(token) OBVIOUS
<1>3. pc = "process" /\ cursor <= Len(Results.reqs) /\ ~Current.chunked BY DEF ProcessReq
<1>4. /\ u \in Uids /\ reqs[u] \in Request /\ reqs[u].cached <= Len(reqs[u].ids) + 1
      /\ Results.phase = "prefill" => u \in holds
      /\ DecodeLengths(u)
  BY <1>1, <1>3, ResultFacts
<1>5. /\ Longer(reqs[u], r, token) /\ r.handle = reqs[u].handle /\ ReqKey(r) \in Seq(Block)
      /\ [r EXCEPT !.handle = ReqKey(r)].handle = ReqKey(r)
      /\ Longer(reqs[u], [r EXCEPT !.handle = ReqKey(r)], token)
  <2>1. PICK o \in Request : o = reqs[u] BY <1>4
  <2>2. r = [o EXCEPT !.ids = Append(o.ids, token)] BY <1>1, <1>2, <2>1 DEF Appended
  <2>3. o.cached <= Len(o.ids) + 1 BY <1>4, <2>1
  <2>4. LET q == [o EXCEPT !.ids = Append(o.ids, token)]
            s == [q EXCEPT !.handle = ReqKey(q)]
        IN  /\ Longer(o, q, token) /\ q.handle = o.handle /\ ReqKey(q) \in Seq(Block)
            /\ Longer(o, s, token) /\ s.handle = ReqKey(q)
    BY <2>3, AppendedFacts
  <2>5. /\ Longer(o, r, token) /\ r.handle = o.handle /\ ReqKey(r) \in Seq(Block)
        /\ Longer(o, [r EXCEPT !.handle = ReqKey(r)], token)
        /\ [r EXCEPT !.handle = ReqKey(r)].handle = ReqKey(r)
    BY <2>2, <2>4
  <2>6. QED BY <2>1, <2>5
<1>6. /\ r \in Request /\ r.slot = reqs[u].slot /\ r.cached = reqs[u].cached
      /\ IsPrefix(reqs[u].ids, r.ids) /\ Len(r.ids) = Len(reqs[u].ids) + 1
  BY <1>4, <1>5, LongerFacts
<1>7. r.cached <= Len(r.ids) BY <1>4, <1>6
<1>8. Len(r.ids) > Len(Prompt[u]) /\ Len(r.ids) \in Nat /\ Len(Prompt[u]) \in Nat
  <2>1. Len(reqs[u].ids) = Len(Prompt[u]) + Len(replies[u]) BY <1>4 DEF DecodeLengths
  <2>2. Len(replies[u]) \in Nat BY <1>4 DEF Going, Types
  <2>3. Len(Prompt[u]) \in Nat BY <1>4, RequestFacts
  <2>4. Len(reqs[u].ids) \in Nat BY <1>4 DEF Request
  <2>5. PICK a \in Nat, b \in Nat, c \in Nat :
          a = Len(Prompt[u]) /\ b = Len(replies[u]) /\ c = Len(reqs[u].ids)
    BY <2>2, <2>3, <2>4
  <2>6. c = a + b /\ Len(r.ids) = c + 1 BY <1>6, <2>1, <2>5
  <2>7. c + 1 > a /\ c + 1 \in Nat BY <2>6
  <2>8. QED BY <2>3, <2>5, <2>6, <2>7
<1>9. holds \subseteq Uids /\ reqs \in [Uids -> Request \cup {None}] BY HeldFacts
<1>10. CASE FirstFinish(token)
  <2>1. /\ u \in holds /\ holds' = holds \ {u} /\ CacheReq(r, TRUE)
        /\ reqs' = [reqs EXCEPT ![u] = r]
    BY <1>1, <1>2, <1>3, <1>10 DEF ProcessReq, FreeReqResources
  <2>2. \A v \in holds \ {u} : reqs'[v] = reqs[v] BY <1>9, <2>1
  <2>3. PagesInv' /\ Abstract!Next BY <1>5, <1>6, <1>7, <2>1, <2>2, EndedPages
  <2>4. QED BY <2>3
<1>11. CASE ~FirstFinish(token) /\ Results.phase = "prefill"
  <2>1. PICK s : s = [r EXCEPT !.handle = ReqKey(r)] OBVIOUS
  <2>2. /\ u \in holds /\ holds' = holds /\ CacheReq(r, FALSE)
        /\ reqs' = [reqs EXCEPT ![u] = s]
    BY <1>1, <1>2, <1>4, <1>11, <2>1 DEF ProcessReq
  <2>3. Longer(reqs[u], s, token) /\ s.handle = ReqKey(r) BY <1>5, <2>1
  <2>4. s \in Request /\ s.slot = r.slot /\ s.cached = r.cached
    BY <1>4, <1>6, <2>3, LongerFacts
  <2>5. s.ids = r.ids BY <1>5, <2>3 DEF Longer
  <2>6. reqs'[u] = s /\ \A v \in holds \ {u} : reqs'[v] = reqs[v] BY <1>4, <1>9, <2>2
  <2>7. Len(s.ids) > Len(Prompt[u]) BY <1>8, <2>5
  <2>8. PagesInv' /\ Abstract!Next
    BY <1>5, <1>6, <1>7, <2>2, <2>3, <2>4, <2>5, <2>6, <2>7, KeptPages
  <2>9. QED BY <2>8
<1>12. CASE ~FirstFinish(token) /\ Results.phase # "prefill"
  <2>1. UNCHANGED <<freePages, pageTable, holds, tree>> /\ reqs' = [reqs EXCEPT ![u] = r]
    BY <1>1, <1>2, <1>12 DEF ProcessReq, cacheVars
  <2>2. reqs'[u] = r /\ \A v \in Uids \ {u} : reqs'[v] = reqs[v] BY <1>4, <1>9, <2>1
  <2>3. \A v \in holds : reqs[v] \in Request /\ KeyOK(v, reqs[v]) BY DEF PagesInv, PagesRows
  <2>4. u \in holds => KeyOK(u, r)
    <3>1. SUFFICES ASSUME u \in holds PROVE KeyOK(u, r) OBVIOUS
    <3>2. KeyOK(u, reqs[u]) BY <2>3, <3>1
    <3>3. ~(Len(r.ids) <= Len(Prompt[u])) BY <1>8
    <3>4. reqs[u].cached \in Nat BY <1>4 DEF Request
    <3>5. reqs[u].cached <= r.cached BY <1>6, <3>4
    <3>6. QED BY <1>4, <1>5, <1>6, <3>2, <3>3, <3>5, KeyOKLonger
  <2>5. \A v \in holds : /\ reqs'[v] \in Request /\ KeyOK(v, reqs'[v])
                         /\ reqs'[v].slot = reqs[v].slot /\ reqs'[v].handle = reqs[v].handle
                         /\ reqs'[v].cached = reqs[v].cached
    <3>1. TAKE v \in holds
    <3>2. CASE v = u BY <1>5, <1>6, <2>2, <2>4, <3>2
    <3>3. CASE v # u BY <1>9, <2>2, <2>3, <3>3
    <3>4. QED BY <3>2, <3>3
  <2>6. PagesInv' /\ UNCHANGED Abstract!vars BY <2>1, <2>5, PagesKept
  <2>7. QED BY <2>6
<1>13. QED BY <1>10, <1>11, <1>12

(* The other steps move no page.                                           *)
LEMMA QuietPages ==
  ASSUME PagesInv,
         \/ \E u \in Uids : ReceiveUser(u)
         \/ BecomeUrgent \/ StartPrefill \/ SkipPrefill \/ SkipChunk \/ EndIteration
         \/ \E w : Crash(w)
         \/ UNCHANGED vars
  PROVE  PagesInv' /\ UNCHANGED Abstract!vars
<1>1. holds \subseteq Uids BY DEF PagesInv, PagesRows
<1>2. CASE EndIteration
  <2>1. /\ UNCHANGED <<freePages, pageTable, holds, tree>>
        /\ reqs' = [v \in Uids |-> IF v \in holds \cup InBatch(inflight') THEN reqs[v] ELSE None]
    BY <1>2 DEF EndIteration, cacheVars
  <2>2. \A v \in holds : reqs'[v] = reqs[v] BY <1>1, <2>1
  <2>3. QED BY <2>1, <2>2, RequestsKept
<1>3. CASE ~EndIteration
  <2>1. UNCHANGED <<reqs, freePages, pageTable, holds, tree>>
    BY <1>3 DEF ReceiveUser, BecomeUrgent, StartPrefill, SkipPrefill, SkipChunk, Crash,
                vars, schedVars, cacheVars
  <2>2. QED BY <2>1, RequestsKept
<1>4. QED BY <1>2, <1>3

(* Every step of a process that frees nothing twice.                       *)
LEMMA PagesStep ==
  SchedInv /\ PagesInv /\ [Next]_vars /\ pc' # "freed twice"
    => PagesInv' /\ [Abstract!Next]_(Abstract!vars)
<1> SUFFICES ASSUME SchedInv, PagesInv, [Next]_vars, pc' # "freed twice"
             PROVE  PagesInv' /\ [Abstract!Next]_(Abstract!vars)
  OBVIOUS
<1>1. CASE UNCHANGED vars BY <1>1, QuietPages
<1>2. CASE Next
  <2>1. Going /\ RowsOK /\ TreeOK BY <1>2, StepsAreGoing
  <2>2. CASE \/ \E u \in Uids : ReceiveUser(u)
             \/ BecomeUrgent \/ StartPrefill \/ SkipPrefill \/ SkipChunk \/ EndIteration
    BY <2>2, QuietPages
  <2>3. CASE EvictFails \/ \E token \in Vocab : ProcessFails(token)
    <3>1. \E w : Crash(w) BY <2>3 DEF EvictFails, ProcessFails
    <3>2. QED BY <3>1, QuietPages
  <2>4. CASE AdmitChunk BY <2>1, <2>4, AdmitChunkPages
  <2>5. CASE AdmitNew BY <2>1, <2>5, AdmitNewPages
  <2>6. CASE StopAdmitting BY <2>1, <2>6, StopAdmittingPages
  <2>7. CASE EvictForBatch BY <2>1, <2>7, EvictDrops
  <2>8. CASE Forward BY <2>1, <2>8, ForwardTakes
  <2>9. ASSUME NEW token \in Vocab, ProcessReq(token)
        PROVE  PagesInv' /\ [Abstract!Next]_(Abstract!vars)
    <3>1. pc' = "process" BY <2>9 DEF ProcessReq
    <3>2. QED BY <2>1, <2>9, <3>1, ResultPages
  <2>10. ASSUME NEW u \in Uids, ReceiveAbort(u)
         PROVE  PagesInv' /\ [Abstract!Next]_(Abstract!vars)
    BY <2>1, <2>10, AbortPages
  <2>11. QED BY <1>2, <2>2, <2>3, <2>4, <2>5, <2>6, <2>7, <2>8, <2>9, <2>10
    DEF Next, Loop, Environment
<1>3. QED BY <1>1, <1>2

(* A process that has freed twice takes no step.                           *)
LEMMA PagesInvariant == Spec => [](pc # "freed twice" => PagesInv)
<1>1. Init => (pc # "freed twice" => PagesInv) BY PagesInit
<1>2. SchedInv /\ (pc # "freed twice" => PagesInv) /\ [Next]_vars
        => (pc # "freed twice" => PagesInv)'
  <2> SUFFICES ASSUME SchedInv, pc # "freed twice" => PagesInv, [Next]_vars, pc' # "freed twice"
               PROVE  PagesInv'
    OBVIOUS
  <2>1. pc # "freed twice"
    <3>1. CASE UNCHANGED vars BY <3>1 DEF vars, schedVars
    <3>2. CASE Next
      <4>1. Going BY <3>2, StepsAreGoing
      <4>2. QED BY <4>1 DEF Going, Types
    <3>3. QED BY <3>1, <3>2
  <2>2. QED BY <2>1, PagesStep
<1>3. QED BY SchedulerInvariant, <1>1, <1>2, PTL DEF Spec

(* No page is lost or held twice until a request is freed twice: each page *)
(* is once in the free list, or cached under one key, or once in the       *)
(* private part of one request, for any number of requests, pages and rows *)
(* and through every order of arrivals, chunks, batches, evictions, results *)
(* and aborts (cache_req, _allocate, _free_req_resources).                 *)
THEOREM PagesPartitionHolds == Spec => [](pc # "freed twice" => PagesPartition)
<1>1. ASSUME PagesInv PROVE PagesPartition
  <2> DEFINE private == [u \in holds |-> Private(u)]
             parts == [u \in holds |-> ToSet(Private(u))]
             own == UNION Range(parts)
  <2>1. /\ ToSet(freePages) \cup {tree.page[q] : q \in Covered(tree)}
             \cup UNION {OwnedNow[u] : u \in Uids} = Page
        /\ \A u \in Uids : \A p \in OwnedNow[u] :
             p \notin ToSet(freePages) /\ \A q \in Covered(tree) : tree.page[q] # p
        /\ \A u, v \in Uids : u # v => OwnedNow[u] \cap OwnedNow[v] = {}
    <3>1. Store!OnePlace BY <1>1 DEF PagesInv, Store!StoreInv
    <3>2. QED BY <3>1 DEF Store!OnePlace, Store!Keys, OwnedNow, Covered
  <2>2. /\ IsInjective(freePages) /\ IsInjective(tree.page)
        /\ \A q \in Covered(tree) : tree.page[q] \notin ToSet(freePages)
    BY <1>1, PlacesApart DEF PagesInv, PagesRows
  <2>3. Range(tree.page) = {tree.page[q] : q \in Covered(tree)} BY DEF Range, Covered
  <2>4. /\ \A u \in holds : parts[u] = OwnedNow[u] /\ u \in Uids /\ IsInjective(private[u])
        /\ \A u \in Uids \ holds : OwnedNow[u] = {}
    BY <1>1, OwnedOfRow DEF PagesInv, PagesRows, OwnedOK
  <2>5. own = UNION {OwnedNow[u] : u \in Uids}
    <3>1. own = UNION {parts[u] : u \in holds} BY DEF Range
    <3>2. QED BY <2>4, <3>1
  <2>6. [u \in DOMAIN private |-> ToSet(private[u])] = parts /\ DOMAIN private = holds OBVIOUS
  <2> HIDE DEF private, parts, own
  <2>7. EachPageOnce(private)
    <3>1. own \cap (ToSet(freePages) \cup Range(tree.page)) = {} BY <2>1, <2>3, <2>5
    <3>2. ToSet(freePages) \cap Range(tree.page) = {} BY <2>2, <2>3
    <3>3. ToSet(freePages) \cup Range(tree.page) \cup own = Page BY <2>1, <2>3, <2>5
    <3>4. \A u, v \in holds : u # v => parts[u] \cap parts[v] = {} BY <2>1, <2>4
    <3>5. QED BY <2>2, <2>4, <2>6, <3>1, <3>2, <3>3, <3>4 DEF EachPageOnce, own
  <2>8. QED BY <2>7 DEF PagesPartition, private
<1>2. QED BY PagesInvariant, <1>1, PTL

(* Without overlap, or with no aborts, the scheduler with its cache, table *)
(* and managers implements the prefix store: an admission begins, a batch  *)
(* takes, a result and an abort settle, an eviction drops, and nothing     *)
(* else it does touches a page (match_prefix, cache_req, evict, _allocate).*)
THEOREM SchedulerImplementsHolds ==
  ASSUME ~Overlap \/ CanAbort = {}
  PROVE  Spec => ImplementsPrefixStore
<1>1. SchedInv => pc # "freed twice" BY DEF SchedInv, Faults
<1>2. SchedInv /\ SchedInv' /\ (pc # "freed twice" => PagesInv) /\ [Next]_vars
        => [Abstract!Next]_(Abstract!vars)
  <2>1. SchedInv' => pc' # "freed twice" BY DEF SchedInv, Faults
  <2>2. QED BY <1>1, <2>1, PagesStep
<1>3. Init => Abstract!Init BY PagesInit
<1>4. QED BY SchedulerInvariant, PagesInvariant, <1>2, <1>3, PTL
  DEF Spec, ImplementsPrefixStore, Abstract!Spec

----------------------------------------------------------------------------
(* The sizes and the types of the tree, until a request is freed twice.    *)
TreeInv == Sized(tree) /\ Typed(tree)

LEMMA TreeInit == Init => TreeInv
<1> SUFFICES ASSUME Init PROVE TreeInv OBVIOUS
<1>1. /\ Nodes(tree) = {} /\ Covered(tree) = {}
      /\ tree.ref = <<>> /\ tree.ts = <<>> /\ tree.span = <<>>
      /\ tree.evictable = 0 /\ tree.protected = 0
  BY DEF Init, CacheInit, EmptyTree, Nodes, Covered
<1>2. FreeKeys(tree) = {} /\ HeldKeys(tree) = {} BY <1>1 DEF FreeKeys, HeldKeys
<1>3. Sized(tree) BY <1>1, <1>2, FS_EmptySet DEF Sized
<1>4. Typed(tree) BY <1>1, FS_EmptySet DEF Typed
<1>5. QED BY <1>3, <1>4 DEF TreeInv

(* An admission walks the tree for a key over the blocks.                  *)
LEMMA TriedSized ==
  ASSUME Going, TreeOK, TreeInv, pc = "admit", More, ~Candidate.chunked
  PROVE  WellShaped(Tried, Block) /\ Sized(Tried) /\ Typed(Tried)
<1>1. PICK key : key = MatchKey(Prompt[Candidate.uid]) OBVIOUS
<1>2. key \in Seq(Block)
  <2>1. Candidate.uid \in Uids /\ ~TooLong(Candidate.uid) BY CandidateFacts DEF Pends
  <2>2. QED BY <1>1, <2>1, TriedFacts
<1>3. Tried = Walk(tree, key) BY <1>1 DEF Tried
<1>4. WellShaped(tree, Block) /\ Sized(tree) /\ Typed(tree) BY DEF TreeOK, TreeInv
<1>5. QED BY <1>2, <1>3, <1>4, WalkShape, WalkSized, WalkTyped

(* cache_req of a request that holds resources.                            *)
LEMMA CachedSized ==
  ASSUME TreeOK, TreeInv, holds \subseteq Uids, NEW u \in holds, NEW r,
         r.handle = reqs[u].handle, ReqKey(r) \in Seq(Block),
         NEW finished \in BOOLEAN, tree' = CacheReqTree(r, finished)
  PROVE  TreeInv'
<1>1. r.handle = HandleOf[u] BY DEF HandleOf
<1>2. WellShaped(tree, Block) /\ Counted(tree, holds, HandleOf) /\ Sized(tree) /\ Typed(tree)
  BY DEF TreeOK, TreeInv
<1>3. Sized(CacheReqTree(r, finished)) /\ Typed(CacheReqTree(r, finished))
  BY <1>1, <1>2, CacheReqSizes
<1>4. QED BY <1>3 DEF TreeInv

(* receive_abort frees a request with its result still to come, or one     *)
(* that only waits.                                                        *)
LEMMA AbortSized ==
  ASSUME Going, TreeOK, TreeInv, NEW u \in Uids, ReceiveAbort(u)
  PROVE  TreeInv'
<1>1. CASE ~AbortFrees(u)
  BY <1>1 DEF ReceiveAbort, cacheVars, TreeInv
<1>2. CASE AbortFrees(u)
  <2>1. tree' = CacheReqTree(reqs[u], TRUE)
    BY <1>2 DEF ReceiveAbort, FreeReqResources, CacheReq
  <2>2. u \in holds /\ reqs[u] \in Request /\ reqs[u].cached <= Len(reqs[u].ids)
    BY <1>2, AbortedHolds
  <2>3. ReqKey(reqs[u]) \in Seq(Block)
    <3>1. reqs[u].ids \in Seq(Token) /\ reqs[u].cached \in Nat BY <2>2 DEF Request
    <3>2. QED BY <2>2, <3>1, FirstTokens DEF ReqKey, Block
  <2>4. holds \subseteq Uids BY HeldFacts
  <2>5. QED BY <2>1, <2>2, <2>3, <2>4, CachedSized
<1>3. QED BY <1>1, <1>2

(* A result caches the prompt, or the finished request, or nothing.        *)
LEMMA ResultSized ==
  ASSUME Going, TreeOK, TreeInv, NEW token \in Vocab, ProcessReq(token), pc' = "process"
  PROVE  TreeInv'
<1>1. PICK u : u = Current.uid OBVIOUS
<1>2. PICK r : r = Appended(token) OBVIOUS
<1>3. pc = "process" /\ cursor <= Len(Results.reqs) /\ ~Current.chunked BY DEF ProcessReq
<1>4. /\ u \in Uids /\ reqs[u] \in Request /\ reqs[u].cached <= Len(reqs[u].ids) + 1
      /\ Results.phase = "prefill" => u \in holds
  BY <1>1, <1>3, ResultFacts
<1>5. r.handle = reqs[u].handle /\ ReqKey(r) \in Seq(Block)
  BY <1>1, <1>2, <1>4, AppendedFacts DEF Appended
<1>6. holds \subseteq Uids BY HeldFacts
<1>7. CASE FirstFinish(token)
  <2>1. u \in holds /\ tree' = CacheReqTree(r, TRUE)
    BY <1>1, <1>2, <1>3, <1>7 DEF ProcessReq, FreeReqResources, CacheReq
  <2>2. QED BY <1>5, <1>6, <2>1, CachedSized
<1>8. CASE ~FirstFinish(token) /\ Results.phase = "prefill"
  <2>1. u \in holds /\ tree' = CacheReqTree(r, FALSE)
    BY <1>1, <1>2, <1>4, <1>8 DEF ProcessReq, CacheReq
  <2>2. QED BY <1>5, <1>6, <2>1, CachedSized
<1>9. CASE ~FirstFinish(token) /\ Results.phase # "prefill"
  BY <1>9 DEF ProcessReq, cacheVars, TreeInv
<1>10. QED BY <1>7, <1>8, <1>9

(* Every step of a process that frees nothing twice.                       *)
LEMMA TreeStep ==
  SchedInv /\ TreeInv /\ [Next]_vars /\ pc' # "freed twice" => TreeInv'
<1> SUFFICES ASSUME SchedInv, TreeInv, [Next]_vars, pc' # "freed twice" PROVE TreeInv'
  OBVIOUS
<1>1. CASE UNCHANGED tree BY <1>1 DEF TreeInv
<1>2. CASE Next
  <2>1. Going /\ TreeOK BY <1>2, StepsAreGoing
  <2>2. WellShaped(tree, Block) /\ Sized(tree) /\ Typed(tree) BY <2>1 DEF TreeOK, TreeInv
  <2>3. CASE AdmitNew
    <3>1. /\ pc = "admit" /\ More /\ ~Candidate.chunked
          /\ tree' = LockHandle(Tried, TriedHandle)
      BY <2>3 DEF AdmitNew
    <3>2. WellShaped(Tried, Block) /\ Sized(Tried) /\ Typed(Tried) BY <2>1, <3>1, TriedSized
    <3>3. QED BY <3>1, <3>2, LockSized, LockTyped DEF TreeInv
  <2>4. CASE StopAdmitting
    <3>1. pc = "admit" /\ tree' = IF Refused THEN Tried ELSE tree BY <2>4 DEF StopAdmitting
    <3>2. CASE ~Refused BY <3>1, <3>2 DEF TreeInv
    <3>3. CASE Refused
      <4>1. More /\ ~Candidate.chunked BY <3>3 DEF Refused
      <4>2. Sized(Tried) /\ Typed(Tried) BY <2>1, <3>1, <4>1, TriedSized
      <4>3. QED BY <3>1, <3>3, <4>2 DEF TreeInv
    <3>4. QED BY <3>2, <3>3
  <2>5. CASE EvictForBatch
    <3>1. PICK n \in FreeLeaves(tree) : tree' = RemoveLeaf(tree, n)
      BY <2>5 DEF EvictForBatch, EvictOne, OldestLeaves
    <3>2. n \in Nodes(tree) BY DEF FreeLeaves
    <3>3. QED BY <2>2, <3>1, <3>2, RemoveLeafSized, RemoveLeafTyped DEF TreeInv
  <2>6. ASSUME NEW token \in Vocab, ProcessReq(token) PROVE TreeInv'
    <3>1. pc' = "process" BY <2>6 DEF ProcessReq
    <3>2. QED BY <2>1, <2>6, <3>1, ResultSized
  <2>7. ASSUME NEW u \in Uids, ReceiveAbort(u) PROVE TreeInv' BY <2>1, <2>7, AbortSized
  <2>8. CASE \/ \E u \in Uids : ReceiveUser(u)
             \/ BecomeUrgent \/ StartPrefill \/ SkipPrefill \/ AdmitChunk \/ Forward
             \/ SkipChunk \/ EndIteration \/ EvictFails \/ \E token \in Vocab : ProcessFails(token)
    <3>1. UNCHANGED tree
      BY <2>8 DEF ReceiveUser, BecomeUrgent, StartPrefill, SkipPrefill, AdmitChunk, Forward,
                  AllocatePaged, SkipChunk, EndIteration, EvictFails, ProcessFails, Crash, cacheVars
    <3>2. QED BY <1>1, <3>1
  <2>9. QED BY <1>2, <2>3, <2>4, <2>5, <2>6, <2>7, <2>8 DEF Next, Loop, Environment
<1>3. QED BY <1>1, <1>2 DEF vars, cacheVars

(* The sizes count what is locked and what is free in every state.         *)
LEMMA TreeInvariant == Spec => [](pc # "freed twice" => TreeInv)
<1>1. Init => (pc # "freed twice" => TreeInv) BY TreeInit
<1>2. SchedInv /\ (pc # "freed twice" => TreeInv) /\ [Next]_vars
        => (pc # "freed twice" => TreeInv)'
  <2> SUFFICES ASSUME SchedInv, pc # "freed twice" => TreeInv, [Next]_vars, pc' # "freed twice"
               PROVE  TreeInv'
    OBVIOUS
  <2>1. pc # "freed twice"
    <3>1. CASE UNCHANGED vars BY <3>1 DEF vars, schedVars
    <3>2. CASE Next
      <4>1. Going BY <3>2, StepsAreGoing
      <4>2. QED BY <4>1 DEF Going, Types
    <3>3. QED BY <3>1, <3>2
  <2>2. QED BY <2>1, TreeStep
<1>3. QED BY SchedulerInvariant, <1>1, <1>2, PTL DEF Spec

(* An idle process holds nothing: whoever holds resources runs, waits with *)
(* a chunk, or has a result to come.                                       *)
LEMMA IdleHolds == ASSUME Going, pc = "receive", Idle PROVE holds = {}
<1>1. Fresh = {} BY Receiving DEF Going
<1>2. Late = {}
  <2>1. cursor = 1 /\ inflight.reqs = <<>> BY Receiving DEF Going, Idle, NoBatch
  <2>2. 1..Len(inflight.reqs) = {} BY <2>1
  <2>3. cursor..Len(inflight.reqs) = {} BY <2>1, <2>2
  <2>4. QED BY <2>3 DEF Late, Open
<1>3. running = {} /\ pending = <<>> BY DEF Idle
<1>4. \A u : ~ChunkWaits(u) BY <1>3 DEF ChunkWaits, Waiting
<1>5. QED BY <1>1, <1>2, <1>3, <1>4 DEF Going, HoldsOK

(* Without a holder every cached key is free and every page is cached or   *)
(* in the free list.                                                       *)
LEMMA UnheldPages ==
  ASSUME TreeOK, TreeInv, PagesInv, holds = {}
  PROVE  /\ tree.protected = 0
         /\ Len(freePages) + tree.evictable + tree.protected = NumPages
<1>1. /\ WellShaped(tree, Block) /\ Counted(tree, holds, HandleOf) /\ IsFiniteSet(Covered(tree))
      /\ tree.evictable = Cardinality(FreeKeys(tree)) /\ tree.protected = Cardinality(HeldKeys(tree))
  BY DEF TreeOK, TreeInv, Sized
<1>2. \A q \in Covered(tree) : q \in FreeKeys(tree) /\ q \notin HeldKeys(tree)
  <2>1. ASSUME NEW q \in Covered(tree) PROVE q \in FreeKeys(tree) /\ q \notin HeldKeys(tree)
    <3>1. /\ q \in FreeKeys(tree) <=> \A u \in holds : ~IsPrefix(q, HandleOf[u])
          /\ q \in HeldKeys(tree) <=> \E u \in holds : IsPrefix(q, HandleOf[u])
      BY <1>1, FreeByHandles
    <3>2. QED BY <3>1
  <2>2. QED BY <2>1
<1>3. FreeKeys(tree) = Covered(tree) /\ HeldKeys(tree) = {} BY <1>2 DEF FreeKeys, HeldKeys
<1>4. tree.protected = 0 BY <1>1, <1>3, FS_EmptySet
<1>5. /\ freePages \in Seq(Page) /\ IsInjective(freePages) /\ IsInjective(tree.page)
      /\ tree.page \in [Covered(tree) -> Page]
      /\ \A q \in Covered(tree) : tree.page[q] \notin ToSet(freePages)
  BY PlacesApart DEF PagesInv, PagesRows
<1> DEFINE F == ToSet(freePages)
           K == {tree.page[q] : q \in Covered(tree)}
<1>6. F \cup K = Page
  <2>1. F \cup K \cup UNION {OwnedNow[u] : u \in Uids} = Page
    <3>1. Store!OnePlace BY DEF PagesInv, Store!StoreInv
    <3>2. QED BY <3>1 DEF Store!OnePlace, Store!Keys, OwnedNow, Covered
  <2>2. \A u \in Uids : OwnedNow[u] = {} BY DEF OwnedNow
  <2>3. UNION {OwnedNow[u] : u \in Uids} = {} BY <2>2
  <2>4. QED BY <2>1, <2>3
<1>7. F \cap K = {} BY <1>5
<1>8. IsFiniteSet(F) /\ Cardinality(F) = Len(freePages)
  <2>1. \A i, j \in DOMAIN freePages : freePages[i] = freePages[j] => i = j
    BY <1>5 DEF IsInjective
  <2>2. QED BY <1>5, <2>1, DistinctElements
<1>9. IsFiniteSet(K) /\ Cardinality(K) = Cardinality(Covered(tree))
  <2>1. tree.page \in Bijection(Covered(tree), K)
    BY <1>5 DEF Bijection, Injection, Surjection, IsInjective
  <2>2. ExistsBijection(Covered(tree), K) BY <2>1 DEF ExistsBijection
  <2> HIDE DEF K
  <2>3. QED BY <1>1, <2>2, FS_Bijection
<1>10. Cardinality(Page) = NumPages
  <2>1. 0 \in Int /\ NumPages - 1 \in Int /\ ~(0 > NumPages - 1) /\ NumPages - 1 - 0 + 1 = NumPages
    BY NumPagesAssumption
  <2>2. QED BY <2>1, FS_Interval DEF Page
<1> HIDE DEF F, K
<1>11. Cardinality(F \cup K) = Cardinality(F) + Cardinality(K) - Cardinality(F \cap K)
  BY <1>8, <1>9, FS_Union
<1>12. Cardinality(F \cap K) = 0 BY <1>7, FS_EmptySet
<1>13. Cardinality(K) \in Nat BY <1>9, FS_CardinalityType
<1>14. Len(freePages) \in Nat BY <1>5
<1>15. tree.evictable = Cardinality(K) BY <1>1, <1>3, <1>9
<1>16. NumPages = Len(freePages) + Cardinality(K) - 0 BY <1>6, <1>8, <1>10, <1>11, <1>12
<1>17. PICK k \in Nat, f \in Nat : k = Cardinality(K) /\ f = Len(freePages) BY <1>13, <1>14
<1>18. f + k + 0 = NumPages BY <1>16, <1>17
<1>19. QED BY <1>4, <1>15, <1>17, <1>18

(* Where no request has been freed twice, an idle process has given back   *)
(* everything.                                                             *)
LEMMA IdleUntilFreedTwice == Spec => []IdleIntegrity
<1>1. SchedInv /\ (pc # "freed twice" => PagesInv) /\ (pc # "freed twice" => TreeInv)
        => IdleIntegrity
  <2> SUFFICES ASSUME SchedInv, pc # "freed twice" => PagesInv, pc # "freed twice" => TreeInv,
                      pc = "receive", Idle
               PROVE  /\ holds = {}
                      /\ Len(freePages) + tree.evictable + tree.protected = NumPages
                      /\ tree.protected = 0 /\ Len(freeSlots) = NumSlots
    BY DEF IdleIntegrity
  <2>1. Going /\ RowsOK /\ TreeOK BY DEF SchedInv, Stopped
  <2>2. holds = {} BY <2>1, IdleHolds
  <2>3. Len(freeSlots) + Cardinality(holds) = NumSlots BY <2>1, RowsPartition DEF SlotsPartition
  <2>4. Len(freeSlots) = NumSlots
    <3>1. Cardinality(holds) = 0 BY <2>2, FS_EmptySet
    <3>2. Len(freeSlots) \in Nat BY <2>1 DEF RowsOK
    <3>3. QED BY <2>3, <3>1, <3>2
  <2>5. QED BY <2>1, <2>2, <2>4, UnheldPages
<1>2. QED BY SchedulerInvariant, PagesInvariant, TreeInvariant, <1>1, PTL

(* check_integrity never fails in normal_loop, whatever is aborted, nor in *)
(* overlap_loop without aborts: no request is freed twice, and when the    *)
(* process is idle nothing is held, no cached page is locked, and the free *)
(* pages and the cached ones are all of them, as the free rows are all     *)
(* rows (run_when_idle).  With overlap and aborts it does fail: there a    *)
(* request can be freed twice, where the model stops and the code goes on. *)
THEOREM IdleIntegrityHolds ==
  ASSUME ~Overlap \/ CanAbort = {}
  PROVE  Spec => [](pc # "freed twice" /\ IdleIntegrity)
<1>1. pc \notin {"unlock failed", "freed twice"} /\ SlotsPartition => pc # "freed twice" OBVIOUS
<1>2. QED BY NoFaults, IdleUntilFreedTwice, <1>1, PTL

----------------------------------------------------------------------------
(* Admission keeps its promise: what it lets in can be run to its end.     *)
(* The pending list is in the order of arrival, with the urgent requests   *)
(* in front, and only its first element can be a chunk that waits.         *)
Ordered(s) ==
  \A i, j \in DOMAIN s : i < j => /\ s[i].enq < s[j].enq
                                  /\ s[j].urgent => s[i].urgent
ListOK ==
  /\ Ordered(pending)
  /\ \A i \in DOMAIN pending : pending[i].enq < Cardinality(arrived)
  /\ \A i \in DOMAIN pending : i > Taken /\ pending[i].chunked => i = 1

(* All answers are short ones, or none is: then _reorder_pending lets no   *)
(* request overtake an older one but by its age.                           *)
OneClass ==
  \A u, v \in Uids : OutputLen(u) <= ShortOutput <=> OutputLen(v) <= ShortOutput

LEMMA PendingEntries ==
  ASSUME Going
  PROVE  /\ pending \in Seq(PendingReq) /\ DOMAIN pending = 1..Len(pending)
         /\ Len(pending) \in Nat
         /\ \A i \in DOMAIN pending : /\ i \in 1..Len(pending)
                                      /\ pending[i] \in PendingReq /\ pending[i].enq \in Nat
<1>1. pending \in Seq(PendingReq) BY DEF Going, Types
<1>2. \A i \in DOMAIN pending : i \in 1..Len(pending) /\ pending[i] \in PendingReq BY <1>1
<1>3. \A e \in PendingReq : e.enq \in Nat BY DEF PendingReq
<1>4. QED BY <1>1, <1>2, <1>3

LEMMA ListSame ==
  ASSUME ListOK, pending' = pending, arrived' = arrived, Taken' = Taken
  PROVE  ListOK'
BY DEF ListOK, Ordered

LEMMA ReceiveUserList ==
  ASSUME Going, ListOK, NEW u \in Uids, ReceiveUser(u)
  PROVE  ListOK'
<1> USE DEF Going
<1>1. /\ pc = "receive" /\ pc' = pc /\ u \notin arrived /\ arrived' = arrived \cup {u}
      /\ UNCHANGED batch
  BY DEF ReceiveUser
<1>2. Taken = 0 /\ Taken' = 0 BY <1>1 DEF Taken
<1> DEFINE e == [uid |-> u, urgent |-> FALSE, chunked |-> FALSE, enq |-> Cardinality(arrived)]
<1>3. PICK n \in Nat : n = Cardinality(arrived) /\ Cardinality(arrived') = n + 1
  BY <1>1, FS_CardinalityType, FS_AddElement DEF Types
<1>4. e.chunked = FALSE /\ e.urgent = FALSE /\ e.enq = n BY <1>3
<1>5. pending' = IF TooLong(u) THEN pending ELSE Append(pending, e) BY DEF ReceiveUser
<1> HIDE DEF e
<1>6. /\ pending \in Seq(PendingReq)
      /\ \A i \in DOMAIN pending : i \in 1..Len(pending) /\ pending[i].enq \in Nat
  BY PendingEntries
<1>7. CASE TooLong(u)
  <2>1. pending' = pending BY <1>5, <1>7
  <2>2. \A i \in DOMAIN pending : pending[i].enq \in Nat BY <1>6
  <2>3. \A i \in DOMAIN pending : pending[i].enq < n + 1 BY <1>3, <2>2 DEF ListOK
  <2>4. QED BY <1>2, <1>3, <2>1, <2>3 DEF ListOK, Ordered
<1>8. CASE ~TooLong(u)
  <2>1. \A i \in DOMAIN pending' : \/ i \in DOMAIN pending /\ pending'[i] = pending[i]
                                   \/ i = Len(pending) + 1 /\ pending'[i] = e
    BY <1>5, <1>6, <1>8
  <2>2. \A i \in DOMAIN pending : i \in 1..Len(pending) /\ pending[i].enq \in Nat
    BY <1>6
  <2>3. \A i \in DOMAIN pending : pending[i].enq < n BY <1>3 DEF ListOK
  <2>4. Len(pending) \in Nat BY <1>6
  <2>5. \A i \in DOMAIN pending' : pending'[i].enq < n + 1 BY <1>4, <2>1, <2>2, <2>3
  <2>6. \A i \in DOMAIN pending' : pending'[i].chunked => i = 1
    BY <1>2, <1>4, <2>1, <2>2 DEF ListOK
  <2>7. ASSUME NEW i \in DOMAIN pending', NEW j \in DOMAIN pending', i < j
        PROVE  pending'[i].enq < pending'[j].enq /\ (pending'[j].urgent => pending'[i].urgent)
    <3>1. i \in DOMAIN pending /\ pending'[i] = pending[i] BY <2>1, <2>2, <2>4, <2>7
    <3>2. CASE j \in DOMAIN pending /\ pending'[j] = pending[j]
      BY <2>7, <3>1, <3>2 DEF ListOK, Ordered
    <3>3. CASE j = Len(pending) + 1 /\ pending'[j] = e BY <1>4, <2>3, <3>1, <3>3
    <3>4. QED BY <2>1, <3>2, <3>3
  <2>8. QED BY <1>2, <1>3, <2>5, <2>6, <2>7 DEF ListOK, Ordered
<1>9. QED BY <1>7, <1>8

LEMMA BecomeUrgentList ==
  ASSUME Going, ListOK, BecomeUrgent
  PROVE  ListOK'
<1>1. /\ pc = "receive" /\ pc' = pc /\ UNCHANGED <<arrived, batch>> BY DEF BecomeUrgent
<1>2. Taken' = Taken BY <1>1 DEF Taken
<1>3. PICK k \in 1..Len(pending) :
        /\ ~pending[k].urgent
        /\ \A j \in 1..Len(pending) : ~pending[j].urgent => pending[k].enq <= pending[j].enq
        /\ pending' = [pending EXCEPT ![k].urgent = TRUE]
  BY DEF BecomeUrgent
<1>4. /\ pending \in Seq(PendingReq) /\ DOMAIN pending = 1..Len(pending)
      /\ \A i \in DOMAIN pending : pending[i] \in PendingReq /\ pending[i].enq \in Nat
  BY PendingEntries
<1>5. /\ DOMAIN pending' = DOMAIN pending
      /\ \A i \in DOMAIN pending : /\ pending'[i].enq = pending[i].enq
                                   /\ pending'[i].chunked = pending[i].chunked
                                   /\ pending'[i].urgent = (i = k \/ pending[i].urgent)
  BY <1>3, <1>4 DEF PendingReq
<1>6. \A i \in DOMAIN pending : pending[i].enq \in Nat BY <1>4
<1>7. \A i \in DOMAIN pending : i < k => pending[i].urgent
  BY <1>3, <1>4, <1>6 DEF ListOK, Ordered
<1>8. Ordered(pending') BY <1>4, <1>5, <1>7 DEF ListOK, Ordered
<1>9. QED BY <1>1, <1>2, <1>5, <1>8 DEF ListOK

LEMMA AbortList ==
  ASSUME Going, ListOK, NEW u \in Uids, ReceiveAbort(u)
  PROVE  ListOK'
<1>1. /\ pc = "receive" /\ pc' = pc /\ UNCHANGED <<arrived, batch>> BY DEF ReceiveAbort
<1>2. Taken = 0 /\ Taken' = 0 BY <1>1 DEF Taken
<1>3. pending' = IF Waiting(u) = {} THEN pending ELSE RemoveAt(pending, Min(Waiting(u)))
  BY DEF ReceiveAbort
<1>4. CASE Waiting(u) = {} BY <1>1, <1>2, <1>3, <1>4, ListSame
<1>5. CASE Waiting(u) # {}
  <2>1. /\ pending \in Seq(PendingReq) /\ DOMAIN pending = 1..Len(pending)
        /\ Len(pending) \in Nat
    BY PendingEntries
  <2>2. PICK k \in DOMAIN pending : pending[k].uid = u BY <1>5 DEF Waiting
  <2>3. Waiting(u) = {k} BY <2>2 DEF Waiting, Going, PendingOK
  <2>4. Min({k}) = k BY DEF Min
  <2>5. pending' = RemoveAt(pending, k) BY <1>3, <1>5, <2>3, <2>4
  <2>6. k \in 1..Len(pending) BY <2>1, <2>2
  <2>7. /\ pending' \in Seq(PendingReq) /\ Len(pending') = Len(pending) - 1
        /\ \A i \in 1..(Len(pending) - 1) : pending'[i] = pending[IF i < k THEN i ELSE i + 1]
    BY <2>1, <2>5, <2>6, RemovedAt
  <2>8. DOMAIN pending' = 1..(Len(pending) - 1) BY <2>7
  <2>9. PICK m \in Nat : m = Len(pending) BY <2>1
  <2> DEFINE at(i) == IF i < k THEN i ELSE i + 1
  <2>10. \A i \in DOMAIN pending' : at(i) \in DOMAIN pending /\ pending'[i] = pending[at(i)]
    BY <2>1, <2>6, <2>7, <2>8, <2>9
  <2>11. \A i, j \in DOMAIN pending' : i < j => at(i) < at(j) BY <2>6, <2>8, <2>9
  <2>12. \A i \in DOMAIN pending' : at(i) = 1 => i = 1 BY <2>6, <2>8, <2>9
  <2>13. \A i \in DOMAIN pending : i > 0 BY <2>1, <2>9
  <2> HIDE DEF at
  <2>14. Ordered(pending') BY <2>10, <2>11 DEF ListOK, Ordered
  <2>15. QED BY <1>1, <1>2, <2>10, <2>12, <2>13, <2>14 DEF ListOK
<1>6. QED BY <1>4, <1>5

(* _reorder_pending finds the list in its order, and keeps it.             *)
LEMMA StartPrefillList ==
  ASSUME Going, ListOK, OneClass, StartPrefill
  PROVE  ListOK'
<1>1. /\ pc = "receive" /\ pc' = "admit" /\ arrived' = arrived /\ batch'.reqs = <<>>
      /\ pending' \in Reordered
  BY DEF StartPrefill
<1>2. Taken = 0 /\ Taken' = 0 BY <1>1 DEF Taken
<1> DEFINE D == DOMAIN pending
<1>3. PICK f \in Bijection(D, D) :
        /\ \A i, j \in D : i < j => Before(pending[f[i]], pending[f[j]])
        /\ pending' = [i \in D |-> pending[f[i]]]
  BY <1>1 DEF Reordered
<1>4. /\ D = 1..Len(pending) /\ Len(pending) \in Nat
      /\ \A i \in D : pending[i] \in PendingReq /\ pending[i].enq \in Nat
  BY PendingEntries
<1>5. /\ \A i \in D : f[i] \in D
      /\ \A i, j \in D : f[i] = f[j] => i = j
  BY <1>3 DEF Bijection, Injection, Surjection, IsInjective
<1>6. ASSUME NEW a \in D, NEW b \in D, Before(pending[a], pending[b]) PROVE ~(b < a)
  <2>1. SUFFICES ASSUME b < a PROVE FALSE OBVIOUS
  <2>2. pending[b].enq < pending[a].enq /\ (pending[a].urgent => pending[b].urgent)
    BY <2>1 DEF ListOK, Ordered
  <2>3. pending[a].uid \in Uids /\ pending[b].uid \in Uids BY <1>4 DEF PendingReq
  <2>4. OutputLen(pending[a].uid) <= ShortOutput <=> OutputLen(pending[b].uid) <= ShortOutput
    BY <2>3 DEF OneClass
  <2>5. PICK k, l : k = SortKey(pending[a]) /\ l = SortKey(pending[b]) OBVIOUS
  <2>6. PICK i \in 1..3 : k[i] < l[i] /\ \A j \in 1..(i - 1) : k[j] = l[j]
    BY <1>6, <2>5 DEF Before
  <2>7. /\ k[1] = IF pending[a].urgent THEN 0 ELSE 1
        /\ l[1] = IF pending[b].urgent THEN 0 ELSE 1
        /\ k[2] = IF OutputLen(pending[a].uid) <= ShortOutput THEN 0 ELSE 1
        /\ l[2] = IF OutputLen(pending[b].uid) <= ShortOutput THEN 0 ELSE 1
        /\ k[3] = pending[a].enq /\ l[3] = pending[b].enq
    BY <2>5 DEF SortKey
  <2>8. k[2] = l[2] BY <2>4, <2>7
  <2>9. k[2] \in Nat /\ ~(k[2] < l[2]) BY <2>7, <2>8
  <2>10. ~(k[3] < l[3]) BY <1>4, <2>2, <2>7
  <2>11. i = 1 BY <2>6, <2>9, <2>10
  <2>12. QED BY <2>2, <2>6, <2>7, <2>11
<1>7. ASSUME NEW i \in D, NEW j \in D, i < j PROVE f[i] < f[j]
  <2>1. Before(pending[f[i]], pending[f[j]]) BY <1>3, <1>7
  <2>2. f[i] \in D /\ f[j] \in D /\ i # j BY <1>4, <1>5, <1>7
  <2>3. ~(f[j] < f[i]) /\ f[i] # f[j] BY <1>5, <1>6, <2>1, <2>2
  <2>4. QED BY <1>4, <2>2, <2>3
<1>8. DOMAIN pending' = D /\ \A i \in D : pending'[i] = pending[f[i]] BY <1>3
<1>9. Ordered(pending') BY <1>5, <1>7, <1>8 DEF ListOK, Ordered
<1>10. ASSUME NEW i \in D, pending[f[i]].chunked PROVE i = 1
  <2>1. f[i] \in D /\ f[i] > 0 BY <1>4, <1>5
  <2>2. f[i] = 1 BY <1>2, <1>10, <2>1 DEF ListOK
  <2>3. CASE i > 1
    <3>1. 1 \in D BY <1>4, <2>3
    <3>2. f[1] < f[i] /\ f[1] \in D BY <1>5, <1>7, <2>3, <3>1
    <3>3. QED BY <1>4, <2>2, <3>2
  <2>4. QED BY <1>4, <2>3
<1>11. \A i \in D : pending[f[i]].enq < Cardinality(arrived) BY <1>5 DEF ListOK
<1>12. QED BY <1>1, <1>8, <1>9, <1>10, <1>11 DEF ListOK

(* A request that is admitted stays where it is in the list.               *)
LEMMA AddOneReqList ==
  ASSUME Going, ListOK, pc = "admit", pc' = pc, More, arrived' = arrived,
         NEW u, NEW handle, NEW slot, NEW cached, AddOneReq(u, handle, slot, cached)
  PROVE  ListOK' /\ Taken' = Taken + 1
<1>1. PICK n \in Nat : n = Len(batch.reqs) BY DEF Going, Types, Batch
<1>2. Taken = n /\ Position = n + 1 BY <1>1 DEF Taken, Position
<1>3. Position \in DOMAIN pending /\ Candidate \in PendingReq
  <2>1. Len(pending) \in Nat /\ DOMAIN pending = 1..Len(pending)
        /\ \A i \in DOMAIN pending : pending[i] \in PendingReq
    BY PendingEntries
  <2>2. Position \in DOMAIN pending BY <1>2, <2>1 DEF More
  <2>3. QED BY <2>1, <2>2 DEF Candidate
<1>4. PICK b : pending' = [pending EXCEPT ![Position] = [Candidate EXCEPT !.chunked = b]]
  BY DEF AddOneReq
<1>5. Len(batch.reqs') = n + 1
  <2>1. batch.reqs \in Seq(BatchEntry) /\ batch \in Batch BY DEF Going, Types, Batch
  <2>2. \E b2 : batch' = [batch EXCEPT !.reqs = Append(@, Entry(u, b2))] BY DEF AddOneReq
  <2>3. PICK e : batch' = [batch EXCEPT !.reqs = Append(@, e)] BY <2>2
  <2>4. batch'.reqs = Append(batch.reqs, e) BY <2>1, <2>3 DEF Batch
  <2>5. QED BY <1>1, <2>1, <2>4
<1>6. Taken' = n + 1 BY <1>5 DEF Taken
<1>7. /\ DOMAIN pending' = DOMAIN pending
      /\ \A i \in DOMAIN pending : /\ pending'[i].enq = pending[i].enq
                                   /\ pending'[i].urgent = pending[i].urgent
                                   /\ i # Position => pending'[i] = pending[i]
  BY <1>3, <1>4 DEF PendingReq, Candidate
<1>8. DOMAIN pending = 1..Len(pending) /\ Len(pending) \in Nat BY PendingEntries
<1>9. \A i \in DOMAIN pending : i > n + 1 => i > n /\ i # Position BY <1>2, <1>8
<1>10. QED BY <1>2, <1>6, <1>7, <1>9 DEF ListOK, Ordered

(* What admission leaves of the list.                                      *)
LEMMA StopAdmittingList ==
  ASSUME Going, ListOK, StopAdmitting
  PROVE  ListOK'
<1>1. pc = "admit" /\ arrived' = arrived BY DEF StopAdmitting
<1>2. PICK n \in Nat : n = Len(batch.reqs) BY DEF Going, Types, Batch
<1>3. Taken = n BY <1>1, <1>2 DEF Taken
<1>4. CASE batch.reqs = <<>>
  <2>1. ScheduleDecode /\ pending' = pending BY <1>4 DEF StopAdmitting
  <2>2. pc' # "admit" BY <2>1 DEF ScheduleDecode
  <2>3. Taken = 0 /\ Taken' = 0 BY <1>2, <1>3, <1>4, <2>2 DEF Taken
  <2>4. QED BY <1>1, <2>1, <2>3, ListSame
<1>5. CASE batch.reqs # <<>>
  <2>1. /\ pending' = adder.chunks \o SubSeq(pending, Position, Len(pending))
        /\ pc' = "allocate"
    BY <1>5 DEF StopAdmitting
  <2>2. PICK d \in Nat : Shortened(d, n) BY <1>1, <1>2, <2>1, LeftPending
  <2>3. Taken' = 0 BY <2>1 DEF Taken
  <2>4. /\ DOMAIN pending' = 1..(Len(pending) - d)
        /\ \A i \in DOMAIN pending' : i + d \in DOMAIN pending /\ pending'[i] = pending[i + d]
        /\ \A i \in 1..n : pending[i].chunked => d = n - 1 /\ i = n
    BY <2>2 DEF Shortened
  <2>5. Len(pending) \in Nat BY PendingEntries
  <2>6. \A i \in DOMAIN pending' : i \in Nat /\ i > 0 BY <2>4, <2>5
  <2>7. Ordered(pending')
    <3>1. \A i, j \in DOMAIN pending' : i < j => i + d < j + d BY <2>6
    <3>2. QED BY <2>4, <3>1 DEF ListOK, Ordered
  <2>8. ASSUME NEW i \in DOMAIN pending', pending'[i].chunked PROVE i = 1
    <3>1. i + d \in DOMAIN pending /\ pending[i + d].chunked BY <2>4, <2>8
    <3>2. CASE i + d > n
      <4>1. i + d = 1 BY <1>3, <3>1, <3>2 DEF ListOK
      <4>2. QED BY <2>6, <4>1
    <3>3. CASE ~(i + d > n)
      <4>1. i + d \in 1..n BY <2>6, <3>3
      <4>2. d = n - 1 /\ i + d = n BY <2>4, <3>1, <4>1
      <4>3. QED BY <2>6, <4>2
    <3>4. QED BY <3>2, <3>3
  <2>9. QED BY <1>1, <2>4, <2>7, <2>8 DEF ListOK
<1>6. QED BY <1>4, <1>5

(* Every step keeps the order.                                             *)
LEMMA ListStep ==
  ASSUME Going, ListOK, OneClass, Next
  PROVE  ListOK'
<1>1. \A u \in Uids : ReceiveUser(u) => ListOK' BY ReceiveUserList
<1>2. \A u \in Uids : ReceiveAbort(u) => ListOK' BY AbortList
<1>3. CASE AdmitChunk BY <1>3, AddOneReqList DEF AdmitChunk
<1>4. CASE AdmitNew BY <1>4, AddOneReqList DEF AdmitNew
<1>5. CASE \/ SkipPrefill \/ EvictForBatch \/ EvictFails \/ Forward \/ SkipChunk \/ EndIteration
           \/ \E token \in Vocab : ProcessReq(token) \/ ProcessFails(token)
  <2>1. /\ pending' = pending /\ arrived' = arrived
        /\ pc # "admit" /\ pc' # "admit"
    BY <1>5 DEF SkipPrefill, ScheduleDecode, EvictForBatch, EvictFails, Forward, SkipChunk,
                EndIteration, ProcessReq, ProcessFails, Crash, schedVars
  <2>2. QED BY <2>1, ListSame DEF Taken
<1>6. QED BY <1>1, <1>2, <1>3, <1>4, <1>5, BecomeUrgentList, StartPrefillList, StopAdmittingList
          DEF Next, Loop, Environment

----------------------------------------------------------------------------
(* A request that holds resources has computed less than the whole of its  *)
(* prompt and answer, which max_seq_len bounds.                            *)
LEMMA FullLengths ==
  ASSUME NEW u \in Uids, ~TooLong(u)
  PROVE  /\ FullLength(u) \in Nat \ {0} /\ FullLength(u) - 1 \in Nat
         /\ Len(Prompt[u]) \in Nat \ {0} /\ OutputLen(u) \in Nat \ {0}
         /\ Len(Prompt[u]) <= FullLength(u) - 1
         /\ FullLength(u) = Len(Prompt[u]) + OutputLen(u)
         /\ FullLength(u) <= MaxSeqLen /\ MaxSeqLen \in Nat
<1>1. /\ Len(Prompt[u]) \in Nat \ {0} /\ OutputLen(u) \in Nat \ {0}
      /\ MaxTokens[u] \in Int /\ MaxSeqLen \in Nat
  BY RequestFacts, RequestAssumption, BudgetAssumption
<1>2. PICK a \in Int : a = MaxTokens[u] BY <1>1
<1>3. PICK b \in Int : b = MaxSeqLen - Len(Prompt[u])
  <2>1. MaxSeqLen - Len(Prompt[u]) \in Int BY <1>1
  <2>2. QED BY <2>1
<1>4. OutputLen(u) = Min({a, b}) BY <1>2, <1>3 DEF OutputLen
<1>5. OutputLen(u) <= b BY <1>4, MinOfTwo
<1>6. QED BY <1>1, <1>3, <1>5 DEF FullLength

LEMMA HoldLengths ==
  ASSUME Going, NEW u \in holds
  PROVE  /\ u \in Uids /\ ~TooLong(u) /\ reqs[u] \in Request
         /\ reqs[u].cached \in Nat /\ reqs[u].device \in Nat
         /\ reqs[u].cached <= FullLength(u) - 1
<1> USE DEF Going
<1>1. u \in Uids /\ reqs[u] \in Request BY HeldFacts
<1>2. reqs[u].cached \in Nat /\ reqs[u].device \in Nat /\ reqs[u].maxDevice \in Nat
  BY <1>1 DEF Request
<1>3. ~TooLong(u) /\ (u \in running \cup Late \cup Fresh \/ ChunkWaits(u)) BY DEF HoldsOK
<1>4. /\ Len(Prompt[u]) \in Nat /\ FullLength(u) \in Nat /\ Len(Prompt[u]) <= FullLength(u) - 1
  BY <1>1, <1>3, FullLengths
<1>5. CASE Prefilled(u)
  <2>1. DecodeLengths(u) BY <1>1, <1>5 DEF LengthsOK
  <2>2. reqs[u].cached = reqs[u].device - 1 /\ reqs[u].device <= FullLength(u)
    BY <2>1 DEF DecodeLengths
  <2>3. reqs[u].cached <= FullLength(u) - 1 BY <1>2, <1>4, <2>2
  <2>4. QED BY <1>1, <1>2, <1>3, <2>3
<1>6. CASE Begun(u)
  <2>1. BegunLengths(u) BY <1>1, <1>6 DEF LengthsOK
  <2>2. reqs[u].cached < reqs[u].device /\ reqs[u].device <= Len(Prompt[u])
    BY <1>2, <1>4, <2>1 DEF BegunLengths
  <2>3. QED BY <1>1, <1>2, <1>3, <1>4, <2>2
<1>7. CASE ChunkWaits(u) /\ ~Begun(u)
  <2>1. ChunkLengths(u) BY <1>1, <1>7 DEF LengthsOK
  <2>2. QED BY <1>1, <1>2, <1>3, <1>4, <2>1 DEF ChunkLengths
<1>8. CASE u \in Fresh
  <2>1. PICK i : i \in 1..Len(batch.reqs) /\ batch.reqs[i].uid = u
    <3>1. cursor \in Nat \ {0} /\ Len(batch.reqs) \in Nat BY DEF Types, Batch
    <3>2. QED BY <1>8, <3>1 DEF Fresh, Open
  <2>2. u \in InBatch(batch) BY <2>1 DEF InBatch
  <2>3. batch.phase # "none"
    <3>1. batch.phase = "none" => Len(batch.reqs) = 0 BY DEF Phases, BatchOK
    <3>2. QED BY <2>1, <3>1
  <2>4. batch.phase \in {"prefill", "decode"} BY <2>3 DEF Types, Batch
  <2>5. pc # "receive" BY <1>8, Receiving
  <2>6. pc \in {"admit", "allocate", "process"} BY <2>5 DEF Types
  <2>7. Prefilled(u) \/ Begun(u) BY <1>8, <2>2, <2>4, <2>6 DEF Prefilled, Begun
  <2>8. QED BY <1>5, <1>6, <2>7
<1>9. CASE u \in running \cup Late BY <1>5, <1>9 DEF Prefilled
<1>10. QED BY <1>3, <1>6, <1>7, <1>8, <1>9

(* The lengths are numbers, in the next state too.                         *)
HeldLengthsOK == \A u \in holds : FullLength(u) \in Int /\ reqs[u].cached \in Int

LEMMA HeldLengths == Going => HeldLengthsOK
BY HoldLengths, FullLengths DEF HeldLengthsOK

LEMMA HeldLengthsNext == Going' => HeldLengthsOK'
BY HeldLengths, PTL

(* The pages a request that holds resources may still ask for: until all   *)
(* but its last token is computed.                                         *)
NeedOf(u) == PagesFor(FullLength(u) - 1) - PagesFor(reqs[u].cached)
Needs(us) == [u \in us |-> NeedOf(u)]
Needed(us) == Cardinality(Units(Needs(us), us))

(* These needs can be counted.                                             *)
Countable(us) ==
  /\ IsFiniteSet(us) /\ Needs(us) \in [us -> 0..PagesFor(MaxSeqLen)]
  /\ Needed(us) \in Nat
NeedsOK == /\ PagesFor(MaxSeqLen) \in Nat
           /\ IsFiniteSet(holds) /\ \A us \in SUBSET holds : Countable(us)

LEMMA NeedRange ==
  ASSUME Going, NEW u \in holds
  PROVE  /\ NeedOf(u) \in 0..PagesFor(MaxSeqLen) /\ NeedOf(u) \in Nat
         /\ PagesFor(MaxSeqLen) \in Nat
<1>1. /\ u \in Uids /\ ~TooLong(u) /\ reqs[u].cached \in Nat
      /\ reqs[u].cached <= FullLength(u) - 1
  BY HoldLengths
<1>2. FullLength(u) - 1 \in Nat /\ FullLength(u) - 1 <= MaxSeqLen /\ MaxSeqLen \in Nat
  BY <1>1, FullLengths
<1>3. PICK n \in Nat : n = FullLength(u) - 1 BY <1>2
<1>4. PICK m \in Nat : m = reqs[u].cached BY <1>1
<1>5. n <= MaxSeqLen /\ m <= n BY <1>1, <1>2, <1>3, <1>4
<1>6. PagesFor(m) <= PagesFor(n) /\ PagesFor(n) <= PagesFor(MaxSeqLen)
  BY <1>2, <1>5, PagesForOrder
<1>7. PagesFor(m) \in Nat /\ PagesFor(n) \in Nat /\ PagesFor(MaxSeqLen) \in Nat
  BY <1>2, PagesForTokens
<1>8. NeedOf(u) = PagesFor(n) - PagesFor(m) BY <1>3, <1>4 DEF NeedOf
<1>9. QED BY <1>6, <1>7, <1>8

LEMMA NeedsCounted == Going => NeedsOK
<1> SUFFICES ASSUME Going PROVE NeedsOK OBVIOUS
<1>1. PagesFor(MaxSeqLen) \in Nat BY PagesForTokens, BudgetAssumption
<1>2. IsFiniteSet(holds) BY FS_Subset DEF Going, Types
<1>3. ASSUME NEW us \in SUBSET holds PROVE Countable(us)
  <2>1. IsFiniteSet(us) BY <1>2, FS_Subset
  <2>2. Needs(us) \in [us -> 0..PagesFor(MaxSeqLen)] BY NeedRange DEF Needs
  <2>3. Cardinality(Units(Needs(us), us)) \in Nat BY <1>1, <2>1, <2>2, UnitsFinite
  <2>4. QED BY <2>1, <2>2, <2>3 DEF Countable, Needed
<1>4. QED BY <1>1, <1>2, <1>3 DEF NeedsOK

LEMMA NeedsCountedNext == Going' => NeedsOK'
BY NeedsCounted, PTL

(* The pool of pages a batch can be given, and what it must suffice for.   *)
Pool == tree.evictable + Len(freePages)
PoolTyped == tree.evictable \in Nat /\ Len(freePages) \in Nat /\ Pool \in Nat
PoolOK == Needed(holds) <= Pool

LEMMA PoolIsTyped == PagesRows /\ TreeInv => PoolTyped
<1> SUFFICES ASSUME PagesRows, TreeInv PROVE PoolTyped OBVIOUS
<1>1. FreeKeys(tree) \in SUBSET Covered(tree) BY DEF FreeKeys
<1>2. IsFiniteSet(Covered(tree)) /\ tree.evictable = Cardinality(FreeKeys(tree))
  BY DEF TreeInv, Sized
<1>3. tree.evictable \in Nat BY <1>1, <1>2, FS_Subset, FS_CardinalityType
<1>4. Len(freePages) \in Nat BY DEF PagesRows
<1>5. QED BY <1>3, <1>4 DEF PoolTyped, Pool

LEMMA PoolIsTypedNext == PagesRows' /\ TreeInv' => PoolTyped'
BY PoolIsTyped, PTL

(* Nothing more is needed when nobody new holds resources and nobody who   *)
(* does has lost what it had computed.                                     *)
SameCached(us) == \A u \in us : reqs'[u].cached = reqs[u].cached

LEMMA NeededPart ==
  ASSUME NeedsOK, NEW S \in SUBSET holds, NEW T, T \subseteq S, NEW w, w = Needs(T)',
         SameCached(T)
  PROVE  Cardinality(Units(w, T)) \in Nat /\ Cardinality(Units(w, T)) <= Needed(S)
<1>1. PICK v : v = Needs(S) OBVIOUS
<1>2. PICK n \in Nat : n = PagesFor(MaxSeqLen) BY DEF NeedsOK
<1>3. /\ IsFiniteSet(S) /\ v \in [S -> 0..n] /\ Needed(S) = Cardinality(Units(v, S))
  BY <1>1, <1>2 DEF NeedsOK, Countable, Needed
<1>4. \A u \in T : v[u] = w[u] BY <1>1 DEF Needs, NeedOf, SameCached
<1>5. Units(v, T) = Units(w, T) BY <1>4, UnitsAgree
<1>6. Cardinality(Units(v, T)) \in Nat /\ Cardinality(Units(v, T)) <= Cardinality(Units(v, S))
  BY <1>3, UnitsPart
<1>7. QED BY <1>3, <1>5, <1>6

LEMMA PoolKept ==
  ASSUME NeedsOK, PoolTyped, PoolTyped', PoolOK, holds' \subseteq holds, SameCached(holds'),
         Pool <= Pool'
  PROVE  PoolOK'
<1>1. PICK T : T = holds' OBVIOUS
<1>2. PICK w : w = Needs(T)' OBVIOUS
<1>3. Cardinality(Units(w, T)) \in Nat /\ Cardinality(Units(w, T)) <= Needed(holds)
  BY <1>1, <1>2, NeededPart
<1>4. Needed(holds)' = Cardinality(Units(w, T)) BY <1>1, <1>2 DEF Needed, Needs, NeedOf
<1>5. Needed(holds) \in Nat BY DEF NeedsOK, Countable
<1>6. PICK a \in Nat, b \in Nat : a = Pool /\ b = Pool' BY DEF PoolTyped
<1>7. QED BY <1>3, <1>4, <1>5, <1>6 DEF PoolOK

----------------------------------------------------------------------------
(* The invariants of the earlier sections, as they hold while the process  *)
(* runs.                                                                   *)
Sound == Going /\ RowsOK /\ TreeOK /\ PagesInv /\ TreeInv

LEMMA SoundTypes == Sound => NeedsOK /\ PoolTyped
BY NeedsCounted, PoolIsTyped DEF Sound, PagesInv

LEMMA SoundTypesNext == Sound' => NeedsOK' /\ PoolTyped'
BY SoundTypes, PTL

LEMMA PoolStays ==
  ASSUME Sound, Sound', PoolOK, holds' \subseteq holds, SameCached(holds'), Pool <= Pool'
  PROVE  PoolOK'
BY SoundTypes, SoundTypesNext, PoolKept

(* cache_req never makes the pool smaller.                                 *)
LEMMA RequestPool ==
  ASSUME Sound, Sound', NEW u \in holds, NEW r \in Request, r.slot = reqs[u].slot,
         r.handle = reqs[u].handle, r.cached = reqs[u].cached, IsPrefix(reqs[u].ids, r.ids),
         r.cached <= Len(r.ids), NEW finished \in BOOLEAN, CacheReq(r, finished)
  PROVE  Pool <= Pool'
<1>1. /\ PagesRows /\ WellShaped(tree, Block) /\ Counted(tree, holds, HandleOf)
      /\ Sized(tree) /\ Typed(tree) /\ holds \subseteq Uids
      /\ freePages \in Seq(Page) /\ pageTable \in [Slot -> Seq(Page)]
  BY DEF Sound, PagesInv, PagesRows, TreeOK, TreeInv
<1>2. Cacheable(r, Block) BY <1>1, RequestCacheable DEF Sound
<1>3. /\ ReqKey(r) \in Seq(Block) /\ r.handle \in Seq(Block) /\ IsPrefix(r.handle, ReqKey(r))
  BY <1>2 DEF Cacheable
<1>4. r.handle = HandleOf[u] BY <1>1 DEF HandleOf
<1>5. PoolMoves(r, finished) BY <1>1, <1>2, <1>3, <1>4, PoolOfRequest
<1>6. PICK h \in Nat, m \in Nat, k \in Nat, p \in Nat :
        /\ h <= m /\ m <= k /\ k <= p /\ p = PagesFor(r.cached)
        /\ Len(freePages') = Len(freePages) + (m - h) + IF finished THEN p - k ELSE 0
        /\ tree'.evictable + (IF finished THEN 0 ELSE k - h) >= tree.evictable + (k - m)
  BY <1>5 DEF PoolMoves
<1>7. PoolTyped /\ PoolTyped' BY SoundTypes, SoundTypesNext
<1>8. PICK a \in Nat, b \in Nat, c \in Nat, d \in Nat :
        a = tree.evictable /\ b = Len(freePages) /\ c = tree'.evictable /\ d = Len(freePages')
  BY <1>7 DEF PoolTyped
<1>9. CASE finished
  <2>1. d = b + (m - h) + (p - k) /\ c >= a + (k - m) BY <1>6, <1>8, <1>9
  <2>2. a + b <= c + d BY <1>6, <2>1
  <2>3. QED BY <1>8, <2>2 DEF Pool
<1>10. CASE ~finished
  <2>1. d = b + (m - h) /\ c + (k - h) >= a + (k - m) BY <1>6, <1>8, <1>10
  <2>2. a + b <= c + d BY <1>6, <2>1
  <2>3. QED BY <1>8, <2>2 DEF Pool
<1>11. QED BY <1>9, <1>10

LEMMA SamePool ==
  ASSUME Sound, tree'.evictable = tree.evictable, freePages' = freePages
  PROVE  Pool <= Pool'
<1>1. Pool \in Nat BY SoundTypes DEF PoolTyped
<1>2. Pool' = Pool BY DEF Pool
<1>3. QED BY <1>1, <1>2

(* An abort gives pages back, or nothing changes.                          *)
LEMMA AbortPool ==
  ASSUME Sound, Sound', PoolOK, NEW u \in Uids, ReceiveAbort(u)
  PROVE  PoolOK'
<1>1. reqs' = reqs BY DEF ReceiveAbort
<1>2. CASE ~AbortFrees(u)
  <2>1. UNCHANGED <<freePages, holds, tree>> BY <1>2 DEF ReceiveAbort, cacheVars
  <2>2. holds' \subseteq holds /\ SameCached(holds') BY <1>1, <2>1 DEF SameCached
  <2>3. Pool <= Pool' BY <2>1, SamePool
  <2>4. QED BY <2>2, <2>3, PoolStays
<1>3. CASE AbortFrees(u)
  <2>1. u \in holds /\ reqs[u] \in Request /\ reqs[u].cached <= Len(reqs[u].ids)
    BY <1>3, AbortedHolds DEF Sound
  <2>2. CacheReq(reqs[u], TRUE) /\ holds' = holds \ {u}
    BY <1>3 DEF ReceiveAbort, FreeReqResources
  <2>3. PICK r \in Request : r = reqs[u] BY <2>1
  <2>4. IsPrefix(reqs[u].ids, r.ids)
    <3>1. r.ids \in Seq(Token) BY DEF Request
    <3>2. QED BY <2>3, <3>1, PrefixReflexive
  <2>5. /\ r.slot = reqs[u].slot /\ r.handle = reqs[u].handle /\ r.cached = reqs[u].cached
        /\ r.cached <= Len(r.ids) /\ CacheReq(r, TRUE)
    BY <2>1, <2>2, <2>3
  <2>6. Pool <= Pool' BY <2>1, <2>4, <2>5, RequestPool
  <2>7. holds' \subseteq holds /\ SameCached(holds') BY <1>1, <2>2 DEF SameCached
  <2>8. QED BY <2>6, <2>7, PoolStays
<1>4. QED BY <1>2, <1>3

(* A result moves pages between a request, the tree and the free list.     *)
LEMMA ResultPool ==
  ASSUME Sound, Sound', PoolOK, NEW token \in Vocab, ProcessReq(token), pc' = "process"
  PROVE  PoolOK'
<1>1. PICK u : u = Current.uid OBVIOUS
<1>2. PICK r : r = Appended(token) OBVIOUS
<1>3. Going /\ pc = "process" /\ cursor <= Len(Results.reqs) /\ ~Current.chunked
  BY DEF ProcessReq, Sound
<1>4. /\ u \in Uids /\ reqs[u] \in Request /\ reqs[u].cached <= Len(reqs[u].ids) + 1
      /\ Results.phase = "prefill" => u \in holds
  BY <1>1, <1>3, ResultFacts
<1>5. /\ r \in Request /\ r.slot = reqs[u].slot /\ r.cached = reqs[u].cached
      /\ r.handle = reqs[u].handle
      /\ IsPrefix(reqs[u].ids, r.ids) /\ r.cached <= Len(r.ids)
  <2>1. PICK o \in Request : o = reqs[u] BY <1>4
  <2>2. r = [o EXCEPT !.ids = Append(o.ids, token)] BY <1>1, <1>2, <2>1 DEF Appended
  <2>3. o.cached <= Len(o.ids) + 1 BY <1>4, <2>1
  <2>4. Longer(o, r, token) /\ r.handle = o.handle BY <2>2, <2>3, AppendedFacts
  <2>5. /\ r \in Request /\ r.slot = o.slot /\ r.cached = o.cached /\ IsPrefix(o.ids, r.ids)
        /\ Len(r.ids) = Len(o.ids) + 1
    BY <2>4, LongerFacts
  <2>6. QED BY <2>1, <2>3, <2>4, <2>5
<1>6. /\ holds' \subseteq holds /\ SameCached(holds')
  <2>1. holds \subseteq Uids BY <1>3, HeldFacts
  <2>2. /\ /\ pc = "process" /\ pc' = "process" /\ cursor <= Len(Results.reqs) /\ ~Current.chunked
           /\ cursor' = cursor + 1
           /\ UNCHANGED <<arrived, aborted, pending, adder, batch, inflight, finishedReqs, streak>>
        /\ /\ reqs' \in [Uids -> Request \cup {None}] /\ Longer(reqs[u], reqs'[u], token)
           /\ \A v \in Uids : v # u => reqs'[v] = reqs[v]
        /\ /\ replies' \in [Uids -> Seq(Reply)]
           /\ replies'[u] = Append(replies[u], [eos |-> token = Eos, finished |-> Finished(token)])
           /\ \A v \in Uids : v # u => replies'[v] = replies[v]
        /\ Ends(u) \/ Runs(u, token) \/ GoesOn(u, token)
    BY <1>1, <1>3, ProcessReqFacts
  <2>3. holds' \subseteq holds BY <2>2 DEF Ends, Runs, GoesOn
  <2>4. \A v \in Uids : reqs'[v].cached = reqs[v].cached BY <2>2 DEF Longer
  <2>5. QED BY <2>1, <2>3, <2>4 DEF SameCached
<1>7. CASE FirstFinish(token)
  <2>1. u \in holds /\ CacheReq(r, TRUE)
    BY <1>1, <1>2, <1>3, <1>7 DEF ProcessReq, FreeReqResources
  <2>2. Pool <= Pool' BY <1>5, <2>1, RequestPool
  <2>3. QED BY <1>6, <2>2, PoolStays
<1>8. CASE ~FirstFinish(token) /\ Results.phase = "prefill"
  <2>1. u \in holds /\ CacheReq(r, FALSE)
    BY <1>1, <1>2, <1>4, <1>8 DEF ProcessReq
  <2>2. Pool <= Pool' BY <1>5, <2>1, RequestPool
  <2>3. QED BY <1>6, <2>2, PoolStays
<1>9. CASE ~FirstFinish(token) /\ Results.phase # "prefill"
  <2>1. UNCHANGED <<tree, freePages>> BY <1>9 DEF ProcessReq, cacheVars
  <2>2. Pool <= Pool' BY <2>1, SamePool
  <2>3. QED BY <1>6, <2>2, PoolStays
<1>10. QED BY <1>7, <1>8, <1>9

(* Eviction moves pages from the tree to the free list.                    *)
LEMMA EvictPoolOK ==
  ASSUME Sound, Sound', PoolOK, EvictForBatch
  PROVE  PoolOK'
<1>1. holds' = holds /\ reqs' = reqs /\ EvictOne(BatchReqs) BY DEF EvictForBatch, schedVars
<1>2. /\ WellShaped(tree, Block) /\ Sized(tree) /\ freePages \in Seq(Page)
      /\ tree.page \in [Covered(tree) -> Page]
  BY DEF Sound, PagesInv, PagesRows, TreeOK, TreeInv
<1>3. PICK k \in Nat : /\ tree'.evictable = tree.evictable - k
                       /\ Len(freePages') = Len(freePages) + k
  BY <1>1, <1>2, EvictPool
<1>4. tree.evictable \in Nat /\ Len(freePages) \in Nat /\ Pool \in Nat
  BY SoundTypes DEF PoolTyped
<1>5. PICK a \in Nat, b \in Nat : a = tree.evictable /\ b = Len(freePages) BY <1>4
<1>6. Pool = a + b /\ Pool' = (a - k) + (b + k) BY <1>3, <1>5 DEF Pool
<1>7. Pool <= Pool' BY <1>6
<1>8. QED BY <1>1, <1>7, PoolStays DEF SameCached

(* The steps that leave the pool, the holders and what they have computed. *)
LEMMA QuietPool ==
  ASSUME Sound, Sound', PoolOK,
         \/ \E u \in Uids : ReceiveUser(u)
         \/ BecomeUrgent \/ StartPrefill \/ SkipPrefill \/ SkipChunk \/ EndIteration
         \/ AdmitChunk \/ StopAdmitting
  PROVE  PoolOK'
<1>1. holds' = holds /\ holds \subseteq Uids
  <2>1. holds' = holds
    BY DEF ReceiveUser, BecomeUrgent, StartPrefill, SkipPrefill, SkipChunk, EndIteration,
           AdmitChunk, StopAdmitting
  <2>2. QED BY <2>1, HeldFacts DEF Sound
<1>2. tree'.evictable = tree.evictable /\ freePages' = freePages
  <2>1. CASE ~StopAdmitting
    BY <2>1 DEF ReceiveUser, BecomeUrgent, StartPrefill, SkipPrefill, SkipChunk, EndIteration,
                AdmitChunk, cacheVars
  <2>2. CASE StopAdmitting
    <3>1. /\ pc = "admit" /\ freePages' = freePages
          /\ tree' = IF Refused THEN Tried ELSE tree
      BY <2>2 DEF StopAdmitting
    <3>2. CASE ~Refused BY <3>1, <3>2
    <3>3. CASE Refused
      <4>1. More /\ ~Candidate.chunked BY <3>3 DEF Refused
      <4>2. /\ Candidate \in PendingReq /\ Candidate.uid \in Uids /\ Pends(Candidate)
        BY <3>1, <4>1, CandidateFacts DEF Sound
      <4>3. MatchKey(Prompt[Candidate.uid]) \in Seq(Block)
        BY <4>2, TriedFacts DEF Pends
      <4>4. Tried.evictable = tree.evictable
        BY <4>3, WalkSized DEF Tried, Sound, TreeOK, TreeInv
      <4>5. QED BY <3>1, <3>3, <4>4
    <3>4. QED BY <3>2, <3>3
  <2>3. QED BY <2>1, <2>2
<1>3. SameCached(holds)
  <2>1. CASE AdmitChunk
    <3>1. /\ pc = "admit" /\ More
          /\ AddOneReq(Candidate.uid, reqs[Candidate.uid].handle, reqs[Candidate.uid].slot,
                       reqs[Candidate.uid].cached)
      BY <2>1 DEF AdmitChunk
    <3>2. PICK u : u = Candidate.uid OBVIOUS
    <3>3. PICK i, d, m :
            reqs' = [reqs EXCEPT ![u] =
                       [ids |-> i, slot |-> reqs[u].slot, handle |-> reqs[u].handle,
                        cached |-> reqs[u].cached, device |-> d, maxDevice |-> m]]
      BY <3>1, <3>2 DEF AddOneReq
    <3>4. reqs \in [Uids -> Request \cup {None}] BY HeldFacts DEF Sound
    <3>5. \A v \in Uids : reqs'[v].cached = reqs[v].cached BY <3>3, <3>4
    <3>6. QED BY <1>1, <3>5 DEF SameCached
  <2>2. CASE EndIteration
    <3>1. \A v \in holds : reqs'[v] = reqs[v] BY <1>1, <2>2 DEF EndIteration
    <3>2. QED BY <3>1 DEF SameCached
  <2>3. CASE ~AdmitChunk /\ ~EndIteration
    <3>1. reqs' = reqs
      BY <2>3 DEF ReceiveUser, BecomeUrgent, StartPrefill, SkipPrefill, SkipChunk, StopAdmitting
    <3>2. QED BY <3>1 DEF SameCached
  <2>4. QED BY <2>1, <2>2, <2>3
<1>4. Pool <= Pool' BY <1>2, SamePool
<1>5. SameCached(holds') BY <1>1, <1>3
<1>6. QED BY <1>1, <1>4, <1>5, PoolStays

----------------------------------------------------------------------------
(* A request in the batch that is run does not compute its last token.     *)
LEMMA BatchLengths ==
  ASSUME Going, pc = "allocate", NEW u \in InBatch(batch)
  PROVE  u \in Uids /\ reqs[u].device <= FullLength(u) - 1
<1> USE DEF Going
<1>1. PICK i \in 1..Len(batch.reqs) : batch.reqs[i].uid = u BY DEF InBatch
<1>2. batch \in Batch /\ batch.reqs \in Seq(BatchEntry) BY DEF Types, Batch
<1>3. batch.reqs[i] \in BatchEntry BY <1>1, <1>2
<1>4. u \in Uids BY <1>1, <1>3 DEF BatchEntry
<1>5. cursor = 1 BY DEF Phases
<1>6. batch.phase # "none"
  <2>1. batch.phase = "none" => Len(batch.reqs) = 0 BY DEF Phases, BatchOK
  <2>2. QED BY <1>1, <2>1
<1>7. CASE batch.phase = "decode"
  <2>1. ~batch.reqs[i].chunked BY <1>1, <1>2, <1>7 DEF Phases, BatchOK
  <2>2. u \in Fresh BY <1>1, <1>4, <1>5, <2>1 DEF Fresh, Open
  <2>3. u \in running BY <1>7, <2>2 DEF OpenOK
  <2>4. DecodeLengths(u) BY <1>4, <2>3 DEF LengthsOK, Prefilled
  <2>5. reqs[u].device < FullLength(u) /\ u \in holds BY <2>3, <2>4 DEF DecodeLengths, HoldsOK
  <2>6. ~TooLong(u) /\ reqs[u].device \in Nat BY <2>5, HoldLengths
  <2>7. FullLength(u) \in Nat BY <1>4, <2>6, FullLengths
  <2>8. QED BY <1>4, <2>5, <2>6, <2>7
<1>8. CASE batch.phase = "prefill"
  <2>1. Begun(u) BY <1>8 DEF Begun
  <2>2. BegunLengths(u) BY <1>4, <2>1 DEF LengthsOK
  <2>3. u \in holds BY <2>2 DEF BegunLengths
  <2>4. ~TooLong(u) /\ reqs[u].device \in Nat BY <2>3, HoldLengths
  <2>5. /\ Len(Prompt[u]) \in Nat /\ FullLength(u) \in Nat
        /\ Len(Prompt[u]) <= FullLength(u) - 1
    BY <1>4, <2>4, FullLengths
  <2>6. reqs[u].device <= Len(Prompt[u]) BY <2>2, <2>4, <2>5 DEF BegunLengths
  <2>7. QED BY <1>4, <2>4, <2>5, <2>6
<1>9. QED BY <1>2, <1>6, <1>7, <1>8 DEF Batch

(* What is needed after the batch: of its requests, what they lack then.   *)
NeedAfter(u) == PagesFor(FullLength(u) - 1) - PagesFor(reqs[u].device)
After == [u \in holds |-> IF u \in InBatch(batch) THEN NeedAfter(u) ELSE 0]
BatchUids == [i \in 1..Len(batch.reqs) |-> batch.reqs[i].uid]

(* A batch takes of the pool what its requests need less afterwards.       *)
Takes(rs, v) ==
  /\ TotalLacking(rs) \in Nat /\ Cardinality(Units(v, holds)) \in Nat
  /\ Cardinality(Units(v, holds)) + TotalLacking(rs) = Needed(holds)

LEMMA BatchTakes ==
  ASSUME Sound, pc = "allocate"
  PROVE  Takes(BatchReqs, Later(Needs(holds), After, BatchUids, Len(batch.reqs)))
<1>1. PICK n : n = Len(batch.reqs) OBVIOUS
<1>2. PICK rs : rs = BatchReqs OBVIOUS
<1>3. PICK S : S = holds OBVIOUS
<1>4. PICK v : v = Needs(holds) OBVIOUS
<1>5. PICK l : l = After OBVIOUS
<1>6. PICK uid : uid = BatchUids OBVIOUS
<1>7. PICK m : m = PagesFor(MaxSeqLen) OBVIOUS
<1>8. Going /\ RowsOK /\ PagesRows BY DEF Sound, PagesInv
<1>9. Runnable(rs, n) BY <1>1, <1>2, <1>8, BatchRunnable
<1>10. /\ rs \in Seq(Request) /\ Len(rs) = n /\ n \in Nat
       /\ \A i \in 1..n : batch.reqs[i].uid \in holds /\ rs[i] = reqs[batch.reqs[i].uid]
       /\ \A i, j \in 1..n : batch.reqs[i].uid = batch.reqs[j].uid => i = j
       /\ RowsApart(rs)
  BY <1>9 DEF Runnable
<1>11. /\ uid \in [1..n -> S] /\ \A i \in 1..n : uid[i] = batch.reqs[i].uid
       /\ \A i, j \in 1..n : uid[i] = uid[j] => i = j
  BY <1>1, <1>3, <1>6, <1>10 DEF BatchUids
<1>12. m \in Nat /\ IsFiniteSet(S) /\ v \in [S -> 0..m] /\ Needed(holds) = Cardinality(Units(v, S))
  <2>1. NeedsOK BY SoundTypes
  <2>2. QED BY <1>3, <1>4, <1>7, <2>1 DEF NeedsOK, Countable, Needed
<1>13. ASSUME NEW u \in S, u \in InBatch(batch) PROVE NeedAfter(u) \in 0..m
  <2>1. u \in Uids /\ reqs[u].device <= FullLength(u) - 1 BY <1>8, <1>13, BatchLengths
  <2>2. ~TooLong(u) /\ reqs[u].device \in Nat BY <1>3, <1>8, HoldLengths
  <2>3. FullLength(u) - 1 \in Nat /\ FullLength(u) - 1 <= MaxSeqLen /\ MaxSeqLen \in Nat
    BY <2>1, <2>2, FullLengths
  <2>4. PICK a \in Nat, b \in Nat : a = reqs[u].device /\ b = FullLength(u) - 1 BY <2>2, <2>3
  <2>5. a <= b /\ b <= MaxSeqLen BY <2>1, <2>3, <2>4
  <2>6. PagesFor(a) <= PagesFor(b) /\ PagesFor(b) <= m BY <1>7, <2>3, <2>5, PagesForOrder
  <2>7. PagesFor(a) \in Nat /\ PagesFor(b) \in Nat BY PagesForTokens
  <2>8. NeedAfter(u) = PagesFor(b) - PagesFor(a) BY <2>4 DEF NeedAfter
  <2>9. QED BY <1>12, <2>6, <2>7, <2>8
<1>14. l \in [S -> 0..m]
  <2>1. 0 \in 0..m BY <1>12
  <2>2. QED BY <1>3, <1>5, <1>13, <2>1 DEF After
<1>15. ASSUME NEW i \in 1..n
       PROVE  PagesLacking(rs[i]) \in Nat /\ v[uid[i]] = l[uid[i]] + PagesLacking(rs[i])
  <2>1. PICK u \in S : u = uid[i] BY <1>11
  <2>2. u \in InBatch(batch) BY <1>1, <1>11, <2>1 DEF InBatch
  <2>3. rs[i] = reqs[u] BY <1>10, <1>11, <2>1
  <2>4. v[u] = NeedOf(u) /\ l[u] = NeedAfter(u) BY <1>3, <1>4, <1>5, <2>2 DEF Needs, After
  <2>5. /\ PagesFor(rs[i].cached) \in Nat /\ PagesFor(rs[i].device) \in Nat
        /\ PagesLacking(rs[i]) \in Nat
        /\ PagesFor(rs[i].cached) + PagesLacking(rs[i]) = PagesFor(rs[i].device)
    BY <1>10, LackingType
  <2>6. NeedOf(u) \in Nat BY <1>3, <1>8, NeedRange
  <2>7. NeedAfter(u) \in Nat BY <1>12, <1>13, <2>2
  <2>8. PICK a \in Nat, b \in Nat, c \in Nat :
          a = PagesFor(reqs[u].cached) /\ b = PagesFor(reqs[u].device) /\ c = PagesLacking(rs[i])
    BY <2>3, <2>5
  <2>9. PICK f : f = PagesFor(FullLength(u) - 1) OBVIOUS
  <2>10. f \in Nat
    <3>1. u \in Uids /\ ~TooLong(u) BY <1>3, <1>8, HoldLengths
    <3>2. FullLength(u) - 1 \in Nat BY <3>1, FullLengths
    <3>3. QED BY <2>9, <3>2, PagesForTokens
  <2>11. NeedOf(u) = f - a /\ NeedAfter(u) = f - b BY <2>8, <2>9 DEF NeedOf, NeedAfter
  <2>12. a + c = b BY <2>3, <2>5, <2>8
  <2>13. f - a = (f - b) + c BY <2>10, <2>12
  <2>14. QED BY <2>1, <2>4, <2>5, <2>8, <2>11, <2>13
<1>16. /\ TotalLacking(rs) \in Nat
       /\ Cardinality(Units(Later(v, l, uid, Len(rs)), S)) \in Nat
       /\ Cardinality(Units(Later(v, l, uid, Len(rs)), S)) + TotalLacking(rs)
            = Cardinality(Units(v, S))
  <2>1. Draws(rs, uid, v, l, S, m)
    <3>1. uid \in [1..Len(rs) -> S] BY <1>10, <1>11
    <3>2. \A i, j \in 1..Len(rs) : uid[i] = uid[j] => i = j BY <1>10, <1>11
    <3>3. \A i \in 1..Len(rs) : /\ PagesLacking(rs[i]) \in Nat
                                /\ v[uid[i]] = l[uid[i]] + PagesLacking(rs[i])
      BY <1>10, <1>15
    <3>4. QED BY <1>12, <1>14, <3>1, <3>2, <3>3 DEF Draws
  <2>2. rs \in Seq(Request) /\ m \in Nat /\ IsFiniteSet(S) BY <1>10, <1>12
  <2>3. QED BY <2>1, <2>2, UnitsTaken
<1>17. Takes(rs, Later(v, l, uid, n)) BY <1>3, <1>10, <1>12, <1>16 DEF Takes
<1>18. QED BY <1>1, <1>2, <1>4, <1>5, <1>6, <1>17

(* So the asserts of evict never fail.                                     *)
LEMMA NeverOutOfPages ==
  ASSUME Sound, PoolOK, pc = "allocate", MustEvict(BatchReqs)
  PROVE  CanEvict(BatchReqs)
<1>1. PICK t \in Nat : t = TotalLacking(BatchReqs) /\ t <= Needed(holds)
  <2>1. PICK v : Takes(BatchReqs, v) BY BatchTakes
  <2>2. PICK a \in Nat, t \in Nat :
          a = Cardinality(Units(v, holds)) /\ t = TotalLacking(BatchReqs) /\ a + t = Needed(holds)
    BY <2>1 DEF Takes
  <2>3. t <= a + t OBVIOUS
  <2>4. QED BY <2>2, <2>3
<1>2. Needed(holds) \in Nat BY SoundTypes DEF NeedsOK, Countable
<1>3. PICK e \in Nat, f \in Nat : e = tree.evictable /\ f = Len(freePages)
  BY SoundTypes DEF PoolTyped
<1>4. PICK d \in Nat : d = Needed(holds) BY <1>2
<1>5. t > f BY <1>1, <1>3 DEF MustEvict
<1>6. d <= e + f BY <1>3, <1>4 DEF PoolOK, Pool
<1>7. t - f <= e /\ e > 0 BY <1>1, <1>4, <1>5, <1>6
<1>8. FreeLeaves(tree) # {} BY <1>3, <1>7, FreeLeafExists DEF Sound, TreeOK, TreeInv
<1>9. QED BY <1>1, <1>3, <1>7, <1>8 DEF CanEvict

(* A forward pass takes pages, and its requests need as many less.         *)
LEMMA ForwardPool ==
  ASSUME Sound, PoolOK, Forward
  PROVE  PoolOK'
<1>1. /\ pc = "allocate" /\ AllocatePaged(BatchReqs) /\ holds' = holds
      /\ reqs' = [u \in Uids |-> IF u \in InBatch(batch) THEN Advanced(reqs[u]) ELSE reqs[u]]
  BY DEF Forward
<1>2. PICK v : v = Later(Needs(holds), After, BatchUids, Len(batch.reqs)) OBVIOUS
<1>3. Takes(BatchReqs, v) BY <1>1, <1>2, BatchTakes
<1>4. Going /\ holds \subseteq Uids BY HeldFacts DEF Sound
<1>5. Needs(holds)' = v
  <2>1. ASSUME NEW u \in holds PROVE NeedOf(u)' = v[u]
    <3>1. u \in Uids BY <1>4
    <3>2. v[u] = IF \E i \in 1..Len(batch.reqs) : BatchUids[i] = u THEN After[u] ELSE NeedOf(u)
      BY <1>2 DEF Later, Needs
    <3>3. (\E i \in 1..Len(batch.reqs) : BatchUids[i] = u) <=> u \in InBatch(batch)
      BY DEF BatchUids, InBatch
    <3>4. CASE u \in InBatch(batch)
      <4>1. reqs[u] \in Request BY <1>4, HeldFacts
      <4>2. reqs'[u].cached = reqs[u].device BY <1>1, <3>1, <3>4, <4>1, AdvancedFacts
      <4>3. NeedOf(u)' = NeedAfter(u) BY <4>2 DEF NeedOf, NeedAfter
      <4>4. QED BY <3>2, <3>3, <3>4, <4>3 DEF After
    <3>5. CASE u \notin InBatch(batch)
      <4>1. reqs'[u] = reqs[u] BY <1>1, <3>1, <3>5
      <4>2. NeedOf(u)' = NeedOf(u) BY <4>1 DEF NeedOf
      <4>3. QED BY <3>2, <3>3, <3>5, <4>2
    <3>6. QED BY <3>4, <3>5
  <2>2. DOMAIN v = holds /\ v = [u \in holds |-> v[u]] BY <1>2 DEF Later, Needs
  <2>3. Needs(holds)' = [u \in holds |-> NeedOf(u)'] BY <1>1 DEF Needs
  <2>4. QED BY <2>1, <2>2, <2>3
<1>6. Needed(holds)' = Cardinality(Units(v, holds)) BY <1>1, <1>5 DEF Needed
<1>7. PICK a \in Nat, t \in Nat :
        a = Needed(holds)' /\ t = TotalLacking(BatchReqs) /\ a + t = Needed(holds)
  BY <1>3, <1>6 DEF Takes
<1>8. PICK e \in Nat, f \in Nat : e = tree.evictable /\ f = Len(freePages)
  BY SoundTypes DEF PoolTyped
<1>9. t <= f BY <1>1, <1>7, <1>8 DEF AllocatePaged, MustEvict
<1>10. tree' = tree /\ Len(freePages') = f - t
  <2>1. tree' = tree /\ freePages' = SubSeq(freePages, t + 1, f)
    BY <1>1, <1>7, <1>8 DEF AllocatePaged
  <2>2. freePages \in Seq(Page) BY DEF Sound, PagesInv, PagesRows
  <2>3. QED BY <1>8, <1>9, <2>1, <2>2
<1>11. Pool' = e + (f - t) BY <1>8, <1>10 DEF Pool
<1>12. a + t <= e + f BY <1>7, <1>8 DEF PoolOK, Pool
<1>13. a <= e + (f - t) BY <1>9, <1>12
<1>14. QED BY <1>7, <1>11, <1>13 DEF PoolOK

----------------------------------------------------------------------------
(* With pages of one or two tokens, what a request needs is at most its    *)
(* tokens to come and, for a last page, all but one token.                 *)
NeedsSmall ==
  PageSize <= 2 =>
    /\ PageSize \in {1, 2}
    /\ \A u \in holds :
         PageSize * NeedOf(u) <= (FullLength(u) - 1) - reqs[u].cached + PageSize - 1

LEMMA NeedTokens == Going => NeedsSmall
<1> SUFFICES ASSUME Going, PageSize <= 2 PROVE NeedsSmall BY DEF NeedsSmall
<1>1. PageSize \in {1, 2} BY PageSizeAssumption
<1>2. ASSUME NEW u \in holds
      PROVE  PageSize * NeedOf(u) <= (FullLength(u) - 1) - reqs[u].cached + PageSize - 1
  <2>1. /\ u \in Uids /\ ~TooLong(u) /\ reqs[u].cached \in Nat
        /\ reqs[u].cached <= FullLength(u) - 1
    BY HoldLengths
  <2>2. FullLength(u) - 1 \in Nat BY <2>1, FullLengths
  <2>3. PICK n \in Nat : n = FullLength(u) - 1 BY <2>2
  <2>4. PICK m \in Nat : m = reqs[u].cached BY <2>1
  <2>5. m <= n BY <2>1, <2>3, <2>4
  <2>6. PageSize * (PagesFor(n) - PagesFor(m)) <= n - m + PageSize - 1 BY <2>5, PagesBetween
  <2>7. NeedOf(u) = PagesFor(n) - PagesFor(m) BY <2>3, <2>4 DEF NeedOf
  <2>8. QED BY <2>3, <2>4, <2>6, <2>7
<1>3. QED BY <1>1, <1>2 DEF NeedsSmall

LEMMA NeedTokensNext == Going' => NeedsSmall'
BY NeedTokens, PTL

(* inflight_tokens as a number of tokens, of each running request what it  *)
(* may still be given and all but one of a page.                           *)
TokensToCome == [u \in running |-> RemainLen(reqs[u]) + PageSize - 1]

LEMMA ToComeType ==
  ASSUME Going
  PROVE  \E n \in Nat : /\ TokensToCome \in [running -> 0..n] /\ IsFiniteSet(running)
                        /\ Needs(running) \in [running -> 0..n] /\ running \in SUBSET holds
<1>1. /\ running \in SUBSET holds /\ running \subseteq Uids BY DEF Going, HoldsOK, Types
<1>2. PICK a \in Nat : a = PagesFor(MaxSeqLen) BY NeedsCounted DEF NeedsOK
<1>3. IsFiniteSet(running) /\ Needs(running) \in [running -> 0..a]
  BY <1>1, <1>2, NeedsCounted DEF NeedsOK, Countable
<1>4. PICK p \in Nat : p = PageSize /\ p >= 1 BY PageSizeAssumption
<1>5. PICK m \in Nat : m = MaxSeqLen BY BudgetAssumption
<1>6. ASSUME NEW u \in running PROVE TokensToCome[u] \in 0..(m + p)
  <2>1. /\ reqs[u].maxDevice = FullLength(u) /\ reqs[u].device < FullLength(u)
    BY <1>1 DEF Going, LengthsOK, Prefilled, DecodeLengths
  <2>2. u \in Uids /\ ~TooLong(u) /\ reqs[u].device \in Nat BY <1>1, HoldLengths
  <2>3. FullLength(u) \in Nat /\ FullLength(u) <= m BY <1>5, <2>2, FullLengths
  <2>4. TokensToCome[u] = FullLength(u) - reqs[u].device + p - 1
    BY <1>4, <2>1 DEF TokensToCome, RemainLen
  <2>5. QED BY <1>4, <2>1, <2>2, <2>3, <2>4
<1>7. PICK n \in Nat : n = a + m + p OBVIOUS
<1>8. 0..a \subseteq 0..n /\ 0..(m + p) \subseteq 0..n BY <1>7
<1>9. TokensToCome \in [running -> 0..n] BY <1>6, <1>8 DEF TokensToCome
<1>10. Needs(running) \in [running -> 0..n] BY <1>3, <1>8 DEF Needs
<1>11. QED BY <1>1, <1>3, <1>9, <1>10

LEMMA InflightUnits == Going => InflightTokens = Cardinality(Units(TokensToCome, running))
<1> SUFFICES ASSUME Going PROVE InflightTokens = Cardinality(Units(TokensToCome, running)) OBVIOUS
<1> DEFINE S == running
           v == TokensToCome
           g == [s \in SUBSET S |-> Cardinality(Units(v, s))]
           Is(h) == h = [s \in SUBSET S |->
                           IF s = {} THEN 0
                           ELSE (RemainLen(reqs[CHOOSE x \in s : TRUE]) + PageSize - 1)
                                + h[s \ {CHOOSE x \in s : TRUE}]]
           i == CHOOSE h : Is(h)
<1>1. PICK n \in Nat : v \in [S -> 0..n] /\ IsFiniteSet(S) BY ToComeType
<1>2. Summing(g, v, S)
  <2>1. g[{}] = 0
    <3>1. Units(v, {}) = {} BY DEF Units
    <3>2. QED BY <3>1, FS_EmptySet
  <2>2. ASSUME NEW s \in SUBSET S, NEW x \in s PROVE g[s] = v[x] + g[s \ {x}]
    <3>1. Cardinality(Units(v, s)) = v[x] + Cardinality(Units(v, s \ {x}))
      <4> HIDE DEF S, v
      <4>1. QED BY <1>1, UnitsOfElement
    <3>2. QED BY <3>1
  <2> HIDE DEF v, S
  <2>3. QED BY <2>1, <2>2 DEF Summing
<1>3. ASSUME NEW h PROVE ChosenFirst(h, v, S) <=> Is(h)
  <2>1. \A s \in SUBSET S : s # {} =>
          v[CHOOSE x \in s : TRUE] = RemainLen(reqs[CHOOSE x \in s : TRUE]) + PageSize - 1
    BY DEF TokensToCome
  <2> HIDE DEF v
  <2>2. [s \in SUBSET S |->
           IF s = {} THEN 0 ELSE v[CHOOSE x \in s : TRUE] + h[s \ {CHOOSE x \in s : TRUE}]]
        = [s \in SUBSET S |->
             IF s = {} THEN 0
             ELSE (RemainLen(reqs[CHOOSE x \in s : TRUE]) + PageSize - 1)
                  + h[s \ {CHOOSE x \in s : TRUE}]]
    BY <2>1
  <2>3. QED BY <2>2 DEF ChosenFirst
<1>4. InflightTokens = i[S] BY Zenon DEF InflightTokens, MapThenSumSet, MapThenFoldSet
<1>5. ChosenFirst(g, v, S)
  <2> HIDE DEF g, v, S
  <2>1. QED BY <1>1, <1>2, FoldIsSum
<1>6. Is(i)
  <2>1. \E h : Is(h)
    <3> HIDE DEF Is
    <3>1. Is(g) BY <1>3, <1>5
    <3>2. QED BY <3>1
  <2>2. QED BY <2>1, Zenon
<1>7. i[S] = g[S]
  <2> HIDE DEF i, g, v, Is, S
  <2>1. ChosenFirst(i, v, S) BY <1>3, <1>6
  <2>2. QED BY <1>1, <1>2, <2>1, FoldIsSum
<1>8. g[S] = Cardinality(Units(v, S)) OBVIOUS
<1> HIDE DEF i, g
<1>9. QED BY <1>4, <1>7, <1>8

(* So the reservation for the running requests is not too small.           *)
LEMMA InflightReserves ==
  ASSUME Going, PageSize <= 2
  PROVE  InflightTokens \in Int /\ PageSize * Needed(running) <= InflightTokens
<1>1. PICK S : S = running OBVIOUS
<1>2. PICK v : v = Needs(running) OBVIOUS
<1>3. PICK w : w = TokensToCome OBVIOUS
<1>4. PICK n \in Nat : /\ v \in [S -> 0..n] /\ w \in [S -> 0..n] /\ IsFiniteSet(S)
                       /\ S \in SUBSET holds /\ S = running
  BY <1>1, <1>2, <1>3, ToComeType
<1>5. PICK p : p = PageSize OBVIOUS
<1>6. p \in {1, 2} BY <1>5, NeedTokens DEF NeedsSmall
<1>7. ASSUME NEW u \in S PROVE p * v[u] <= w[u]
  <2>1. u \in holds /\ u \in running /\ u \in Uids
    BY <1>4 DEF Going, Types
  <2>2. /\ reqs[u].maxDevice = FullLength(u) /\ reqs[u].cached = reqs[u].device - 1
    BY <2>1 DEF Going, LengthsOK, Prefilled, DecodeLengths
  <2>3. ~TooLong(u) /\ reqs[u].device \in Nat BY <2>1, HoldLengths
  <2>4. FullLength(u) \in Nat BY <2>1, <2>3, FullLengths
  <2>5. v[u] = NeedOf(u) /\ w[u] = FullLength(u) - reqs[u].device + p - 1
    BY <1>2, <1>3, <1>5, <2>1, <2>2 DEF Needs, TokensToCome, RemainLen
  <2>6. p * NeedOf(u) <= (FullLength(u) - 1) - reqs[u].cached + p - 1
    BY <1>5, <2>1, NeedTokens DEF NeedsSmall
  <2>7. (FullLength(u) - 1) - reqs[u].cached + p - 1 = FullLength(u) - reqs[u].device + p - 1
    BY <1>6, <2>2, <2>3, <2>4
  <2>8. QED BY <2>5, <2>6, <2>7
<1>8. p * Cardinality(Units(v, S)) <= Cardinality(Units(w, S))
  BY <1>4, <1>6, <1>7, UnitsScaled
<1>9. Cardinality(Units(w, S)) \in Nat
  <2>1. S \in SUBSET S OBVIOUS
  <2>2. QED BY <1>4, <2>1, UnitsFinite
<1>10. InflightTokens = Cardinality(Units(w, S)) BY <1>1, <1>3, InflightUnits
<1>11. Needed(running) = Cardinality(Units(v, S)) BY <1>1, <1>2 DEF Needed
<1>12. QED BY <1>5, <1>8, <1>9, <1>10, <1>11

----------------------------------------------------------------------------
(* During admission reserved_size covers the holders whose next chunk is   *)
(* not behind the point the loop has reached.                              *)
Behind == {u \in holds : \E i \in Waiting(u) : i > Taken /\ pending[i].chunked}
AdderOK == /\ adder.reserved \in Int
           /\ pc = "admit" => PageSize * Needed(holds \ Behind) <= adder.reserved

(* It starts with the running requests, and whoever else holds resources   *)
(* waits with a chunk: in the normal loop no result is in flight then.     *)
LEMMA StartAdder ==
  ASSUME Sound, Sound', ~Overlap, PageSize <= 2, StartPrefill
  PROVE  AdderOK'
<1>1. /\ pc = "receive" /\ pc' = "admit" /\ UNCHANGED <<reqs, holds, running>>
      /\ adder'.reserved = InflightTokens /\ batch'.reqs = <<>> /\ pending' \in Reordered
  BY DEF StartPrefill
<1>2. Going BY DEF Sound
<1>3. InflightTokens \in Int /\ PageSize * Needed(running) <= InflightTokens
  BY <1>2, InflightReserves
<1>4. PICK T : T = (holds \ Behind)' OBVIOUS
<1>5. T \subseteq running
  <2>1. Fresh = {} BY <1>1, <1>2, Receiving DEF Going
  <2>2. Late = {}
    <3>1. inflight.reqs = <<>> BY <1>2 DEF Going, Phases, NoBatch
    <3>2. cursor \in Nat \ {0} BY <1>2 DEF Going, Types
    <3>3. cursor..Len(inflight.reqs) = {} BY <3>1, <3>2
    <3>4. QED BY <3>3 DEF Late, Open
  <2>3. ASSUME NEW u \in T PROVE u \in running
    <3>1. u \in holds /\ u \notin Behind' BY <1>1, <1>4
    <3>2. SUFFICES ASSUME ChunkWaits(u) PROVE FALSE
      BY <1>2, <2>1, <2>2, <3>1 DEF Going, HoldsOK
    <3>3. PICK i \in DOMAIN pending : pending[i].uid = u /\ pending[i].chunked
      BY <3>2 DEF ChunkWaits, Waiting
    <3>4. PICK f \in Bijection(DOMAIN pending, DOMAIN pending) :
            pending' = [j \in DOMAIN pending |-> pending[f[j]]]
      BY <1>1 DEF Reordered
    <3>5. PICK j \in DOMAIN pending : f[j] = i
      BY <3>4 DEF Bijection, Surjection
    <3>6. j \in DOMAIN pending' /\ pending'[j] = pending[i] BY <3>4, <3>5
    <3>7. j > 0
      <4>1. DOMAIN pending = 1..Len(pending) /\ Len(pending) \in Nat BY <1>2, PendingEntries
      <4>2. QED BY <4>1
    <3>8. Taken' = 0 BY <1>1 DEF Taken
    <3>9. u \in Behind' BY <1>1, <3>1, <3>3, <3>6, <3>7, <3>8 DEF Behind, Waiting
    <3>10. QED BY <3>1, <3>9
  <2>4. QED BY <2>3
<1>6. Needed(holds \ Behind)' \in Nat /\ Needed(holds \ Behind)' <= Needed(running)
  <2>1. PICK w : w = Needs(T)' OBVIOUS
  <2>2. NeedsOK /\ running \in SUBSET holds BY <1>2, SoundTypes DEF Going, HoldsOK
  <2>3. SameCached(T) BY <1>1 DEF SameCached
  <2>4. Cardinality(Units(w, T)) \in Nat /\ Cardinality(Units(w, T)) <= Needed(running)
    BY <1>5, <2>1, <2>2, <2>3, NeededPart
  <2>5. Needed(holds \ Behind)' = Cardinality(Units(w, T))
    BY <1>4, <2>1 DEF Needed, Needs, NeedOf
  <2>6. QED BY <2>4, <2>5
<1>7. Needed(running) \in Nat
  BY <1>2, SoundTypes DEF NeedsOK, Countable, Going, HoldsOK
<1>8. PICK a \in Nat, b \in Nat : a = Needed(holds \ Behind)' /\ b = Needed(running)
  BY <1>6, <1>7
<1>9. PICK p \in Nat : p = PageSize /\ p \in {1, 2} BY PageSizeAssumption
<1>10. a <= b /\ p * b <= InflightTokens BY <1>3, <1>6, <1>8, <1>9
<1>11. p * a <= InflightTokens
  <2>1. CASE p = 1 BY <1>3, <1>10, <2>1
  <2>2. CASE p = 2 BY <1>3, <1>10, <2>2
  <2>3. QED BY <1>9, <2>1, <2>2
<1>12. QED BY <1>1, <1>3, <1>8, <1>9, <1>11 DEF AdderOK

(* One more request: the reservation grows by all its tokens to come,      *)
(* which is enough for pages of one or two tokens.                         *)
Reserves(u) == adder'.reserved = adder.reserved + (FullLength(u) - reqs'[u].cached)

LEMMA AdmittedFits ==
  ASSUME Sound, Sound', PageSize <= 2, AdderOK, NEW T \in SUBSET holds,
         PageSize * Needed(T) <= adder.reserved, SameCached(T),
         NEW u, u \notin T, NEW V, V = T \cup {u}, V \subseteq holds', Reserves(u)
  PROVE  /\ adder'.reserved \in Int /\ Needed(V)' \in Nat
         /\ PageSize * Needed(V)' <= adder'.reserved
<1>1. NeedsOK /\ NeedsOK' /\ Going' BY SoundTypes, SoundTypesNext DEF Sound
<1>2. u \in holds' BY DEF Sound
<1>3. NeedsSmall' BY <1>1, NeedTokensNext
<1>4. PICK p \in Nat : p = PageSize /\ p \in {1, 2} BY PageSizeAssumption
<1>5. PICK v : v = Needs(T) OBVIOUS
<1>6. PICK w : w = Needs(V)' OBVIOUS
<1>7. PICK n \in Nat : n = PagesFor(MaxSeqLen) BY <1>1 DEF NeedsOK
<1>8. w \in [V -> 0..n] /\ IsFiniteSet(V) BY <1>1, <1>6, <1>7 DEF NeedsOK, Countable
<1>9. V \ {u} = T /\ u \in V OBVIOUS
<1>10. /\ Cardinality(Units(w, T)) \in Nat /\ w[u] \in Nat
       /\ Cardinality(Units(w, V)) = Cardinality(Units(w, T)) + w[u]
  BY <1>8, <1>9, UnitsSplit
<1>11. Units(w, T) = Units(v, T)
  <2>1. \A x \in T : w[x] = v[x] BY <1>5, <1>6, <1>9 DEF Needs, NeedOf, SameCached
  <2>2. QED BY <2>1, UnitsAgree
<1>12. Needed(T) = Cardinality(Units(v, T)) BY <1>5 DEF Needed
<1>13. Needed(V)' = Cardinality(Units(w, V)) BY <1>6 DEF Needed, Needs, NeedOf
<1>14. w[u] = NeedOf(u)' BY <1>6, <1>9 DEF Needs, NeedOf
<1>15. p * NeedOf(u)' <= (FullLength(u) - 1) - reqs'[u].cached + p - 1
  BY <1>2, <1>3, <1>4 DEF NeedsSmall, NeedOf
<1>16. FullLength(u) \in Int /\ reqs'[u].cached \in Int
  <2>1. HeldLengthsOK' BY <1>1, HeldLengthsNext
  <2>2. QED BY <1>2, <2>1 DEF HeldLengthsOK
<1>17. PICK f \in Int, c \in Int : f = FullLength(u) /\ c = reqs'[u].cached BY <1>16
<1>18. PICK r \in Int : r = adder.reserved BY DEF AdderOK
<1>19. PICK a \in Nat, b \in Nat : a = Needed(T) /\ b = w[u] BY <1>10, <1>11, <1>12
<1>20. Needed(V)' = a + b BY <1>10, <1>11, <1>12, <1>13, <1>19
<1>21. adder'.reserved = r + (f - c) BY <1>17, <1>18 DEF Reserves
<1>22. p * a <= r BY <1>4, <1>18, <1>19
<1>23. p * b <= (f - 1) - c + p - 1 BY <1>14, <1>15, <1>17, <1>19
<1>24. p * (a + b) <= r + (f - c)
  <2>1. CASE p = 1 BY <1>22, <1>23, <2>1
  <2>2. CASE p = 2 BY <1>22, <1>23, <2>2
  <2>3. QED BY <1>4, <2>1, <2>2
<1>25. QED BY <1>4, <1>20, <1>21, <1>24

----------------------------------------------------------------------------
(* The point the loop has reached moves past the candidate and nobody else.*)
LEMMA BehindStep ==
  ASSUME Going, ListOK, pc = "admit", pc' = pc, More, arrived' = arrived,
         NEW u, u = Candidate.uid, NEW handle, NEW slot, NEW cached,
         AddOneReq(u, handle, slot, cached), holds' = holds \cup {u}
  PROVE  /\ (holds \ Behind)' = (holds \ Behind) \cup {u}
         /\ u \notin holds \ Behind
<1>1. /\ Position \in DOMAIN pending /\ Candidate \in PendingReq
      /\ Untaken(Candidate) /\ Taken = Len(batch.reqs) /\ Len(batch.reqs) \in Nat
      /\ Position = Len(batch.reqs) + 1
      /\ \A i \in DOMAIN pending : pending[i].uid = u => i = Position
  BY CandidateFacts
<1>2. PICK n \in Nat : n = Len(batch.reqs) BY <1>1
<1>3. Taken = n /\ Position = n + 1 BY <1>1, <1>2
<1>4. Taken' = n + 1 BY <1>3, AddOneReqList
<1>5. PICK b : pending' = [pending EXCEPT ![Position] = [Candidate EXCEPT !.chunked = b]]
  BY DEF AddOneReq
<1>6. /\ DOMAIN pending' = DOMAIN pending
      /\ \A i \in DOMAIN pending : /\ pending'[i].uid = pending[i].uid
                                   /\ i # Position => pending'[i] = pending[i]
  BY <1>1, <1>5 DEF PendingReq, Candidate
<1>7. Candidate = pending[Position] BY DEF Candidate
<1>8. DOMAIN pending = 1..Len(pending) /\ Len(pending) \in Nat BY PendingEntries
<1>9. u \notin Behind'
  <2>1. ASSUME NEW i \in Waiting(u)', i > Taken' PROVE FALSE
    <3>1. i \in DOMAIN pending /\ pending[i].uid = u BY <1>6, <2>1 DEF Waiting
    <3>2. i = n + 1 BY <1>1, <1>3, <3>1
    <3>3. QED BY <1>4, <2>1, <3>2
  <2>2. QED BY <2>1 DEF Behind
<1>10. u \notin holds \ Behind
  <2>1. CASE Candidate.chunked
    <3>1. Position \in Waiting(u) /\ Position > Taken /\ pending[Position].chunked
      BY <1>1, <1>3, <1>7, <2>1 DEF Waiting
    <3>2. QED BY <3>1 DEF Behind
  <2>2. CASE ~Candidate.chunked
    <3>1. u \notin holds BY <1>1, <2>2 DEF Untaken
    <3>2. QED BY <3>1
  <2>3. QED BY <2>1, <2>2
<1>11. ASSUME NEW v, v # u PROVE v \in Behind' <=> v \in Behind
  <2>1. \A i \in DOMAIN pending : pending[i].uid = v => i # Position BY <1>1, <1>7, <1>11
  <2>2. Waiting(v)' = Waiting(v) BY <1>6 DEF Waiting
  <2>3. \A i \in Waiting(v) : pending'[i] = pending[i] /\ (i > n <=> i > n + 1)
    <3>1. \A i \in Waiting(v) : i \in Nat /\ i # n + 1 /\ i \in DOMAIN pending
      BY <1>3, <1>8, <2>1 DEF Waiting
    <3>2. QED BY <1>3, <1>6, <3>1
  <2>4. v \in holds' <=> v \in holds BY <1>11
  <2>5. QED BY <1>3, <1>4, <2>2, <2>3, <2>4 DEF Behind
<1>12. QED BY <1>9, <1>10, <1>11

(* The reservation of _add_one_req covers the request it admits.           *)
LEMMA AddOneReqAdder ==
  ASSUME Sound, Sound', PageSize <= 2, ListOK, AdderOK,
         pc = "admit", pc' = pc, More, arrived' = arrived,
         NEW u, u = Candidate.uid, NEW handle, NEW slot, NEW cached \in Nat,
         AddOneReq(u, handle, slot, cached), holds' = holds \cup {u}
  PROVE  /\ AdderOK'
         /\ adder'.reserved = adder.reserved + (Len(Prompt[u]) - cached + OutputLen(u))
<1>1. Going /\ holds \subseteq Uids /\ reqs \in [Uids -> Request \cup {None}]
  BY HeldFacts DEF Sound
<1>2. u \in Uids BY <1>1, CandidateFacts
<1>3. PICK T : T = holds \ Behind OBVIOUS
<1>4. PICK V : V = (holds \ Behind)' OBVIOUS
<1>5. V = T \cup {u} /\ u \notin T BY <1>1, <1>3, <1>4, BehindStep
<1>6. T \in SUBSET holds /\ V \subseteq holds' BY <1>3, <1>4
<1>7. PICK i, d, m :
        reqs' = [reqs EXCEPT ![u] = [ids |-> i, slot |-> slot, handle |-> handle,
                                     cached |-> cached, device |-> d, maxDevice |-> m]]
  BY DEF AddOneReq
<1>8. reqs'[u].cached = cached /\ \A v \in Uids : v # u => reqs'[v] = reqs[v]
  BY <1>1, <1>2, <1>7
<1>9. SameCached(T) BY <1>1, <1>5, <1>6, <1>8 DEF SameCached
<1>10. PICK r \in Int : r = adder.reserved BY DEF AdderOK
<1>11. PICK l \in Nat, o \in Int : l = Len(Prompt[u]) /\ o = OutputLen(u)
  BY <1>2, RequestFacts
<1>12. adder'.reserved = r + (l - cached) + o BY <1>10, <1>11 DEF AddOneReq
<1>13. FullLength(u) = l + o BY <1>11 DEF FullLength
<1>14. Reserves(u) BY <1>8, <1>10, <1>12, <1>13 DEF Reserves
<1>15. PageSize * Needed(T) <= adder.reserved BY <1>3 DEF AdderOK
<1>16. adder'.reserved \in Int /\ PageSize * Needed(V)' <= adder'.reserved
  BY <1>5, <1>6, <1>9, <1>14, <1>15, AdmittedFits
<1>17. Needed(V)' = Needed(holds \ Behind)' BY <1>4 DEF Needed, Needs, NeedOf
<1>18. AdderOK' BY <1>16, <1>17 DEF AdderOK
<1>19. adder'.reserved = r + (l - cached + o) BY <1>12
<1>20. QED BY <1>10, <1>11, <1>18, <1>19

LEMMA AdmitChunkAdder ==
  ASSUME Sound, Sound', PageSize <= 2, ListOK, AdderOK, AdmitChunk
  PROVE  AdderOK'
<1>1. PICK u : u = Candidate.uid OBVIOUS
<1>2. /\ pc = "admit" /\ pc' = pc /\ More /\ arrived' = arrived /\ holds' = holds
      /\ Candidate.chunked
      /\ AddOneReq(u, reqs[u].handle, reqs[u].slot, reqs[u].cached)
  BY <1>1 DEF AdmitChunk
<1>3. u \in holds BY <1>1, <1>2, CandidateFacts DEF Sound, Untaken
<1>4. reqs[u].cached \in Nat /\ holds' = holds \cup {u}
  BY <1>2, <1>3, HoldLengths DEF Sound
<1>5. QED BY <1>1, <1>2, <1>4, AddOneReqAdder

(* A new request is admitted when nobody waits behind it with a chunk, and *)
(* the test of _try_allocate_one is the one that the pool suffices for     *)
(* everybody.                                                              *)
LEMMA NobodyBehind ==
  ASSUME Going, ListOK, pc = "admit", More, ~Candidate.chunked
  PROVE  Behind = {}
<1>1. /\ Position = Len(batch.reqs) + 1 /\ Taken = Len(batch.reqs) /\ Len(batch.reqs) \in Nat
  BY CandidateFacts
<1>2. SUFFICES ASSUME NEW i \in DOMAIN pending, i > Taken, pending[i].chunked PROVE FALSE
  BY DEF Behind, Waiting
<1>3. i = 1 BY <1>2 DEF ListOK
<1>4. Taken = 0 /\ Position = 1 BY <1>1, <1>2, <1>3
<1>5. Candidate = pending[i] BY <1>3, <1>4 DEF Candidate
<1>6. QED BY <1>2, <1>5

LEMMA AdmitNewPool ==
  ASSUME Sound, Sound', PageSize <= 2, ListOK, AdderOK, AdmitNew
  PROVE  AdderOK' /\ PoolOK'
<1>1. PICK u : u = Candidate.uid OBVIOUS
<1>2. PICK c : c = Len(TriedHandle) * PageSize OBVIOUS
<1>3. /\ pc = "admit" /\ pc' = pc /\ More /\ arrived' = arrived /\ ~Candidate.chunked
      /\ holds' = holds \cup {u} /\ Fits
      /\ AddOneReq(u, TriedHandle, Last(freeSlots), c)
      /\ tree' = LockHandle(Tried, TriedHandle) /\ freePages' = freePages
  BY <1>1, <1>2 DEF AdmitNew
<1>4. Going BY DEF Sound
<1>5. u \in Uids /\ ~TooLong(u) BY <1>1, <1>3, <1>4, CandidateFacts DEF Pends
<1>6. c \in Nat BY <1>1, <1>2, <1>5, TriedFacts
<1>7. AdderOK' /\ adder'.reserved = adder.reserved + (Len(Prompt[u]) - c + OutputLen(u))
  BY <1>1, <1>3, <1>6, AddOneReqAdder
<1>8. Behind' = {}
  <2>1. Behind = {} BY <1>3, <1>4, NobodyBehind
  <2>2. (holds \ Behind)' = (holds \ Behind) \cup {u} BY <1>1, <1>3, <1>4, BehindStep
  <2>3. holds' \ Behind' = holds' BY <1>3, <2>1, <2>2
  <2>4. Behind' \subseteq holds' BY DEF Behind
  <2>5. QED BY <2>3, <2>4
<1>9. PICK V : V = holds' OBVIOUS
<1>10. Needed(holds \ Behind)' = Needed(holds)'
  <2>1. holds' \ Behind' = V BY <1>8, <1>9
  <2>2. QED BY <1>9, <2>1 DEF Needed, Needs, NeedOf
<1>11. PageSize * Needed(holds)' <= adder'.reserved /\ adder'.reserved \in Int
  BY <1>3, <1>7, <1>10 DEF AdderOK
<1>12. (Len(Prompt[u]) - c + OutputLen(u)) + adder.reserved <= Pool' * PageSize
  BY <1>1, <1>2, <1>3 DEF Fits, AvailableSize, Pool
<1>13. PICK r \in Int : r = adder.reserved BY DEF AdderOK
<1>14. PICK e \in Int : e = Len(Prompt[u]) - c + OutputLen(u)
  BY <1>5, <1>6, RequestFacts
<1>15. NeedsOK' /\ PoolTyped' BY SoundTypesNext
<1>16. PICK a \in Nat, b \in Nat : a = Needed(holds)' /\ b = Pool'
  BY <1>15 DEF NeedsOK, Countable, PoolTyped
<1>17. PICK p \in Nat : p = PageSize /\ p \in {1, 2} BY PageSizeAssumption
<1>18. p * a <= r + e BY <1>7, <1>11, <1>13, <1>14, <1>16, <1>17
<1>19. e + r <= b * p BY <1>12, <1>13, <1>14, <1>16, <1>17
<1>20. a <= b
  <2>1. CASE p = 1 BY <1>18, <1>19, <2>1
  <2>2. CASE p = 2 BY <1>18, <1>19, <2>2
  <2>3. QED BY <1>17, <2>1, <2>2
<1>21. QED BY <1>7, <1>16, <1>20 DEF PoolOK

----------------------------------------------------------------------------
(* The invariant of admission: the order of the pending list, the pool     *)
(* that suffices for all who hold resources, and the reservation.          *)
AdmitInv == /\ pc # "out of pages"
            /\ pc \notin Stopped => ListOK /\ PoolOK /\ AdderOK

LEMMA AdmitInit == Init => AdmitInv
<1> SUFFICES ASSUME Init PROVE AdmitInv OBVIOUS
<1>1. pc = "receive" /\ pending = <<>> /\ holds = {} /\ adder.reserved = 0 BY DEF Init, NoAdder
<1>2. ListOK BY <1>1 DEF ListOK, Ordered
<1>3. PoolTyped BY PagesInit, TreeInit, PoolIsTyped DEF PagesInv
<1>4. Units(Needs(holds), holds) = {} BY <1>1 DEF Units
<1>5. Needed(holds) = 0 BY <1>4, FS_EmptySet DEF Needed
<1>6. PoolOK BY <1>3, <1>5 DEF PoolTyped, PoolOK
<1>7. AdderOK BY <1>1 DEF AdderOK
<1>8. QED BY <1>1, <1>2, <1>6, <1>7 DEF AdmitInv

(* Only a batch that finds no page to evict ends the process there, and    *)
(* with the pool none does.                                                *)
LEMMA PagesSuffice ==
  ASSUME Sound, PoolOK, SchedInv', Next, ~Overlap
  PROVE  pc' \in {"receive", "admit", "allocate", "process"}
<1>1. pc \in {"receive", "admit", "allocate", "process"} BY DEF Sound, Going, Types
<1>2. pc' \in {"receive", "admit", "allocate", "process"} \cup Stopped /\ pc' \notin Faults
  BY DEF SchedInv
<1>3. ~EvictFails BY NeverOutOfPages DEF EvictFails
<1>4. CASE \E token \in Vocab : ProcessFails(token)
  <2>1. pc' = "unlock failed" BY <1>4 DEF ProcessFails, Crash
  <2>2. QED BY <1>2, <2>1 DEF Faults
<1>5. CASE ~\E token \in Vocab : ProcessFails(token)
  <2>1. pc' # "out of pages"
    BY <1>1, <1>3, <1>5
       DEF Next, Loop, Environment, ReceiveUser, ReceiveAbort, BecomeUrgent, StartPrefill,
           SkipPrefill, ScheduleDecode, AdmitChunk, AdmitNew, StopAdmitting, EvictForBatch,
           schedVars, Forward, SkipChunk, ProcessReq, EndIteration
  <2>2. QED BY <1>2, <2>1 DEF Stopped, Faults
<1>6. QED BY <1>4, <1>5

(* Outside of the admission loop nothing is asked of the reservation.      *)
LEMMA AdderStep ==
  ASSUME Sound, Sound', ~Overlap, PageSize <= 2, ListOK, AdderOK, Next
  PROVE  AdderOK'
<1>1. CASE StartPrefill BY <1>1, StartAdder
<1>2. CASE AdmitChunk BY <1>2, AdmitChunkAdder
<1>3. CASE AdmitNew BY <1>3, AdmitNewPool
<1>4. CASE ~StartPrefill /\ ~AdmitChunk /\ ~AdmitNew
  <2>1. pc' # "admit"
    BY <1>4 DEF Next, Loop, Environment, ReceiveUser, ReceiveAbort, BecomeUrgent, SkipPrefill,
                ScheduleDecode, StopAdmitting, EvictForBatch, schedVars, Forward, SkipChunk,
                ProcessReq, EndIteration, EvictFails, ProcessFails, Crash
  <2>2. adder' \in {adder, NoAdder}
    BY <1>4 DEF Next, Loop, Environment, ReceiveUser, ReceiveAbort, BecomeUrgent, SkipPrefill,
                StopAdmitting, EvictForBatch, schedVars, Forward, SkipChunk,
                ProcessReq, EndIteration, EvictFails, ProcessFails, Crash
  <2>3. adder'.reserved \in Int BY <2>2 DEF AdderOK, NoAdder
  <2>4. QED BY <2>1, <2>3 DEF AdderOK
<1>5. QED BY <1>1, <1>2, <1>3, <1>4

LEMMA PoolStep ==
  ASSUME Sound, Sound', PageSize <= 2, ListOK, PoolOK, AdderOK, Next
  PROVE  PoolOK'
<1>1. \A u \in Uids : ReceiveAbort(u) => PoolOK' BY AbortPool
<1>2. ASSUME NEW token \in Vocab, ProcessReq(token) PROVE PoolOK'
  <2>1. pc' \in {"process", "freed twice"} BY <1>2 DEF ProcessReq
  <2>2. pc' # "freed twice" BY DEF Sound, Going, Types
  <2>3. QED BY <1>2, <2>1, <2>2, ResultPool
<1>3. CASE AdmitNew BY <1>3, AdmitNewPool
<1>4. CASE EvictForBatch BY <1>4, EvictPoolOK
<1>5. CASE Forward BY <1>5, ForwardPool
<1>6. CASE EvictFails \/ \E token \in Vocab : ProcessFails(token)
  <2>1. pc' \in Stopped BY <1>6 DEF EvictFails, ProcessFails, Crash, Stopped
  <2>2. QED BY <2>1 DEF Sound, Going, Types, Stopped
<1>7. QED BY <1>1, <1>2, <1>3, <1>4, <1>5, <1>6, QuietPool DEF Next, Loop, Environment

(* The pages and the tree, as the earlier theorems state them.             *)
PagesFine == pc # "freed twice" => PagesInv
TreeFine == pc # "freed twice" => TreeInv

LEMMA AdmitStep ==
  ASSUME ~Overlap, PageSize <= 2, OneClass
  PROVE  (SchedInv /\ PagesFine /\ TreeFine) /\ (SchedInv /\ PagesFine /\ TreeFine)'
           /\ AdmitInv /\ [Next]_vars => AdmitInv'
<1> SUFFICES ASSUME SchedInv, PagesFine, TreeFine, SchedInv', PagesFine', TreeFine',
                    AdmitInv, [Next]_vars
             PROVE  AdmitInv'
  OBVIOUS
<1>1. CASE UNCHANGED vars
  BY <1>1 DEF vars, schedVars, cacheVars, AdmitInv, ListOK, Ordered, PoolOK, Pool, AdderOK,
              Needed, Needs, NeedOf, Behind, Waiting, Taken
<1>2. CASE Next
  <2>1. Going /\ RowsOK /\ TreeOK BY <1>2, StepsAreGoing
  <2>2. pc \notin Stopped BY <2>1 DEF Going, Types, Stopped
  <2>3. Sound BY <2>1, <2>2 DEF Sound, PagesFine, TreeFine, Stopped
  <2>4. ListOK /\ PoolOK /\ AdderOK BY <2>2 DEF AdmitInv
  <2>5. pc' \in {"receive", "admit", "allocate", "process"} BY <1>2, <2>3, <2>4, PagesSuffice
  <2>6. pc' \notin Stopped BY <2>5 DEF Stopped
  <2>7. Going' /\ RowsOK' /\ TreeOK' BY <2>6 DEF SchedInv, Stopped
  <2>8. Sound' BY <2>6, <2>7 DEF Sound, PagesFine, TreeFine, Stopped
  <2>9. ListOK' BY <1>2, <2>1, <2>4, ListStep
  <2>10. PoolOK' BY <1>2, <2>3, <2>4, <2>8, PoolStep
  <2>11. AdderOK' BY <1>2, <2>3, <2>4, <2>8, AdderStep
  <2>12. QED BY <2>5, <2>9, <2>10, <2>11 DEF AdmitInv
<1>3. QED BY <1>1, <1>2

(* In the normal loop, with pages of at most two tokens and answers of one *)
(* class, what admission lets in can be run to its end: no batch finds the *)
(* pages used up and no unlock fails, so no assert ends the process        *)
(* (_try_allocate_one, _allocate, evict, lock_handle).                     *)
THEOREM NeverCrashesHolds ==
  ASSUME ~Overlap, PageSize <= 2, OneClass
  PROVE  Spec => []NeverCrashes
<1>1. Init => AdmitInv BY AdmitInit
<1>2. (SchedInv /\ PagesFine /\ TreeFine) /\ (SchedInv /\ PagesFine /\ TreeFine)'
        /\ AdmitInv /\ [Next]_vars => AdmitInv'
  BY AdmitStep
<1>3. SchedInv /\ AdmitInv => NeverCrashes BY DEF SchedInv, Faults, AdmitInv, NeverCrashes
<1>4. Spec => []PagesFine BY PagesInvariant DEF PagesFine
<1>5. Spec => []TreeFine BY TreeInvariant DEF TreeFine
<1>6. QED BY SchedulerInvariant, <1>1, <1>2, <1>3, <1>4, <1>5, PTL DEF Spec
=============================================================================
