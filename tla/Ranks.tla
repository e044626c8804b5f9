-------------------------------- MODULE Ranks ---------------------------------
(***************************************************************************)
(* The schedulers of a tensor-parallel server: every rank runs the loop of *)
(* scheduler/scheduler.py on its own, and io.py gives all of them the same *)
(* messages.  Rank 0 reads the queue of the tokenizers, publishes what it  *)
(* reads and broadcasts how many messages belong to the iteration.         *)
(*                                                                         *)
(* What a rank admits is reduced to the order of its pending list: the     *)
(* cache and the table of module Scheduler are functions of the batches    *)
(* before.  A forward pass ends when every rank has started it, as its     *)
(* layers all-reduce.  Each rank has a clock of its own.                   *)
(***************************************************************************)
EXTENDS Integers, Sequences, FiniteSets, SequencesExt

CONSTANTS
  Root, Followers,  \* rank 0, and the other ranks
  Uids,             \* the requests, numbered in the order of their arrival
  Short,            \* those whose output is below short_output_threshold
  MaxTokens,        \* output_len of each request
  EosAt,            \* the token that is the end-of-sequence token
  Budget,           \* how many requests a prefill batch can hold
  Overlap           \* overlap_loop, or normal_loop

ASSUME RanksAssumption == Root \notin Followers /\ IsFiniteSet(Followers)
ASSUME UidsAssumption == Uids \subseteq Nat /\ Short \subseteq Uids
ASSUME LengthAssumption == MaxTokens \in [Uids -> Nat \ {0}] /\ EosAt \in [Uids -> Nat \ {0}]
ASSUME BudgetAssumption == Budget \in Nat \ {0} /\ Overlap \in BOOLEAN

VARIABLES
  inbox,     \* the queue of the tokenizers
  asked,     \* the messages that were put into it
  feed,      \* from rank 0 to each follower: the raw messages
  counts,    \* from rank 0 to each follower: the broadcast numbers
  pc,        \* where each rank is in its iteration
  raws,      \* pending_raw_msgs of rank 0
  due,       \* dst_length of each follower
  msgs,      \* pending_msgs of each rank
  pending,   \* pending_list of each rank, without its order
  running,   \* running_reqs of each rank
  left,      \* remain_len of each request on each rank
  got,       \* how many results of it were processed
  current,   \* ongoing_data, NoBatch for None
  last,      \* last_data
  launched,  \* how many forward passes each rank has started
  heard,     \* history: the messages of each iteration
  urgent,    \* history: the requests that each reordering found urgent
  batches    \* history: the batch of each iteration

ioVars == <<feed, counts, raws, due, msgs>>
reqVars == <<pending, running, left, got>>
loopVars == <<current, last, launched, heard, urgent, batches>>
vars == <<inbox, asked, ioVars, pc, reqVars, loopVars>>

Ranks == {Root} \cup Followers
Message == [kind : {"user", "abort"}, uid : Uids]
NoBatch == [prefill |-> <<>>, decode |-> {}]
InBatch(b) == Range(b.prefill) \cup b.decode

Init ==
  /\ inbox = <<>> /\ asked = {}
  /\ feed = [f \in Followers |-> <<>>] /\ counts = [f \in Followers |-> <<>>]
  /\ raws = <<>> /\ due = [f \in Followers |-> 0] /\ msgs = [r \in Ranks |-> <<>>]
  /\ pc = [r \in Ranks |-> "begin"]
  /\ pending = [r \in Ranks |-> {}] /\ running = [r \in Ranks |-> {}]
  /\ left = [r \in Ranks |-> MaxTokens] /\ got = [r \in Ranks |-> [u \in Uids |-> 0]]
  /\ current = [r \in Ranks |-> NoBatch] /\ last = [r \in Ranks |-> NoBatch]
  /\ launched = [r \in Ranks |-> 0]
  /\ heard = [r \in Ranks |-> <<>>] /\ urgent = [r \in Ranks |-> <<>>]
  /\ batches = [r \in Ranks |-> <<>>]

----------------------------------------------------------------------------
(* The worker puts a request, or the abort of an earlier one.              *)
Ask(m) ==
  /\ m \notin asked
  /\ IF m.kind = "user" THEN \A u \in Uids : u < m.uid => [kind |-> "user", uid |-> u] \in asked
     ELSE [kind |-> "user", uid |-> m.uid] \in asked
  /\ inbox' = Append(inbox, m)
  /\ asked' = asked \cup {m}
  /\ UNCHANGED <<ioVars, pc, reqVars, loopVars>>

(* Mutant of Blocking: the result of the last batch is forgotten.          *)
NothingToSchedule(r) == pending[r] = {} /\ running[r] = {}

Blocking(r) == pending[r] = {} /\ running[r] = {} /\ last[r] = NoBatch

(* Before the count: with blocking, one message has to come first.         *)
Ready(r) == pc[r] = "counting" \/ (pc[r] = "begin" /\ ~Blocking(r))

Publish(new) == feed' = [f \in Followers |-> feed[f] \o new]

RootFirst ==
  /\ pc[Root] = "begin" /\ Blocking(Root) /\ inbox # <<>>
  /\ inbox' = Tail(inbox)
  /\ Publish(<<Head(inbox)>>)
  /\ msgs' = [msgs EXCEPT ![Root] = <<Head(inbox)>>]
  /\ pc' = [pc EXCEPT ![Root] = "counting"]
  /\ UNCHANGED <<asked, counts, raws, due, reqVars, loopVars>>

FollowerFirst(f) ==
  /\ pc[f] = "begin" /\ Blocking(f) /\ feed[f] # <<>>
  /\ feed' = [feed EXCEPT ![f] = Tail(@)]
  /\ msgs' = [msgs EXCEPT ![f] = <<Head(feed[f])>>]
  /\ pc' = [pc EXCEPT ![f] = "counting"]
  /\ UNCHANGED <<inbox, asked, counts, raws, due, reqVars, loopVars>>

Counted(new) == Len(new)

(* Rank 0 drains its queue and broadcasts the number; it does not wait for *)
(* the others to take it.                                                  *)
RootCount ==
  /\ Ready(Root)
  /\ raws' = inbox
  /\ inbox' = <<>>
  /\ counts' = [f \in Followers |-> Append(counts[f], Counted(inbox))]
  /\ pc' = [pc EXCEPT ![Root] = "receiving"]
  /\ UNCHANGED <<asked, feed, due, msgs, reqVars, loopVars>>

FollowerCount(f) ==
  /\ Ready(f) /\ counts[f] # <<>>
  /\ due' = [due EXCEPT ![f] = Head(counts[f])]
  /\ counts' = [counts EXCEPT ![f] = Tail(@)]
  /\ pc' = [pc EXCEPT ![f] = "receiving"]
  /\ UNCHANGED <<inbox, asked, feed, raws, msgs, reqVars, loopVars>>

RootRest ==
  /\ pc[Root] = "receiving"
  /\ Publish(raws)
  /\ msgs' = [msgs EXCEPT ![Root] = @ \o raws]
  /\ raws' = <<>>
  /\ pc' = [pc EXCEPT ![Root] = "scheduling"]
  /\ UNCHANGED <<inbox, asked, counts, due, reqVars, loopVars>>

(* Mutant of Share: a follower takes whatever has been published.          *)
WholeFeed(f) == Len(feed[f])

Share(f) == due[f]

FollowerRest(f) ==
  /\ pc[f] = "receiving" /\ due[f] <= Len(feed[f])
  /\ msgs' = [msgs EXCEPT ![f] = @ \o SubSeq(feed[f], 1, Share(f))]
  /\ feed' = [feed EXCEPT ![f] = SubSeq(@, Share(f) + 1, Len(@))]
  /\ pc' = [pc EXCEPT ![f] = "scheduling"]
  /\ UNCHANGED <<inbox, asked, counts, raws, due, reqVars, loopVars>>

----------------------------------------------------------------------------
(* _process_one_msg on the two lists: an abort finds its request in one of *)
(* them, or in neither.                                                    *)
ProcessOneMsg(lists, m) ==
  IF m.kind = "user" THEN [lists EXCEPT !.pending = @ \cup {m.uid}]
  ELSE [pending |-> lists.pending \ {m.uid}, running |-> lists.running \ {m.uid}]

Received(lists, ms) == FoldLeft(ProcessOneMsg, lists, ms)
Lists(r) == Received([pending |-> pending[r], running |-> running[r]], msgs[r])

(* The reordered pending list: urgent, then short, then old first.         *)
Before(now, u, v) ==
  \/ u \in now /\ v \notin now
  \/ (u \in now <=> v \in now) /\ u \in Short /\ v \notin Short
  \/ (u \in now <=> v \in now) /\ (u \in Short <=> v \in Short) /\ u < v

Reordered(list, now) == SetToSortSeq(list, LAMBDA u, v : Before(now, u, v))

(* What the clock of a rank can find urgent: the oldest ones, and all that *)
(* were urgent before.  A list of one request is not reordered.            *)
Urgencies(r, list) ==
  LET before == IF urgent[r] = <<>> THEN {} ELSE Last(urgent[r])
      oldest == {{v \in list : v < u} : u \in list} \cup {list}
  IN IF Cardinality(list) <= 1 THEN {{}} ELSE {now \in oldest : before \cap list \subseteq now}

Admitted(list, now) == SubSeq(Reordered(list, now), 1, Min({Cardinality(list), Budget}))

(* _schedule_next_batch: prefill first.                                    *)
NextBatch(lists, now) ==
  IF lists.pending # {} THEN [prefill |-> Admitted(lists.pending, now), decode |-> {}]
  ELSE [prefill |-> <<>>, decode |-> lists.running]

(* filter_reqs, after a decode: those with can_decode.                     *)
Decodable(list, remain) == {u \in list : remain[u] > 0}

(* The messages, the next batch, and its forward pass.                     *)
Schedule(r, now) ==
  LET lists == Lists(r)
      batch == NextBatch(lists, now)
      advanced == [u \in Uids |-> left[r][u] - (IF u \in InBatch(batch) THEN 1 ELSE 0)]
  IN /\ pc[r] = "scheduling"
     /\ now \in Urgencies(r, lists.pending)
     /\ pending' = [pending EXCEPT ![r] = lists.pending \ InBatch(batch)]
     /\ running' = [running EXCEPT ![r] =
          IF batch.decode = {} THEN lists.running ELSE Decodable(lists.running, advanced)]
     /\ left' = [left EXCEPT ![r] = advanced]
     /\ current' = [current EXCEPT ![r] = batch]
     /\ launched' = [launched EXCEPT ![r] = IF batch = NoBatch THEN @ ELSE @ + 1]
     /\ heard' = [heard EXCEPT ![r] = Append(@, msgs[r])]
     /\ urgent' = [urgent EXCEPT ![r] = Append(@, now)]
     /\ batches' = [batches EXCEPT ![r] = Append(@, batch)]
     /\ msgs' = [msgs EXCEPT ![r] = <<>>]
     /\ pc' = [pc EXCEPT ![r] = "processing"]
     /\ UNCHANGED <<inbox, asked, feed, counts, raws, due, got, last>>

(* The batch whose results are due, and its number.                        *)
Processed(r) == IF Overlap THEN last[r] ELSE current[r]
Number(r) == IF Overlap /\ current[r] # NoBatch THEN launched[r] - 1 ELSE launched[r]

(* copy_done.synchronize() and the loop of _process_last_data.             *)
Process(r) ==
  LET batch == Processed(r)
      results == [u \in Uids |-> got[r][u] + (IF u \in InBatch(batch) THEN 1 ELSE 0)]
      finished == {u \in InBatch(batch) : left[r][u] = 0 \/ results[u] = EosAt[u]}
  IN /\ pc[r] = "processing"
     /\ batch # NoBatch => \A q \in Ranks : launched[q] >= Number(r)
     /\ got' = [got EXCEPT ![r] = results]
     /\ running' = [running EXCEPT ![r] = (@ \cup Range(batch.prefill)) \ finished]
     /\ last' = [last EXCEPT ![r] = IF Overlap THEN current[r] ELSE NoBatch]
     /\ current' = [current EXCEPT ![r] = NoBatch]
     /\ pc' = [pc EXCEPT ![r] = "begin"]
     /\ UNCHANGED <<inbox, asked, ioVars, pending, left, launched, heard, urgent, batches>>

----------------------------------------------------------------------------
RootReceives == RootFirst \/ RootCount \/ RootRest
FollowerReceives(f) == FollowerFirst(f) \/ FollowerCount(f) \/ FollowerRest(f)
Works(r) == (\E now \in SUBSET Uids : Schedule(r, now)) \/ Process(r)

Next == \/ \E m \in Message : Ask(m)
        \/ RootReceives
        \/ \E f \in Followers : FollowerReceives(f)
        \/ \E r \in Ranks : Works(r)

Spec == Init /\ [][Next]_vars

(* Every rank goes on with what it has; nobody has to ask for anything.    *)
FairSpec ==
  /\ Spec
  /\ WF_vars(RootReceives)
  /\ \A f \in Followers : WF_vars(FollowerReceives(f))
  /\ \A r \in Ranks : WF_vars(Works(r))

----------------------------------------------------------------------------
(* The sequences have the same elements as far as both go.                 *)
Agree(s, t) == \A i \in 1..Len(s) : i <= Len(t) => s[i] = t[i]
ClocksAgree == \A f \in Followers : Agree(urgent[f], urgent[Root])

(* As long as the clocks of the ranks have led to the same decisions, every*)
(* rank has processed the same messages in the same iteration, although    *)
(* they receive at different times and decide on their own whether to      *)
(* block; and has run the same batches: what a rank does depends on nothing*)
(* but the messages, their cut into iterations and the clock.              *)
RanksAgree ==
  ClocksAgree => \A f \in Followers : /\ Agree(heard[f], heard[Root])
                                      /\ Agree(batches[f], batches[Root])

Asked(u) == [kind |-> "user", uid |-> u] \in asked
Ended(r, u) ==
  \/ got[r][u] > 0 /\ u \notin running[r] \cup InBatch(current[r]) \cup InBatch(last[r])
  \/ \E i \in 1..Len(heard[r]) : [kind |-> "abort", uid |-> u] \in Range(heard[r][i])

(* Every rank ends every request, unless the clocks have disagreed: no rank*)
(* is left in a broadcast or a forward pass that another one never enters. *)
AllServed == \A r \in Ranks, u \in Uids : Asked(u) ~> Ended(r, u) \/ ~ClocksAgree

(* All schedulers schedule every request (docs/structures.md:25), whatever *)
(* their clocks say: not so, two ranks can wait for each other.            *)
AllRanksServe == \A r \in Ranks, u \in Uids : Asked(u) ~> Ended(r, u)
===============================================================================
