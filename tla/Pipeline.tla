------------------------------- MODULE Pipeline -------------------------------
(***************************************************************************)
(* A request on its way through the processes of the server: the           *)
(* FrontendManager of server/api_server.py with one stream for each        *)
(* request, the workers of tokenizer/server.py, and the scheduler as its   *)
(* queues see it.                                                          *)
(*                                                                         *)
(* The queues of ZeroMQ keep the order of each sender.  From the scheduler *)
(* to the client there is one channel for each request: every message of   *)
(* that direction names one request, and no handler looks at the order of  *)
(* two requests.  The tasks of the API server are cut at their awaits.     *)
(***************************************************************************)
EXTENDS Integers, Sequences

CONSTANTS
  Uids,
  Tokenizers, Detokenizer,   \* the workers; no Tokenizers: share_tokenizer
  MaxTokens,                 \* the max_tokens of each request
  TooLong,                   \* the requests the scheduler drops
  Overlap                    \* overlap_loop, or normal_loop

ASSUME WorkersAssumption == Detokenizer \notin Tokenizers
ASSUME MaxTokensAssumption == MaxTokens \in [Uids -> Nat \ {0}] /\ TooLong \subseteq Uids
ASSUME OverlapAssumption == Overlap \in BOOLEAN

VARIABLES
  stream,      \* the state of the response of each request
  entries,     \* the keys of ack_map and of event_map
  acks,        \* ack_map
  events,      \* the requests whose Event is set
  taken,       \* pending of wait_for_ack: what it has yet to yield
  gone,        \* the clients that have disconnected
  aborting,    \* the tasks abort_user that sleep
  requests,    \* requests[w]: from the API server to worker w
  backend,     \* backend[w]: from worker w to the scheduler
  phase,       \* what the scheduler knows of each request
  ahead,       \* ended requests with a decode still in flight
  tokens,      \* from the scheduler to the detokenizer
  decodeMap,   \* the keys of decode_map
  replies,     \* from the detokenizer to the API server
  sent,        \* history: the tokens the scheduler sent
  delivered    \* history: the chunks the client was sent

frontVars == <<stream, entries, acks, events, taken, gone, aborting, delivered>>
workVars == <<requests, backend, decodeMap>>
schedVars == <<phase, ahead, sent>>
vars == <<frontVars, workVars, schedVars, tokens, replies>>

Encoders == IF Tokenizers = {} THEN {Detokenizer} ELSE Tokenizers
Token == [last : BOOLEAN, n : Nat]     \* a reply: finished, and which token
Request == [kind : {"user", "abort"}, uid : Uids]

Init ==
  /\ stream = [u \in Uids |-> "new"]
  /\ entries = {} /\ events = {} /\ gone = {} /\ aborting = {}
  /\ acks = [u \in Uids |-> <<>>] /\ taken = [u \in Uids |-> <<>>]
  /\ requests = [w \in Encoders |-> <<>>] /\ backend = [w \in Encoders |-> <<>>]
  /\ phase = [u \in Uids |-> "unknown"] /\ ahead = {}
  /\ tokens = [u \in Uids |-> <<>>] /\ replies = [u \in Uids |-> <<>>]
  /\ decodeMap = {}
  /\ sent = [u \in Uids |-> <<>>] /\ delivered = [u \in Uids |-> <<>>]

----------------------------------------------------------------------------
(* Mutant of Enqueue: what was sent last is read first.                    *)
Overtake(queue, m) == <<m>> \o queue

Enqueue(queue, m) == Append(queue, m)

(* send_one: the socket hands each message to one of its workers.          *)
SendOne(m) == \E w \in Encoders : requests' = [requests EXCEPT ![w] = Enqueue(@, m)]

(* generate and v1_completions: new_user, TokenizeMsg, the response.       *)
Generate(u) ==
  /\ stream[u] = "new"
  /\ entries' = entries \cup {u}
  /\ SendOne([kind |-> "user", uid |-> u])
  /\ stream' = [stream EXCEPT ![u] = "waiting"]
  /\ UNCHANGED <<acks, events, taken, gone, aborting, delivered, backend, decodeMap,
                 schedVars, tokens, replies>>

(* listen: a reply for nobody is dropped.                                  *)
Listen(u) ==
  /\ replies[u] # <<>>
  /\ replies' = [replies EXCEPT ![u] = Tail(@)]
  /\ IF u \in entries
     THEN /\ acks' = [acks EXCEPT ![u] = Append(@, Head(replies[u]))]
          /\ events' = events \cup {u}
     ELSE UNCHANGED <<acks, events>>
  /\ UNCHANGED <<stream, entries, taken, gone, aborting, delivered, workVars, schedVars,
                 tokens>>

(* Mutant of Taken: only the oldest reply is taken, the list is reset.     *)
TakenOldest(u) == <<Head(acks[u])>>

Taken(u) == acks[u]

(* wait_for_ack, from the event to its next yield.                         *)
WakeUp(u) ==
  /\ stream[u] = "waiting" /\ u \in events
  /\ events' = events \ {u}
  /\ taken' = [taken EXCEPT ![u] = Taken(u)]
  /\ acks' = [acks EXCEPT ![u] = <<>>]
  /\ stream' = [stream EXCEPT ![u] = "delivering"]
  /\ UNCHANGED <<entries, gone, aborting, delivered, workVars, schedVars, tokens, replies>>

(* Mutant of After: the stream does not stop at the finished reply.        *)
KeepReading(ack, rest) == IF rest = <<>> THEN "waiting" ELSE "delivering"

After(ack, rest) ==
  IF ack.last THEN "closing" ELSE IF rest = <<>> THEN "waiting" ELSE "delivering"

(* Mutant of EventAfter: the event is cleared before the next wait.        *)
ClearBeforeWait(u) == events' = events \ {u}

EventAfter(u) == UNCHANGED events

(* stream_generate, stream_chat_completions: one chunk.                    *)
Deliver(u) ==
  /\ stream[u] = "delivering" /\ taken[u] # <<>>
  /\ delivered' = [delivered EXCEPT ![u] = Append(@, Head(taken[u]))]
  /\ taken' = [taken EXCEPT ![u] = Tail(@)]
  /\ stream' = [stream EXCEPT ![u] = After(Head(taken[u]), Tail(taken[u]))]
  /\ EventAfter(u)
  /\ UNCHANGED <<entries, acks, gone, aborting, workVars, schedVars, tokens, replies>>

(* [DONE].  The loop over wait_for_ack was left at the finished reply, so  *)
(* its last statements, which delete the entries, are never reached.       *)
Close(u) ==
  /\ stream[u] = "closing"
  /\ stream' = [stream EXCEPT ![u] = "done"]
  /\ UNCHANGED <<entries, acks, events, taken, gone, aborting, delivered, workVars, schedVars,
                 tokens, replies>>

Open(u) == stream[u] \in {"waiting", "delivering", "closing"}

Disconnect(u) ==
  /\ Open(u) /\ u \notin gone
  /\ gone' = gone \cup {u}
  /\ UNCHANGED <<stream, entries, acks, events, taken, aborting, delivered, workVars,
                 schedVars, tokens, replies>>

(* stream_with_cancellation: CancelledError, noticed or raised at an await.*)
Cancel(u) ==
  /\ Open(u) /\ u \in gone
  /\ stream' = [stream EXCEPT ![u] = "cancelled"]
  /\ aborting' = aborting \cup {u}
  /\ UNCHANGED <<entries, acks, events, taken, gone, delivered, workVars, schedVars, tokens,
                 replies>>

(* Mutants of Forget: the entries stay; the entry of event_map stays.      *)
ForgetKey(u) == entries' = entries \ {u} /\ UNCHANGED <<acks, events>>
ForgetNothing(u) == UNCHANGED <<entries, acks, events>>

Forget(u) == /\ entries' = entries \ {u}
             /\ acks' = [acks EXCEPT ![u] = <<>>]
             /\ events' = events \ {u}

(* abort_user, after its sleep.                                            *)
AbortUser(u) ==
  /\ u \in aborting
  /\ aborting' = aborting \ {u}
  /\ Forget(u)
  /\ SendOne([kind |-> "abort", uid |-> u])
  /\ UNCHANGED <<stream, taken, gone, delivered, backend, decodeMap, schedVars, tokens, replies>>

----------------------------------------------------------------------------
(* tokenize_worker with one message: to the scheduler, or a DetokenizeMsg  *)
(* with its entry of decode_map to the API server.                         *)
Encode(w) ==
  /\ requests[w] # <<>>
  /\ requests' = [requests EXCEPT ![w] = Tail(@)]
  /\ backend' = [backend EXCEPT ![w] = Append(@, Head(requests[w]))]
  /\ UNCHANGED <<frontVars, decodeMap, schedVars, tokens, replies>>

Detokenize(u) ==
  /\ tokens[u] # <<>>
  /\ tokens' = [tokens EXCEPT ![u] = Tail(@)]
  /\ replies' = [replies EXCEPT ![u] = Append(@, Head(tokens[u]))]
  /\ decodeMap' = IF Head(tokens[u]).last THEN decodeMap \ {u} ELSE decodeMap \cup {u}
  /\ UNCHANGED <<frontVars, requests, backend, schedVars>>

----------------------------------------------------------------------------
(* The scheduler as module Scheduler has it.  A request that is too long   *)
(* is dropped without a reply.                                             *)
TakeUser(w) ==
  /\ backend[w] # <<>> /\ Head(backend[w]).kind = "user"
  /\ backend' = [backend EXCEPT ![w] = Tail(@)]
  /\ LET u == Head(backend[w]).uid
     IN phase' = [phase EXCEPT ![u] = IF u \in TooLong THEN "ended" ELSE "running"]
  /\ UNCHANGED <<frontVars, requests, decodeMap, ahead, sent, tokens, replies>>

(* An abort ends a request the scheduler knows; of its decode in flight    *)
(* one more reply follows, and while its prefill is in flight the abort is *)
(* lost.                                                                   *)
TakeAbort(w) ==
  /\ backend[w] # <<>> /\ Head(backend[w]).kind = "abort"
  /\ backend' = [backend EXCEPT ![w] = Tail(@)]
  /\ LET u == Head(backend[w]).uid
     IN \/ /\ phase[u] = "running"
           /\ phase' = [phase EXCEPT ![u] = "ended"]
           /\ ahead' \in {ahead} \cup (IF Overlap /\ sent[u] # <<>> THEN {ahead \cup {u}} ELSE {})
        \/ /\ phase[u] # "running" \/ (Overlap /\ sent[u] = <<>>)
           /\ UNCHANGED <<phase, ahead>>
  /\ UNCHANGED <<frontVars, requests, decodeMap, sent, tokens, replies>>

Send(u, isLast) ==
  LET token == [last |-> isLast, n |-> Len(sent[u]) + 1]
  IN /\ sent' = [sent EXCEPT ![u] = Append(@, token)]
     /\ tokens' = [tokens EXCEPT ![u] = Append(@, token)]

(* _process_last_data.  With overlap the next decode of the request may be *)
(* in flight already: then finished looks one token ahead.                 *)
Reply(u, eos, inFlight) ==
  LET n == Len(sent[u]) + 1
      finished == eos \/ n = MaxTokens[u] \/ (inFlight /\ n + 1 = MaxTokens[u])
  IN /\ phase[u] = "running"
     /\ inFlight => Overlap /\ 1 < n /\ n < MaxTokens[u]
     /\ Send(u, finished)
     /\ phase' = IF finished THEN [phase EXCEPT ![u] = "ended"] ELSE phase
     /\ ahead' = IF finished /\ inFlight THEN ahead \cup {u} ELSE ahead
     /\ UNCHANGED <<frontVars, workVars, replies>>

(* The reply of the decode that was in flight when the request ended.      *)
Trail(u, eos) ==
  /\ u \in ahead
  /\ Len(sent[u]) < MaxTokens[u]
  /\ Send(u, eos \/ Len(sent[u]) + 1 = MaxTokens[u])
  /\ ahead' = ahead \ {u}
  /\ UNCHANGED <<frontVars, workVars, phase, replies>>

----------------------------------------------------------------------------
Front(u) == \/ Listen(u) \/ WakeUp(u) \/ Deliver(u) \/ Close(u) \/ Cancel(u) \/ AbortUser(u)
Worker == \/ \E w \in Encoders : Encode(w)
          \/ \E u \in Uids : Detokenize(u)
SchedulerTakes(w) == TakeUser(w) \/ TakeAbort(w)
SchedulerReplies(u) == \/ \E eos, inFlight \in BOOLEAN : Reply(u, eos, inFlight)
                       \/ \E eos \in BOOLEAN : Trail(u, eos)

Next == \/ \E u \in Uids : Generate(u) \/ Disconnect(u) \/ Front(u) \/ SchedulerReplies(u)
        \/ \E w \in Encoders : SchedulerTakes(w)
        \/ Worker

Spec == Init /\ [][Next]_vars

(* Every task of the event loop, every worker and the scheduler go on with *)
(* what they have; PULL sockets serve every sender; a client that has left *)
(* is noticed.  Clients need not come or leave.                            *)
Fairness ==
  /\ \A u \in Uids :
       /\ WF_vars(Listen(u)) /\ WF_vars(WakeUp(u)) /\ WF_vars(Deliver(u)) /\ WF_vars(Close(u))
       /\ WF_vars(Cancel(u)) /\ WF_vars(AbortUser(u))
       /\ WF_vars(Detokenize(u)) /\ WF_vars(SchedulerReplies(u))
  /\ \A w \in Encoders : WF_vars(Encode(w)) /\ WF_vars(SchedulerTakes(w))

FairSpec == Spec /\ Fairness

----------------------------------------------------------------------------
TypeOK ==
  /\ stream \in [Uids -> {"new", "waiting", "delivering", "closing", "done", "cancelled"}]
  /\ entries \subseteq Uids /\ events \subseteq entries
  /\ gone \subseteq Uids /\ aborting \subseteq gone
  /\ acks \in [Uids -> Seq(Token)] /\ taken \in [Uids -> Seq(Token)]
  /\ requests \in [Encoders -> Seq(Request)] /\ backend \in [Encoders -> Seq(Request)]
  /\ phase \in [Uids -> {"unknown", "running", "ended"}] /\ ahead \subseteq Uids
  /\ tokens \in [Uids -> Seq(Token)] /\ replies \in [Uids -> Seq(Token)]
  /\ sent \in [Uids -> Seq(Token)] /\ delivered \in [Uids -> Seq(Token)]
  /\ decodeMap \subseteq Uids

(* While a stream is open, what the client was sent and what is on its way *)
(* (in wait_for_ack, ack_map and the two queues) is all the scheduler sent,*)
(* in its order; afterwards the client still has the beginning of it.      *)
OnItsWay(u) == taken[u] \o acks[u] \o replies[u] \o tokens[u]
StreamFaithful ==
  \A u \in Uids :
    /\ Open(u) => delivered[u] \o OnItsWay(u) = sent[u]
    /\ Len(delivered[u]) <= Len(sent[u])
    /\ \A i \in 1..Len(delivered[u]) : delivered[u][i] = sent[u][i]

(* A stream that waits for replies that are there has its event set, and   *)
(* is never woken for nothing (listen, wait_for_ack).                      *)
NoLostWakeup ==
  \A u \in Uids : stream[u] \in {"waiting", "delivering"} => (acks[u] # <<>> <=> u \in events)

(* A stream ends after a finished reply, and sends nothing after it, even  *)
(* when the overlapped loop replies once more.                             *)
EndsOnce ==
  \A u \in Uids :
    /\ \A i \in 1..Len(delivered[u]) : delivered[u][i].last => i = Len(delivered[u])
    /\ stream[u] \in {"closing", "done"} =>
         delivered[u] # <<>> /\ delivered[u][Len(delivered[u])].last

(* An abort never reaches the scheduler before the request it is for: with *)
(* one worker in between, the queues keep their order.                     *)
AbortAfterRequest ==
  \A w \in Encoders :
    backend[w] # <<>> /\ Head(backend[w]).kind = "abort"
      => phase[Head(backend[w]).uid] # "unknown"

(* Every request is answered to its end, unless it is too long or its      *)
(* client leaves; and one whose client leaves has its entries removed and  *)
(* is ended in the scheduler.                                              *)
RequestsEnd ==
  \A u \in Uids :
    /\ stream[u] = "waiting" ~> stream[u] = "done" \/ u \in gone \cup TooLong
    /\ stream[u] = "cancelled" ~> u \notin entries /\ phase[u] = "ended"
===============================================================================
