------------------------------- MODULE Workers -------------------------------
(***************************************************************************)
(* The ranks from their start to the end of their first forward pass: the  *)
(* launcher and the engines of module Startup, then the layers of module   *)
(* Experts with the weights that were loaded.                              *)
(***************************************************************************)
EXTENDS Startup, Experts

vars == <<startVars, forwardVars>>

Init == StartInit /\ ForwardInit

Start(r) == RankStep(r) /\ UNCHANGED forwardVars

(* The first request comes when the server is ready.                       *)
Ask == server = "ready" /\ Batch /\ UNCHANGED startVars

Serve(r) ==
  /\ Alive(r) /\ at[r] = "serve"
  /\ ForwardStep(r)
  /\ UNCHANGED <<launcherVars, socketVars, rankVars, memoryVars>>

Next ==
  \/ (Spawn \/ TakeAck \/ \E p \in Workers : ConnectWorker(p) \/ AckWorker(p))
     /\ UNCHANGED forwardVars
  \/ Ask
  \/ \E r \in Ranks : Start(r) \/ Serve(r)

Spec == Init /\ [][Next]_vars

(* Every process goes on as long as it can.                                *)
Fairness ==
  /\ WF_vars((Spawn \/ TakeAck) /\ UNCHANGED forwardVars)
  /\ WF_vars(\E p \in Workers : (ConnectWorker(p) \/ AckWorker(p)) /\ UNCHANGED forwardVars)
  /\ \A s \in Setups : \A r \in 0..s.tp - 1 :
       WF_vars(setup = s /\ (Start(r) \/ Serve(r)))

FairSpec == Spec /\ Fairness

----------------------------------------------------------------------------
(* The comment of launch.py:55: when the answers are in, every process is  *)
(* there.  No rank has failed, all have entered the barrier and all work-  *)
(* ers listen.                                                             *)
ReadyMeansAll ==
  server = "ready" =>
    /\ dead = {} /\ \A r \in Ranks : at[r] \in {"barrier", "ack", "serve"}
    /\ \A p \in Workers : worker[p] = "listening"

(* Every address was bound by one process and connected by another.        *)
AddressesServed ==
  server = "ready" =>
    \A a \in {s[1] : s \in bound \cup joined} :
      /\ Cardinality({s \in bound : s[1] = a}) = 1
      /\ \E s \in joined : s[1] = a

(* All schedulers of Ranks decide alike because their engines agree on the *)
(* number of pages and on the graphs, whatever memory each of them sees.   *)
EnginesAgree ==
  \A q, r \in Ranks :
    /\ pages[q] > 0 /\ pages[r] > 0 => pages[q] = pages[r]
    /\ initFree[q] > 0 /\ initFree[r] > 0 => GraphMaxBs(q) = GraphMaxBs(r)

(* The pieces make up the model: each query head is on one rank, with the  *)
(* head of keys of its group; each token has one rank that embeds it; each *)
(* column of each expert is on one rank, in the order gate, up.            *)
ShardsCover ==
  server = "ready" =>
    /\ \A h \in 0..setup.qo - 1 : \E r \in Ranks :
         /\ {q \in Ranks : h \in QoHeads(q)} = {r}
         /\ LET j == Cardinality({g \in QoHeads(r) : g < h})
            IN KvHeadOf(r, j) = h \div (setup.qo \div setup.kv)
    /\ \A v \in 0..setup.vocab - 1 : Cardinality(LookupRanks(v)) = 1
    /\ \A e \in 0..setup.experts - 1, c \in 0..setup.inter - 1 :
         Cardinality({r \in Ranks : c \in Columns(r) /\ Complete(r) /\ Holds(r, e)}) = 1

(* The experts that the tokens were routed to computed them, completely,   *)
(* whichever ranks hold them and however the pairs were sorted, padded,    *)
(* sent and sent back.  Mismatched is the other case: the weights are cut  *)
(* by experts and the default back end knows nothing of it.  The ids are   *)
(* those of the model and nothing is exchanged or summed up, although the  *)
(* comment of layers/moe.py:58 has the experts combined by then.           *)
Mismatched == UsesEP /\ MoeBackend = "fused"
LayerExact(result) ==
  setup.experts > 0 => result = [t \in 1..Tokens |-> [k \in 1..TopK |->
    [token |-> t, columns |-> 0..setup.inter - 1, experts |-> {routes[t][k]}]]]
ForwardExact ==
  Mismatched \/ \A r \in Ranks : \A l \in DOMAIN out[r] : LayerExact(out[r][l])

(* Ranks that make a call together make the same one, and one sends what   *)
(* the other expects, unless all pairs of the batch belong to one rank: it *)
(* takes the fast path and the others wait for it.                         *)
Exchanges == UsesEP /\ MoeBackend = "ep"
AllOnOne == Exchanges /\ routes # <<>> /\ \E r \in Ranks : LocalOnly(r)
CallsMatch ==
  \A q, r \in Ranks : \A i \in DOMAIN calls[q] \cap DOMAIN calls[r] :
    \/ AllOnOne
    \/ /\ calls[q][i].op = calls[r][i].op
       /\ calls[q][i].op \in {"dispatch", "combine"} =>
            calls[q][i].data.in[r] = calls[r][i].data.out[q]

(* The server gets ready or every rank ends, none is left waiting for one  *)
(* that failed; and the pass ends on all ranks unless all pairs of the     *)
(* batch belong to one.                                                    *)
Progress ==
  /\ <>(server = "ready" \/ dead = Ranks)
  /\ (\A r \in Ranks : phase[r] # "idle") /\ ~AllOnOne ~> (\A r \in Ranks : phase[r] = "done")
=============================================================================
