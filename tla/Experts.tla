------------------------------- MODULE Experts -------------------------------
(***************************************************************************)
(* A forward pass through the layers of a mixture-of-experts model on all  *)
(* ranks.  The tokens are the same on every rank.  Two options decide what *)
(* a layer does.  The size of the expert parallelism cuts the weights:     *)
(* without it a rank has its columns of every expert and the results are   *)
(* summed up.  The back end computes: moe/fused.py with the experts of the *)
(* rank, moe/ep.py sends the tokens to the ranks of their experts and gets *)
(* the results back.  Every combination of the two can be started.         *)
(*                                                                         *)
(* A collective is the next entry of every rank's list of calls: it ends   *)
(* for a rank when all the others have made the same call as their entry   *)
(* of that number.  A result is what it was computed from.                 *)
(***************************************************************************)
EXTENDS Weights

CONSTANTS
  Tokens, TopK, Layers,  \* the batch, the experts of a token, the layers
  SmallBlock, LargeBlock \* BLOCK_SIZE_M: 16 and 64

ASSUME ForwardAssumption == {Tokens, TopK, Layers, SmallBlock, LargeBlock} \subseteq Nat \ {0}

VARIABLES
  routes,  \* topk_ids: the experts of each token, the same in every layer
  phase,   \* the call each rank is in; "idle", "asked", "done"
  calls,   \* the collectives a rank has entered, with what it gave to them
  out      \* the results of the layers on each rank

forwardVars == <<routes, phase, calls, out>>

Pairs == [p \in 1..Tokens * TopK |-> p]
TokenOf(p, topk) == (p - 1) \div topk + 1
ExpertOf(p) == routes[TokenOf(p, TopK)][((p - 1) % TopK) + 1]
FlatIds == [p \in DOMAIN Pairs |-> ExpertOf(p)]

Routings(experts) ==
  IF experts = {} THEN {<<>>}
  ELSE [1..Tokens -> {s \in [1..TopK -> experts] : IsInjective(s)}]

ForwardInit ==
  /\ routes = <<>> /\ phase = [r \in Ranks |-> "idle"]
  /\ calls = [r \in Ranks |-> <<>>] /\ out = [r \in Ranks |-> <<>>]

(* A batch; its tokens decide what gate and topk_softmax yield.            *)
Batch ==
  /\ \A r \in Ranks : phase[r] = "idle"
  /\ routes' \in Routings(0..setup.experts - 1)
  /\ phase' = [r \in Ranks |-> "asked"]
  /\ UNCHANGED <<calls, out>>

----------------------------------------------------------------------------
(* moe_align_block_size and the kernel: the pairs of each expert fill      *)
(* blocks of their own, padded with an index that the kernel masks.        *)
BlockSize(tokens, experts) == IF tokens <= experts THEN SmallBlock ELSE LargeBlock

Padded(ids, e, size) == DivCeil(Cardinality({i \in DOMAIN ids : ids[i] = e}), size) * size

(* The place of pair i in sorted_token_ids.                                *)
AlignedAt(ids, i, size) ==
  Cardinality({j \in 1..i - 1 : ids[j] = ids[i]})
  + FoldFunctionOnSet(+, 0, [e \in 0..ids[i] - 1 |-> Padded(ids, e, size)], 0..ids[i] - 1)

(* Mutant of MaxPadded: there is room for the pairs only.                  *)
NotPadded(pairs, experts, size) == pairs

MaxPadded(pairs, experts, size) == pairs + (experts + 1) * (size - 1)

(* The rows of hidden through the experts that ids names, on rank r.  The  *)
(* kernel runs for the blocks that the padded length has room for.  An id  *)
(* that the rank has no expert for is counted beyond the table of counts:  *)
(* what becomes of the rows then is not defined, {} stands for all of it.  *)
FusedExperts(r, hidden, ids, topk) ==
  LET size == BlockSize(Len(hidden), LocalExperts)
      grid == DivCeil(MaxPadded(Len(ids), LocalExperts, size), size)
      Computed(i) == /\ \A j \in DOMAIN ids : ids[j] < LocalExperts
                     /\ AlignedAt(ids, i, size) \div size < grid
  IN [i \in DOMAIN ids |->
       [token |-> hidden[TokenOf(i, topk)],
        columns |-> Columns(r),
        experts |-> IF Computed(i) THEN {ExpertAt(r, ids[i])} ELSE {}]]

----------------------------------------------------------------------------
(* Where the pairs go.                                                     *)
Dest(p) == ExpertOf(p) \div LocalExperts
LocalId(p) == ExpertOf(p) % LocalExperts
SortedAt(p) ==
  Cardinality({q \in DOMAIN Pairs : Dest(q) < Dest(p) \/ (Dest(q) = Dest(p) /\ q <= p)})
SortIdx == [i \in DOMAIN Pairs |-> CHOOSE p \in DOMAIN Pairs : SortedAt(p) = i]
SendCounts == [d \in Ranks |-> Cardinality({p \in DOMAIN Pairs : Dest(p) = d})]
LocalOnly(r) == SendCounts[r % setup.ep] = Len(Pairs)

SortedTokens == [i \in DOMAIN Pairs |-> TokenOf(SortIdx[i], TopK)]
SortedLocalIds == [i \in DOMAIN Pairs |-> LocalId(SortIdx[i])]

(* result[sort_idx] = combined, and one row for each token.                *)
Unsorted(rows) == [p \in DOMAIN Pairs |-> rows[SortedAt(p)]]
PerToken(rows) == [t \in 1..Tokens |-> [k \in 1..TopK |-> rows[(t - 1) * TopK + k]]]

----------------------------------------------------------------------------
(* The collectives.                                                        *)
Call(r, op, data) ==
  /\ calls' = [calls EXCEPT ![r] = Append(@, [op |-> op, data |-> data])]
  /\ phase' = [phase EXCEPT ![r] = op]

Latest(r) == calls[r][Len(calls[r])]
Given(q, r) == calls[q][Len(calls[r])].data
Ended(r, op) ==
  /\ phase[r] = op
  /\ \A q \in Ranks : Len(calls[q]) >= Len(calls[r]) /\ calls[q][Len(calls[r])].op = op
  /\ UNCHANGED <<setup, weightVars, routes>>

(* all_to_all_single: r gets from each rank the piece that is for r.       *)
Offset(splits, r) == FoldFunctionOnSet(+, 0, splits, 0..r - 1)
PieceFor(sent, r) ==
  SubSeq(sent.rows, Offset(sent.in, r) + 1, Offset(sent.in, r) + sent.in[r])
Exchanged(r) == FlattenSeq([q \in 1..setup.ep |-> PieceFor(Given(q - 1, r), r)])

NextLayer(r, result) ==
  /\ out' = [out EXCEPT ![r] = Append(@, result)]
  /\ IF Len(out[r]) + 1 < Layers THEN Call(r, "attention", {}) ELSE Call(r, "logits", {})

----------------------------------------------------------------------------
(* The layers.  Embedding, output projection and dense layers are sums     *)
(* over the ranks, the logits are gathered.                                *)
Embed(r) ==
  /\ phase[r] = "asked"
  /\ Call(r, "embedding", {})
  /\ UNCHANGED <<setup, weightVars, routes, out>>

Attend(r) == Ended(r, "embedding") /\ Call(r, "attention", {}) /\ UNCHANGED out

DenseMLP(r) ==
  /\ Ended(r, "attention") /\ setup.experts = 0
  /\ Call(r, "sum", <<>>) /\ UNCHANGED out

(* Expert parallelism goes without the sum, whatever the back end was.     *)
AfterExperts(r, rows) ==
  IF UsesEP THEN NextLayer(r, PerToken(rows)) ELSE Call(r, "sum", rows) /\ UNCHANGED out

FusedMoE(r) ==
  /\ Ended(r, "attention") /\ setup.experts > 0 /\ MoeBackend = "fused"
  /\ AfterExperts(r, FusedExperts(r, [t \in 1..Tokens |-> t], FlatIds, TopK))

(* The sum over the ranks puts the columns together.                       *)
SumUp(r) ==
  /\ Ended(r, "sum")
  /\ NextLayer(r, IF setup.experts = 0 THEN <<>> ELSE
       PerToken([p \in DOMAIN Pairs |->
         [Given(r, r)[p] EXCEPT !.columns = UNION {Given(q, r)[p].columns : q \in Ranks}]]))

(* Mutant of SkipsExchange: nothing to send is taken for all is local.     *)
NothingToSend(r) == \A d \in Ranks \ {r} : SendCounts[d] <= 1

SkipsExchange(r) == LocalOnly(r)

LocalMoE(r) ==
  /\ Ended(r, "attention") /\ setup.experts > 0 /\ MoeBackend = "ep" /\ SkipsExchange(r)
  /\ AfterExperts(r, Unsorted(FusedExperts(r, SortedTokens, SortedLocalIds, 1)))

GatherCounts(r) ==
  /\ Ended(r, "attention") /\ setup.experts > 0 /\ MoeBackend = "ep" /\ ~SkipsExchange(r)
  /\ Call(r, "counts", SendCounts) /\ UNCHANGED out

(* Mutant of RecvCounts: the row of the gathered table, not its column.    *)
OwnRow(r) == [q \in Ranks |-> Given(r, r)[q]]

RecvCounts(r) == [q \in Ranks |-> Given(q, r)[r]]

(* The exchange of the tokens and that of their local experts.             *)
Dispatch(r) ==
  /\ Ended(r, "counts")
  /\ Call(r, "dispatch",
       [rows |-> [i \in DOMAIN Pairs |-> [token |-> SortedTokens[i], id |-> SortedLocalIds[i]]],
        in |-> SendCounts, out |-> RecvCounts(r)])
  /\ UNCHANGED out

Combine(r) ==
  LET got == Exchanged(r)
      sent == Latest(r).data
  IN /\ Ended(r, "dispatch")
     /\ Call(r, "combine",
          [rows |-> FusedExperts(r, [i \in DOMAIN got |-> got[i].token],
                                    [i \in DOMAIN got |-> got[i].id], 1),
           in |-> sent.out, out |-> sent.in])
     /\ UNCHANGED out

FinishMoE(r) == Ended(r, "combine") /\ NextLayer(r, PerToken(Unsorted(Exchanged(r))))

GatherLogits(r) ==
  /\ Ended(r, "logits")
  /\ phase' = [phase EXCEPT ![r] = "done"]
  /\ UNCHANGED <<calls, out>>

ForwardStep(r) ==
  \/ Embed(r) \/ Attend(r) \/ DenseMLP(r) \/ FusedMoE(r) \/ SumUp(r) \/ LocalMoE(r)
  \/ GatherCounts(r) \/ Dispatch(r) \/ Combine(r) \/ FinishMoE(r) \/ GatherLogits(r)
=============================================================================
