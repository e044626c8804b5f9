------------------------------- MODULE Weights -------------------------------
(***************************************************************************)
(* What each rank holds of a model: models/weight.py cuts every tensor of  *)
(* the checkpoint, layers/ computes with the pieces.  A tensor is cut into *)
(* heads, columns, rows of the vocabulary or experts; the numbers in it do *)
(* not matter.  The files are read in any order.                           *)
(***************************************************************************)
EXTENDS Integers, Sequences, FiniteSets, SequencesExt

CONSTANT Setups  \* the configurations of the server and of its model

ASSUME SetupsAssumption ==
  \A s \in Setups : /\ s.tp \in Nat \ {0} /\ s.ep \in {1, s.tp}
                    /\ {s.qo, s.kv, s.inter, s.vocab} \subseteq Nat \ {0}
                    /\ s.qo % s.kv = 0 /\ s.experts \in Nat
                    /\ s.moe \in {"auto", "fused", "ep"}

VARIABLES
  setup,     \* the configuration of this server
  todo,      \* tensors of experts that a rank has not read yet
  merging,   \* merge_buf of each rank
  stacking,  \* expert_buf of each rank
  weights    \* the stacked parameters of each rank, <<>> until complete

weightVars == <<todo, merging, stacking, weights>>

Ranks == 0..setup.tp - 1
DivCeil(a, b) == (a + b - 1) \div b
UsesEP == setup.ep > 1

(* What _adjust_config leaves of --moe-backend, an option of its own: the  *)
(* default is the fused back end, with expert parallelism too.             *)
MoeBackend == IF setup.moe = "auto" THEN "fused" ELSE setup.moe

----------------------------------------------------------------------------
(* The rows or columns r gets of a dimension that is cut evenly.           *)
Chunk(size, r) == {i \in 0..size - 1 : i \div DivCeil(size, setup.tp) = r}

QoHeads(r) == Chunk(setup.qo, r)

(* Mutant of ReplicatedHead: the replicas of a head are not neighbours.    *)
CyclicHead(r) == r % setup.kv

ReplicatedHead(r) == (r * setup.kv) \div setup.tp

KvHeads(r) == IF setup.kv < setup.tp THEN {ReplicatedHead(r)} ELSE Chunk(setup.kv, r)

VocabRows(r) == Chunk(setup.vocab, r)

(* The part of its intermediate dimension that r computes of an expert.    *)
Columns(r) == IF UsesEP THEN 0..setup.inter - 1 ELSE Chunk(setup.inter, r)

(* The asserts of div_even when the layers are constructed.                *)
DivEven(a) == a % setup.tp = 0
LayersFit ==
  /\ DivEven(setup.qo)
  /\ IF setup.tp > setup.kv THEN setup.tp % setup.kv = 0 ELSE DivEven(setup.kv)
  /\ IF UsesEP THEN DivEven(setup.experts) ELSE DivEven(setup.inter)

(* The embedding has DivCeil rows on every rank, the slice of the last may *)
(* have fewer.                                                             *)
ShapesFit(r) == Cardinality(VocabRows(r)) = DivCeil(setup.vocab, setup.tp)

----------------------------------------------------------------------------
(* Reading the tensors of the experts, one at a time.                      *)
LocalExperts == setup.experts \div setup.ep
LocalStart(r) == IF UsesEP THEN (r % setup.ep) * LocalExperts ELSE 0
Kept(r) == LocalStart(r)..LocalStart(r) + LocalExperts - 1
Tensors(experts) == [expert : experts, slot : {"gate", "up", "down"}]

WeightsInit ==
  /\ setup \in Setups
  /\ todo = [r \in Ranks |-> Tensors(Kept(r))]
  /\ merging = [r \in Ranks |-> {}] /\ stacking = [r \in Ranks |-> {}]
  /\ weights = [r \in Ranks |-> [gate_up |-> <<>>, down |-> <<>>]]

(* The experts of one parameter become one tensor when all are there.      *)
Stack(r, item) ==
  LET all == {i \in stacking[r] \cup {item} : i.param = item.param}
  IN IF Cardinality(all) = LocalExperts
     THEN /\ stacking' = [stacking EXCEPT ![r] = @ \ all]
          /\ weights' = [weights EXCEPT ![r][item.param] =
               [j \in 1..LocalExperts |-> (CHOOSE i \in all : i.at = j - 1).parts]]
     ELSE /\ stacking' = [stacking EXCEPT ![r] = @ \cup {item}]
          /\ UNCHANGED weights

LoadTensor(r, t) ==
  LET local == t.expert - LocalStart(r)
      other == [t EXCEPT !.slot = IF @ = "gate" THEN "up" ELSE "gate"]
  IN /\ t \in todo[r]
     /\ todo' = [todo EXCEPT ![r] = @ \ {t}]
     /\ CASE t.slot = "down" ->
               /\ Stack(r, [param |-> "down", at |-> local, parts |-> <<t>>])
               /\ UNCHANGED merging
          [] t.slot # "down" /\ other \in merging[r] ->
               /\ Stack(r, [param |-> "gate_up", at |-> local,
                            parts |-> IF t.slot = "gate" THEN <<t, other>> ELSE <<other, t>>])
               /\ merging' = [merging EXCEPT ![r] = @ \ {other}]
          [] OTHER ->
               /\ merging' = [merging EXCEPT ![r] = @ \cup {t}]
               /\ UNCHANGED <<stacking, weights>>
     /\ UNCHANGED setup

(* The asserts at the end of load_weight.                                  *)
BuffersEmpty(r) == merging[r] = {} /\ stacking[r] = {}

----------------------------------------------------------------------------
(* What the layers compute with it.                                        *)

(* The head of the keys that the j-th query head of r attends to.          *)
KvHeadOf(r, j) ==
  LET group == Cardinality(QoHeads(r)) \div Cardinality(KvHeads(r))
  IN CHOOSE h \in KvHeads(r) : Cardinality({g \in KvHeads(r) : g < h}) = j \div group

(* The ranks whose vocab_range has v: the others add zeros to the sum.     *)
LookupRanks(v) == {r \in Ranks : v \in VocabRows(r)}

(* The expert that a rank computes for a local index.                      *)
ExpertAt(r, local) == weights[r].gate_up[local + 1][1].expert

Complete(r) == weights[r].gate_up # <<>> /\ weights[r].down # <<>>
Whole(e, parts, slots) == parts = [i \in DOMAIN slots |-> [expert |-> e, slot |-> slots[i]]]
Holds(r, e) ==
  \E j \in 1..LocalExperts : /\ Whole(e, weights[r].gate_up[j], <<"gate", "up">>)
                             /\ Whole(e, weights[r].down[j], <<"down">>)
=============================================================================
