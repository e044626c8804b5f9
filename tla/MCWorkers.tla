------------------------------ MODULE MCWorkers ------------------------------
(* Small instances of Workers for TLC.                                     *)
EXTENDS Workers

Base == [tp |-> 2, ep |-> 1, pynccl |-> TRUE, tokenizers |-> 0, qo |-> 4, kv |-> 2,
         inter |-> 2, vocab |-> 4, experts |-> 2, moe |-> "auto", free |-> <<20, 20>>]

(* Expert parallelism with the back end for it and with the default one,   *)
(* tensor parallelism with either, a single rank, replicated heads on four *)
(* ranks; ranks whose memory differs, by so much that one cannot allocate  *)
(* the cache, by too much; a vocabulary, heads, experts that do not        *)
(* divide.                                                                 *)
MCSetups ==
  {[Base EXCEPT !.ep = 2, !.experts = 4, !.moe = "ep"],
   [Base EXCEPT !.ep = 2, !.experts = 4],
   [Base EXCEPT !.kv = 1],
   [Base EXCEPT !.moe = "ep"],
   [Base EXCEPT !.experts = 0, !.pynccl = FALSE, !.tokenizers = 2],
   [Base EXCEPT !.tp = 1, !.kv = 1],
   [Base EXCEPT !.tp = 4, !.experts = 0, !.inter = 4, !.free = <<20, 20, 20, 19>>],
   [Base EXCEPT !.experts = 0, !.free = <<20, 19>>],
   [Base EXCEPT !.experts = 0, !.free = <<20, 18>>],
   [Base EXCEPT !.experts = 0, !.free = <<20, 17>>],
   [Base EXCEPT !.experts = 0, !.vocab = 3],
   [Base EXCEPT !.experts = 0, !.qo = 3, !.kv = 1],
   [Base EXCEPT !.ep = 2, !.experts = 3, !.moe = "ep"],
   [Base EXCEPT !.experts = 0, !.free = <<6, 6>>]}
==============================================================================
