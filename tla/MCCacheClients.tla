---------------------------- MODULE MCCacheClients ----------------------------
(* Small instances of CacheClients for TLC: prompts that share a prefix,   *)
(* that extend one another and that part after one block.                  *)
EXTENDS CacheClients

CONSTANTS a, b

MCPrompts == {<<a, a, a>>, <<a, a, b, b>>}
MCTokens == {b}
RequestSymmetry == Permutations(Reqs)
=============================================================================
