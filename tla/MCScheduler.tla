----------------------------- MODULE MCScheduler -----------------------------
(* Small instances of Scheduler for TLC.                                   *)
EXTENDS Scheduler

CONSTANTS x, y, eos

MCVocab == {x, eos}

(* Prompts that share a prefix, that extend one another.                   *)
MCThree == 1..3
MCPrompt == <<<<x, x>>, <<x, y>>, <<x, x, y>>>>
MCMaxTokens == <<4, 3, 1>>

(* Prompts of one, two and three pages of two tokens, with shared pages.   *)
MCPagedPrompt == <<<<x, x, x>>, <<x, x, y, y>>, <<x, x, x, x, y>>>>
MCPagedTokens == <<3, 2, 1>>

(* Two requests that decode for long.                                      *)
MCTwo == 1..2
MCLongTokens == <<5, 4>>

(* A prompt of two chunks and a long answer, then one with a short answer. *)
MCTwoLong == <<<<x, x, x, x>>, <<y, y, y, y>>>>
MCLongThenOne == <<4, 1>>
=============================================================================
