------------------------------ MODULE MCServing ------------------------------
(* Small instances of Serving for TLC.                                     *)
EXTENDS Serving

CONSTANTS x, y, eos

MCVocab == {x, eos}

(* Prompts that share a prefix, that extend one another, that share nothing.*)
MCThree == 1..3
MCFour == 1..4
MCPrompt == <<<<x, x>>, <<x, y>>, <<x, x, y>>, <<y, x>>>>
MCMaxTokens == <<4, 3, 1, 1>>

(* Prompts of one, two and three pages of two tokens, with shared pages.   *)
MCPagedPrompt == <<<<x, x, x>>, <<x, x, y, y>>, <<x, x, x, x, y>>>>
MCPagedTokens == <<3, 2, 1>>

MCHybrid == [prefill |-> "fa", decode |-> "fi"]
MCPaged == [prefill |-> "trtllm", decode |-> "fa"]
=============================================================================
