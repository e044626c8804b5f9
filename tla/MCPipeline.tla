------------------------------ MODULE MCPipeline ------------------------------
(* Small instances of Pipeline and Text for TLC.                           *)
EXTENDS Text

MCTwo == 1..2

(* The second finished reply of the overlapped loop needs three tokens;    *)
(* the second request is the one that is dropped.                          *)
MCMaxTokens == <<3, 1>>

(* Two tokens that end in half a character, and the other half.            *)
MCVocab == {<<" ", "lead">>, <<" ", "C", "lead">>, <<"trail">>}
MCChinese == {"C"}
MCEos == <<"eos">>

(* The vocabulary is one for which TextFaithful is proved.                 *)
ASSUME MCVocabOK == VocabOK
===============================================================================
