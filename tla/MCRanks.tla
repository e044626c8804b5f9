------------------------------- MODULE MCRanks --------------------------------
(* Small instances of Ranks for TLC.                                       *)
EXTENDS Ranks

MCTwo == 1..2

(* The first request ends at its length, the second at its second token,   *)
(* which is the end-of-sequence token, with another decode in flight.      *)
MCMaxTokens == <<2, 4>>
MCEosAt == <<9, 2>>
===============================================================================
