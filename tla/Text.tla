-------------------------------- MODULE Text --------------------------------
(***************************************************************************)
(* tokenizer/detokenize.py on top of Pipeline: the text that the tokens of *)
(* a reply stand for, as the client gets it piece by piece.                *)
(*                                                                         *)
(* A token is a sequence of characters and of halves of a character that   *)
(* takes two tokens: `lead` and `trail` decode to one character together   *)
(* and to the replacement character each by itself.                        *)
(***************************************************************************)
EXTENDS Pipeline
S == INSTANCE SequencesExt

CONSTANTS Vocab, Eos,    \* the tokens the model samples; eos_token_id
          Chinese        \* the characters of the CJK blocks

VARIABLES
  ids,        \* ids[u]: the tokens the scheduler sent for u
  status,     \* decode_map: the DecodeStatus of u, or a new one
  texts       \* history: the incremental outputs, in the order of replies

textVars == <<ids, status, texts>>

Replacement == "?"
NewStatus == [ids |-> <<>>, str |-> <<>>, read |-> 0, surr |-> 0, sent |-> 0]

TextInit == /\ Init
            /\ ids = [u \in Uids |-> <<>>]
            /\ status = [u \in Uids |-> NewStatus]
            /\ texts = [u \in Uids |-> <<>>]

(* The text of a sequence of characters and halves, character by character.*)
Whole(p, i) == p[i] = "lead" /\ i < Len(p) /\ p[i + 1] = "trail"
CharAt(p, i) ==
  IF Whole(p, i) THEN <<"lead+trail">>
  ELSE IF i > 1 /\ Whole(p, i - 1) THEN <<>>
  ELSE IF p[i] \in {"lead", "trail"} THEN <<Replacement>> ELSE <<p[i]>>
TextOf(p) == S!FlattenSeq([i \in DOMAIN p |-> CharAt(p, i)])

(* batch_decode of the tokenizer, one that drops a space at the beginning: *)
(* this is why detokenize decodes with the tokens before, up to surr.      *)
DropSpace(text) == IF text # <<>> /\ Head(text) = " " THEN Tail(text) ELSE text
Decode(tokenIds) == DropSpace(TextOf(S!FlattenSeq(tokenIds)))

FindPrintableText(text) ==
  LET n == Len(text)
      spaces == {i \in 1..n : text[i] = " "}
  IN IF n > 0 /\ (text[n] = "newline" \/ text[n] \in Chinese) THEN text
     ELSE IF n > 1 /\ text[n - 1] \in Chinese THEN SubSeq(text, 1, n - 1)
     ELSE IF spaces = {} THEN <<>>
     ELSE SubSeq(text, 1, CHOOSE i \in spaces : \A j \in spaces : j <= i)

(* detokenize, for one message.  What ends in half a character is held back*)
(* but for its printable beginning.                                        *)
Read(s, known) ==
  LET readStr == Decode(SubSeq(known, s.surr + 1, Len(known)))
      surrStr == Decode(SubSeq(known, s.surr + 1, s.read))
  IN SubSeq(readStr, Len(surrStr) + 1, Len(readStr))
Complete(new) == new # <<>> /\ new[Len(new)] # Replacement

(* Mutant of Advance: the two offsets are moved in the other order.        *)
ReadFirst(s, known, output) ==
  [s EXCEPT !.ids = known, !.str = output, !.read = Len(known), !.surr = Len(known)]

Advance(s, known, output) ==
  [s EXCEPT !.ids = known, !.str = output, !.surr = s.read, !.read = Len(known)]

Increment(s, known) ==
  LET new == Read(s, known)
      output == s.str \o (IF Complete(new) THEN new ELSE FindPrintableText(new))
      next == IF Complete(new) THEN Advance(s, known, output) ELSE [s EXCEPT !.ids = known]
  IN [status |-> [next EXCEPT !.sent = Len(output)],
      text |-> SubSeq(output, s.sent + 1, Len(output))]

DetokenizeText(u) ==
  /\ Detokenize(u)
  /\ LET msg == Head(tokens[u])
         token == ids[u][msg.n]
         known == IF msg.last /\ token = Eos THEN status[u].ids ELSE Append(status[u].ids, token)
         result == Increment(status[u], known)
     IN /\ texts' = [texts EXCEPT ![u] = Append(@, result.text)]
        /\ status' = [status EXCEPT ![u] = IF msg.last THEN NewStatus ELSE result.status]
  /\ UNCHANGED ids

(* The scheduler sends a token of the model.                               *)
SendText(u) ==
  /\ \E token \in Vocab \cup {Eos} :
       /\ \/ \E inFlight \in BOOLEAN : Reply(u, token = Eos, inFlight)
          \/ Trail(u, token = Eos)
       /\ ids' = [ids EXCEPT ![u] = Append(@, token)]
  /\ UNCHANGED <<status, texts>>

TextNext ==
  \/ \E u \in Uids : DetokenizeText(u) \/ SendText(u)
  \/ /\ \/ \E u \in Uids : Generate(u) \/ Disconnect(u) \/ Front(u)
        \/ \E w \in Encoders : SchedulerTakes(w) \/ Encode(w)
     /\ UNCHANGED textVars

TextSpec == TextInit /\ [][TextNext]_<<vars, textVars>>
FairTextSpec == TextSpec /\ Fairness

----------------------------------------------------------------------------
(* The tokens before the n-th reply and its own, without the end-of-text  *)
(* token.                                                                  *)
Shown(u, n) == SubSeq(ids[u], 1, IF n > 0 /\ ids[u][n] = Eos THEN n - 1 ELSE n)

(* What the client was sent is the beginning of the text of the tokens     *)
(* behind it, each character once; and it is all of that text, unless the  *)
(* text ends in half a character.                                          *)
TextFaithful ==
  \A u \in Uids :
    LET n == Len(delivered[u])
        text == S!FlattenSeq(SubSeq(texts[u], 1, n))
        full == Decode(Shown(u, n))
    IN /\ S!IsPrefix(text, full)
       /\ full = <<>> \/ Complete(full) => text = full

----------------------------------------------------------------------------
(* A vocabulary in which the printable beginning of a text that ends in    *)
(* half a character never gets shorter.  It could where half a character   *)
(* follows a CJK character: then the next token completes the half, or has *)
(* a space, or a CJK character before its own half.                        *)
Symbols == UNION {{token[i] : i \in DOMAIN token} : token \in Vocab}
Wide(text) == /\ Len(text) > 1 /\ text[Len(text)] = Replacement
              /\ text[Len(text) - 1] \in Chinese
Cut(token) ==
  LET text == TextOf(token)
  IN \/ Wide(text)
     \/ "lead+trail" \in Chinese /\ token[1] = "trail" /\ Len(text) = 2 /\ text[2] = Replacement
PrintsOn(token) ==
  LET text == TextOf(token)
  IN Wide(text) \/ \E i \in DOMAIN text : text[i] = " "
VocabOK ==
  /\ Vocab \subseteq Seq(Symbols) \ {<<>>}
  /\ Replacement \notin Chinese
  /\ \A t, u \in Vocab : Cut(t) => Complete(TextOf(t \o u)) \/ PrintsOn(u)
=============================================================================
