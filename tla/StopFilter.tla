----------------------------- MODULE StopFilter -----------------------------
(***************************************************************************)
(* The stop sequences of a Messages request, as the streams apply them     *)
(* chunk by chunk and the whole responses at once (provider/conversation,  *)
(* and again in provider/web).  A text is a sequence of symbols.           *)
(***************************************************************************)
EXTENDS Naturals, Sequences, FiniteSets, SequencesExt

CONSTANT StopSequences

Within(s, text) == s \in SubSeqs(text)
Found(text) == {s \in StopSequences : Within(s, text)}
At(s, text) == IndexFirstSubSeq(s, text)
First(text) == CHOOSE s \in Found(text) : \A t \in Found(text) : At(s, text) <= At(t, text)

(* A whole text ends before the first stop sequence in it.                 *)
applyStopSequences(text) ==
    IF Found(text) = {} THEN text ELSE SubSeq(text, 1, At(First(text), text) - 1)

(* What a stop sequence could begin with is held back.                     *)
Hold(text) ==
    LET ends == {n \in 0..Len(text) : \E s \in StopSequences :
                    n < Len(s) /\ SubSeq(text, Len(text) - n + 1, Len(text)) = SubSeq(s, 1, n)}
    IN  CHOOSE n \in ends : \A m \in ends : m <= n

PushAtOnce(pending, delta) ==      \* mutant: nothing is held back
    LET all == pending \o delta
        stop == Found(all) # {}
    IN  [emit |-> applyStopSequences(all), pending |-> <<>>, matched |-> IF stop THEN First(all) ELSE <<>>]

Push(pending, delta) ==
    LET all == pending \o delta
        emitAt == Len(all) - Hold(all)
    IN  IF Found(all) # {}
        THEN [emit |-> applyStopSequences(all), pending |-> <<>>, matched |-> First(all)]
        ELSE [emit |-> SubSeq(all, 1, emitAt), pending |-> SubSeq(all, emitAt + 1, Len(all)), matched |-> <<>>]
=============================================================================
