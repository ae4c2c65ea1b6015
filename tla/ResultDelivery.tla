--------------------------- MODULE ResultDelivery ---------------------------
(***************************************************************************)
(* How an answer of the upstream reaches the client (transport/http/       *)
(* inference): copied piece after piece as it is read, within a limit,     *)
(* while its usage is picked out of it, and then finalized.                *)
(*                                                                         *)
(* A body is a sequence of symbols: "n" ends a line, "d" is the prefix     *)
(* data:, and the members of Facts are documents that tell the usage; any  *)
(* other symbol is text.                                                   *)
(***************************************************************************)
EXTENDS Naturals, Sequences, SequencesExt

CONSTANTS Bodies,               \* set of [form, text]; form: stream, json or media
          Facts, MaxChunk,      \* MaxChunk: what one read returns at most
          TransferLimit,        \* form -> symbols that may be copied
          LineLimit,            \* maxStreamEventInspectionBytes
          DocumentLimit         \* maxJSONMetadataInspectionBytes

VARIABLES body, refused, sized, \* the answer: its status is an error; its length is announced
          at, got, given,       \* symbols read from the upstream, and given to the client
          pending, usage, code, \* responseInspector or metadataBody; what finalize gets
          finalized             \* how often

vars == <<body, refused, sized, at, got, given, pending, usage, code, finalized>>

form == body.form
Limit == TransferLimit[form]
Min2(x, y) == IF x < y THEN x ELSE y
Skipped == <<"skipped">>

Init ==
    /\ body \in Bodies /\ refused \in BOOLEAN /\ sized \in BOOLEAN
    /\ at = "start" /\ got = 0 /\ given = 0 /\ pending = <<>> /\ usage = "none"
    /\ code = "" /\ finalized = 0

TypeOK ==
    /\ at \in {"start", "copy", "over"} /\ given <= got /\ got <= Len(body.text)
    /\ usage \in Facts \cup {"none"} /\ finalized \in 0..2
    /\ code \in {"", "upstream_error", "stream_interrupted", "response_too_large"}

--------------------------------------------------------------------------------
extractMetadata(document, known) == IF Len(document) = 1 /\ document[1] \in Facts THEN document[1] ELSE known

Line(line, known) == IF line # <<>> /\ line[1] = "d" THEN extractMetadata(Tail(line), known) ELSE known

InspectChunk(seen, chunk) ==            \* mutant: a line ends with its piece
    LET step(acc, s) == IF s = "n" THEN [rest |-> <<>>, fact |-> Line(acc.rest, acc.fact)]
                        ELSE [acc EXCEPT !.rest = Append(@, s)]
    IN FoldLeft(step, [seen EXCEPT !.rest = <<>>], chunk)

Inspect(seen, chunk) ==
    LET step(acc, s) == IF s = "n" THEN [rest |-> <<>>, fact |-> Line(acc.rest, acc.fact)]
                        ELSE [acc EXCEPT !.rest = Append(@, s)]
        read == FoldLeft(step, seen, chunk)
    IN IF Len(read.rest) > LineLimit THEN [read EXCEPT !.rest = <<>>] ELSE read

Collected(chunk) ==
    IF pending = Skipped \/ Len(pending) + Len(chunk) > DocumentLimit THEN Skipped ELSE pending \o chunk

--------------------------------------------------------------------------------
Finalize(error) ==          \* the deferred calls: finalize, then close
    /\ at' = "over" /\ finalized' = finalized + 1
    /\ code' = IF error = "" THEN (IF refused /\ form # "media" THEN "upstream_error" ELSE "") ELSE error

(* An announced length above the limit is refused before anything is copied. *)
Begin ==
    /\ at = "start"
    /\ IF sized /\ Len(body.text) > Limit THEN Finalize("response_too_large") ELSE at' = "copy" /\ UNCHANGED <<code, finalized>>
    /\ UNCHANGED <<body, refused, sized, got, given, pending, usage>>

copyStream(chunk, delivered) ==
    LET seen == Inspect([rest |-> pending, fact |-> usage], chunk)
    IN IF got + Len(chunk) > Limit THEN Finalize("response_too_large") /\ UNCHANGED <<given, pending, usage>>
       ELSE /\ pending' = seen.rest /\ usage' = seen.fact
            /\ IF delivered THEN given' = given + Len(chunk) /\ UNCHANGED <<at, code, finalized>>
               ELSE Finalize("stream_interrupted") /\ UNCHANGED given

copyJSON(chunk, delivered) ==
    /\ UNCHANGED usage
    /\ IF got + Len(chunk) > Limit THEN Finalize("response_too_large") /\ UNCHANGED <<given, pending>>
       ELSE IF ~ delivered THEN Finalize("stream_interrupted") /\ UNCHANGED <<given, pending>>
       ELSE given' = given + Len(chunk) /\ pending' = Collected(chunk) /\ UNCHANGED <<at, code, finalized>>

copyMediaSilently(chunk, delivered) ==  \* mutant: what is above the limit is left out
    LET size == Min2(Len(chunk), Limit - given) IN
    /\ UNCHANGED <<pending, usage>>
    /\ IF ~ delivered THEN Finalize("stream_interrupted") /\ UNCHANGED given
       ELSE given' = given + size /\ UNCHANGED <<at, code, finalized>>

copyMedia(chunk, delivered) ==
    LET size == Min2(Len(chunk), Limit - given) IN
    /\ UNCHANGED <<pending, usage>>
    /\ IF size = 0 THEN Finalize("response_too_large") /\ UNCHANGED given
       ELSE IF ~ delivered THEN Finalize("stream_interrupted") /\ UNCHANGED given
       ELSE /\ given' = given + size
            /\ IF size < Len(chunk) THEN Finalize("response_too_large") ELSE UNCHANGED <<at, code, finalized>>

Copy(n, delivered) ==       \* delivered: the client still takes what is written
    /\ at = "copy" /\ n \in 1..Min2(MaxChunk, Len(body.text) - got)
    /\ LET chunk == SubSeq(body.text, got + 1, got + n)
       IN CASE form = "stream" -> copyStream(chunk, delivered)
            [] form = "json"   -> copyJSON(chunk, delivered)
            [] OTHER           -> copyMedia(chunk, delivered)
    /\ got' = got + n
    /\ UNCHANGED <<body, refused, sized>>

EndOfBody ==
    /\ at = "copy" /\ got = Len(body.text)
    /\ usage' = CASE form = "stream" -> Inspect([rest |-> pending, fact |-> usage], <<"n">>).fact
                  [] form = "json"   -> IF pending = Skipped THEN usage ELSE extractMetadata(pending, usage)
                  [] OTHER           -> usage
    /\ Finalize("")
    /\ UNCHANGED <<body, refused, sized, got, given, pending>>

ReadFails ==
    /\ at = "copy" /\ Finalize("stream_interrupted")
    /\ UNCHANGED <<body, refused, sized, got, given, pending, usage>>

Next == Begin \/ (\E n \in 1..MaxChunk, delivered \in BOOLEAN : Copy(n, delivered)) \/ EndOfBody \/ ReadFails

--------------------------------------------------------------------------------
Whole == given = Len(body.text)

(* A line that ends in a fact, by its symbols.                             *)
EndsInFact(text, from, to) ==
    /\ from = 1 \/ text[from - 1] = "n"
    /\ to = Len(text) \/ text[to + 1] = "n"
    /\ "n" \notin {text[k] : k \in from..to} /\ text[to - 1] = "d" /\ text[to] \in Facts

(* The ends of the lines that tell the usage; and of those that are too    *)
(* long to be kept and may seem to, once what came before was dropped.     *)
Tells(text) == {to \in DOMAIN text : to > 1 /\ EndsInFact(text, to - 1, to)}
MayTell(text) == {to \in DOMAIN text : \E from \in 1..to : from + 1 + LineLimit < to /\ EndsInFact(text, from, to)}
LastOf(text, ends) == IF ends = {} THEN "none" ELSE text[Max(ends)]

(* What an answer tells of its usage does not depend on how it was cut     *)
(* into pieces: at the end of a stream it is what the last of its lines    *)
(* says, also when that line is not terminated, and of a document what the *)
(* document says, unless that is too long to be kept.  Only a line longer  *)
(* than LineLimit may be taken for the data line it ends with, and then no *)
(* line that comes later is missed.                                        *)
UsageIsTold ==
    (at = "over" /\ code \in {"", "upstream_error"}) =>
        CASE form = "stream" -> \E misread \in SUBSET MayTell(body.text) : usage = LastOf(body.text, Tells(body.text) \cup misread)
          [] form = "json"   -> usage = IF Len(body.text) > DocumentLimit THEN "none" ELSE extractMetadata(body.text, "none")
          [] OTHER           -> usage = "none"

(* An answer counts as delivered exactly when all of it was: whatever is   *)
(* cut off at the limit, by the client or by the upstream has an error     *)
(* code, and a body that fits the limit is not refused for its size.       *)
SuccessIsWhole ==
    at = "over" =>
        /\ finalized = 1
        /\ code \in {"", "upstream_error"} => Whole
        /\ code = "response_too_large" <=> (code # "stream_interrupted" /\ Len(body.text) > Limit)
        /\ given <= Limit
=============================================================================
