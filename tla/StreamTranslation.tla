-------------------------- MODULE StreamTranslation --------------------------
(***************************************************************************)
(* The translation of a Responses stream into Chat Completions or          *)
(* Anthropic Messages (provider/conversation, used by the Build and        *)
(* Console providers).  The upstream sends text, one reasoning item and    *)
(* calls of functions, whose arguments come in pieces, whole at the end of *)
(* the item, or both; then it completes, reports an error or breaks off.   *)
(***************************************************************************)
EXTENDS StopFilter

CONSTANTS Symbols, MaxText,     \* bound: the text
          Calls, Pieces         \* bounds: function calls, and their arguments

VARIABLES op,        \* "chat" or "messages"
          got,       \* the text the upstream sent
          items,     \* what it sent of each function call
          upstream,  \* "open", "ended": it said how it ended, "closed"
          conv       \* streamConverter and what it has written

vars == <<op, got, items, upstream, conv>>

Whole == Pieces + 1       \* the argument list in one piece

Init ==
    /\ op \in {"chat", "messages"} /\ got = <<>>
    /\ items = [i \in Calls |-> [is |-> "none", pieces |-> 0]] /\ upstream = "open"
    /\ conv = [out |-> <<>>, held |-> <<>>, matched |-> <<>>, blocks |-> <<>>, thinking |-> 0, text |-> 0,
               tools |-> [i \in Calls |-> [is |-> "none"]], ends |-> <<>>]

TypeOK ==
    /\ got \in BoundedSeq(Symbols, MaxText) /\ conv.ends \in BoundedSeq({"stop", "error"}, 2)
    /\ conv.matched = <<>> \/ conv.matched \in StopSequences
    /\ \A i \in Calls : items[i].pieces <= Pieces

Finished == conv.ends # <<>>
Muted == conv.matched # <<>>       \* only an end is looked at
Put(c) == conv' = IF Muted \/ Finished THEN conv ELSE c

--------------------------------------------------------------------------------
(* Content blocks; a Chat client has none.                                 *)

NewBlock(c) == IF op = "messages" THEN [c EXCEPT !.blocks = Append(@, "open")] ELSE c
CloseBlock(c, n) ==
    IF op # "messages" \/ n = 0 THEN c
    ELSE [c EXCEPT !.blocks[n] = IF @ = "open" THEN "closed" ELSE "closed twice"]

startText(c) == IF op # "messages" \/ c.text # 0 THEN c ELSE [NewBlock(c) EXCEPT !.text = Len(c.blocks) + 1]
textDelta(c, t) ==
    LET p == Push(c.held, t)
    IN  IF op = "chat" THEN [c EXCEPT !.out = @ \o t]
        ELSE [startText(c) EXCEPT !.out = @ \o p.emit, !.held = p.pending, !.matched = p.matched]

thinkingStart(c) == IF op = "chat" \/ c.thinking # 0 THEN c ELSE [NewBlock(c) EXCEPT !.thinking = Len(c.blocks) + 1]
thinkingDone(c) == IF c.thinking = 0 \/ c.blocks[c.thinking] = "closed" THEN c ELSE CloseBlock(c, c.thinking)

toolStart(c, i) ==
    [NewBlock(c) EXCEPT !.tools[i] = [is |-> "tool", block |-> Len(c.blocks) + 1, sent |-> FALSE, closed |-> FALSE, args |-> <<>>]]

toolDeltaUnmarked(c, i, piece) ==      \* mutant: it is not remembered that arguments were sent
    IF c.tools[i].is = "none" THEN c ELSE [c EXCEPT !.tools[i].args = Append(@, piece)]
toolDelta(c, i, piece) ==
    IF c.tools[i].is = "none" THEN c ELSE [c EXCEPT !.tools[i].sent = TRUE, !.tools[i].args = Append(@, piece)]

(* At the end of the arguments and again at the end of the item.           *)
toolArgumentsDone(c, i) ==
    LET tool == c.tools[i]
        d == IF tool.sent THEN c ELSE [c EXCEPT !.tools[i].sent = TRUE, !.tools[i].args = Append(@, Whole)]
    IN  IF tool.is = "none" \/ tool.closed THEN c
        ELSE IF op = "chat" THEN d
        ELSE CloseBlock([d EXCEPT !.tools[i].closed = TRUE], tool.block)

doneMessages(c) ==
    LET t == IF c.matched = <<>> /\ c.held # <<>> THEN [startText(c) EXCEPT !.out = @ \o c.held, !.held = <<>>] ELSE c
        d == CloseBlock(thinkingDone(t), t.text)
        left == {d.tools[i].block : i \in {j \in Calls : d.tools[j].is = "tool" /\ ~d.tools[j].closed}}
    IN  [d EXCEPT !.blocks = [n \in 1..Len(@) |-> IF n \in left THEN "closed" ELSE @[n]]]
done(c) == [IF op = "messages" THEN doneMessages(c) ELSE c EXCEPT !.ends = Append(@, "stop")]

--------------------------------------------------------------------------------
(* handle: the events of the upstream, and the end of its body.            *)

Text(t) ==
    /\ upstream = "open" /\ Len(got) + Len(t) <= MaxText
    /\ got' = got \o t /\ Put(textDelta(conv, t))
    /\ UNCHANGED <<op, items, upstream>>

ReasoningDelta ==
    /\ upstream = "open" /\ Put(thinkingStart(conv))
    /\ UNCHANGED <<op, got, items, upstream>>
ReasoningDone ==
    /\ upstream = "open" /\ Put(thinkingDone(conv))
    /\ UNCHANGED <<op, got, items, upstream>>

ItemAdded(i) ==
    /\ upstream = "open" /\ items[i].is = "none"
    /\ items' = [items EXCEPT ![i].is = "added"] /\ Put(toolStart(conv, i))
    /\ UNCHANGED <<op, got, upstream>>
ArgumentsDelta(i) ==
    /\ upstream = "open" /\ items[i].is = "added" /\ items[i].pieces < Pieces
    /\ items' = [items EXCEPT ![i].pieces = @ + 1] /\ Put(toolDelta(conv, i, items[i].pieces + 1))
    /\ UNCHANGED <<op, got, upstream>>
ArgumentsDone(i) ==
    /\ upstream = "open" /\ items[i].is \in {"added", "complete"} /\ items[i].pieces \in {0, Pieces}
    /\ items' = [items EXCEPT ![i].is = IF @ = "added" THEN "complete" ELSE "done"]
    /\ Put(toolArgumentsDone(conv, i))
    /\ UNCHANGED <<op, got, upstream>>

Completed ==
    /\ upstream = "open" /\ upstream' = "ended"
    /\ conv' = IF Finished THEN conv ELSE done(conv)
    /\ UNCHANGED <<op, got, items>>

Error ==
    /\ upstream = "open" /\ upstream' = "ended"
    /\ conv' = IF Finished THEN conv ELSE [conv EXCEPT !.ends = Append(@, "error")]
    /\ UNCHANGED <<op, got, items>>

(* finish: a body that simply ends is taken for complete; a read that      *)
(* fails closes the client's stream as it is.                              *)
Eof ==
    /\ upstream # "closed" /\ upstream' = "closed"
    /\ \/ conv' = IF Finished THEN conv ELSE done(conv)
       \/ upstream = "open" /\ UNCHANGED conv
    /\ UNCHANGED <<op, got, items>>

Next ==
    \/ \E s \in Symbols : Text(<<s>>)
    \/ \E s, t \in Symbols : Text(<<s, t>>)
    \/ ReasoningDelta \/ ReasoningDone \/ \E i \in Calls : ItemAdded(i) \/ ArgumentsDelta(i) \/ ArgumentsDone(i)
    \/ Completed \/ Error \/ Eof

Spec == Init /\ [][Next]_vars

--------------------------------------------------------------------------------
Stopped == conv.ends = <<"stop">>

(* A message that is ended has been ended once, its text is the upstream's *)
(* up to the first stop sequence, however it was cut, and all its content  *)
(* blocks are closed, each once.                                           *)
MessageWhole ==
    /\ Len(conv.ends) <= 1
    /\ \A n \in 1..Len(conv.blocks) : conv.blocks[n] # "closed twice"
    /\ Stopped => /\ conv.out = IF op = "messages" THEN applyStopSequences(got) ELSE got
                  /\ \A n \in 1..Len(conv.blocks) : conv.blocks[n] = "closed"

(* The client gets the arguments of a complete call once, in whichever of  *)
(* its ways the upstream sends them.                                       *)
ArgumentsOnce ==
    \A i \in Calls :
        Stopped /\ ~Muted /\ items[i].is \in {"complete", "done"}
        => conv.tools[i].args = IF items[i].pieces = 0 THEN <<Whole>> ELSE [p \in 1..Pieces |-> p]
=============================================================================
