------------------------------ MODULE WebStream ------------------------------
(***************************************************************************)
(* The stream of a Grok Web chat as the client gets it                     *)
(* (streamOpenAIResponse, toolStreamSieve, webMessagesStream).  Text       *)
(* passes a sieve that looks for a block of tool calls; a Messages client  *)
(* gets numbered content blocks and a stop filter besides.  A text is a    *)
(* sequence of symbols; "<", "T" is the tag that opens the block and "/"   *)
(* the one that closes it; an image is text.                               *)
(***************************************************************************)
EXTENDS StopFilter

CONSTANTS Symbols, MaxText, MaxChunk      \* bounds: of the texts

VARIABLES op,        \* operation: "chat", which stands for Responses too, or "messages"
          tools,     \* functions are declared
          got,       \* the text the upstream sent, up to a tool call
          sieve, found, client,
          reading    \* the upstream: "open", "done", "failed"

vars == <<op, tools, got, sieve, found, client, reading>>

Open == <<"<", "T">>
Close == <<"/">>
Chunks == BoundedSeq(Symbols, MaxChunk) \ {<<>>}

Init ==
    /\ op \in {"chat", "messages"} /\ tools \in BOOLEAN /\ got = <<>>
    /\ sieve = [buffer |-> <<>>, capturing |-> FALSE, done |-> FALSE, at |-> 0]
    /\ found = FALSE /\ reading = "open"
    /\ client = [out |-> <<>>, held |-> <<>>, matched |-> <<>>, blocks |-> <<>>,
                 thinking |-> 0, text |-> 0, closed |-> {}]

TypeOK ==
    /\ got \in BoundedSeq(Symbols, MaxText) /\ client.thinking <= Len(client.blocks)
    /\ client.text <= Len(client.blocks) /\ (client.matched = <<>> \/ client.matched \in StopSequences)

--------------------------------------------------------------------------------
(* webMessagesStream.                                                      *)

NewBlock(c, kind) ==
    [c EXCEPT !.blocks = Append(@, "open"), ![kind] = Len(c.blocks) + 1, !.closed = @ \ {kind}]
CloseBlock(c, kind) ==
    IF c[kind] = 0 \/ kind \in c.closed THEN c
    ELSE [c EXCEPT !.closed = @ \cup {kind},
                   !.blocks[c[kind]] = IF @ = "open" THEN "closed" ELSE "closed twice"]
startText(c) == IF c.text # 0 /\ "text" \notin c.closed THEN c ELSE NewBlock(CloseBlock(c, "thinking"), "text")

DeltaText(c, t) ==
    LET p == Push(c.held, t)
    IN  IF c.matched # <<>> THEN c
        ELSE [startText(c) EXCEPT !.out = @ \o p.emit, !.held = p.pending, !.matched = p.matched]
DeltaReasoning(c) == IF c.matched # <<>> \/ c.thinking # 0 THEN c ELSE NewBlock(c, "thinking")

ToolsWritten(c) ==
    LET d == CloseBlock(CloseBlock(c, "thinking"), "text")
    IN  [d EXCEPT !.blocks = Append(@, "closed")]
FinishOpen(c) ==       \* mutant: only the text block is closed
    LET d == IF c.matched = <<>> /\ c.held # <<>> THEN [startText(c) EXCEPT !.out = @ \o c.held, !.held = <<>>] ELSE c
    IN  CloseBlock(d, "text")
Finish(c) ==
    LET d == IF c.matched = <<>> /\ c.held # <<>> THEN [startText(c) EXCEPT !.out = @ \o c.held, !.held = <<>>] ELSE c
    IN  CloseBlock(CloseBlock(d, "thinking"), "text")

writeDelta(c, t) ==
    IF t = <<>> THEN c ELSE IF op = "messages" THEN DeltaText(c, t) ELSE [c EXCEPT !.out = @ \o t]
writeTools(c) == IF op = "messages" THEN ToolsWritten(c) ELSE c
writeDone(c) == IF op = "messages" THEN Finish(c) ELSE c

--------------------------------------------------------------------------------
(* toolStreamSieve.                                                        *)

(* The end of a text that the opening tag could begin with.                *)
splitToolPrefix(t) == IF IsSuffix(<<"<">>, t) THEN Len(t) - 1 ELSE Len(t)

(* A block whose calls are not of declared functions is text.  Once it has *)
(* begun to capture, the buffer is empty whenever a chunk is looked at.    *)
Feed(chunk, parses) ==
    LET all == sieve.buffer \o chunk
        begin == IndexFirstSubSeq(Open, all)
        block == SubSeq(all, begin, Len(all))
        none == [safe |-> all, sieve |-> [sieve EXCEPT !.buffer = <<>>], calls |-> FALSE]
    IN  IF sieve.done \/ sieve.capturing THEN none
        ELSE IF ~Within(Open, all)
        THEN [none EXCEPT !.safe = SubSeq(all, 1, splitToolPrefix(all)),
                          !.sieve.buffer = SubSeq(all, splitToolPrefix(all) + 1, Len(all))]
        ELSE IF ~Within(Close, block)
        THEN [none EXCEPT !.safe = SubSeq(all, 1, begin - 1),
                          !.sieve = [buffer |-> block, capturing |-> TRUE, done |-> FALSE,
                                     at |-> Len(got) - Len(sieve.buffer) + begin - 1]]
        ELSE IF parses
        THEN [safe |-> SubSeq(all, 1, begin - 1), calls |-> TRUE,
              sieve |-> [buffer |-> <<>>, capturing |-> FALSE, done |-> TRUE,
                         at |-> Len(got) - Len(sieve.buffer) + begin - 1]]
        ELSE none      \* what came before it and all of it, one after the other

--------------------------------------------------------------------------------
(* The goroutine that reads the upstream.                                  *)

Text(chunk) ==
    /\ reading = "open" /\ Len(got) + Len(chunk) <= MaxText /\ ~found
    /\ got' = got \o chunk
    /\ IF ~tools THEN client' = writeDelta(client, chunk) /\ UNCHANGED <<sieve, found>>
       ELSE \E parses \in BOOLEAN :
              LET r == Feed(chunk, parses)
              IN  /\ sieve' = r.sieve /\ found' = r.calls
                  /\ client' = IF r.calls THEN writeTools(writeDelta(client, r.safe)) ELSE writeDelta(client, r.safe)
    /\ UNCHANGED <<op, tools, reading>>

Reasoning ==
    /\ reading = "open" /\ op = "messages"
    /\ client' = DeltaReasoning(client)
    /\ UNCHANGED <<op, tools, got, sieve, found, reading>>

(* The end: what the sieve has kept is a call after all, or text.          *)
End ==
    /\ reading = "open" /\ reading' = "done"
    /\ \/ client' = writeDone(writeDelta(client, sieve.buffer)) /\ UNCHANGED found
       \/ /\ Within(Open, sieve.buffer) /\ found' = TRUE
          /\ client' = writeDone(writeTools(client))
    /\ UNCHANGED <<op, tools, got, sieve>>

(* The upstream breaks off or reports an error, an image cannot be kept,   *)
(* or the client is gone.                                                  *)
Fail ==
    /\ reading = "open" /\ reading' = "failed"
    /\ UNCHANGED <<op, tools, got, sieve, found, client>>

Next == (\E chunk \in Chunks : Text(chunk)) \/ Reasoning \/ End \/ Fail

Spec == Init /\ [][Next]_vars

--------------------------------------------------------------------------------
(* However it was cut into chunks, a text that came to its end is what the *)
(* client has got: nothing is lost or doubled between the sieve and the    *)
(* filter, and a Messages client gets it up to its first stop sequence.    *)
StreamEqualsWhole ==
    LET text == IF found THEN SubSeq(got, 1, sieve.at) ELSE got
    IN  reading = "done" => client.out = IF op = "messages" THEN applyStopSequences(text) ELSE text

(* Every content block that was begun is ended, once, before the message.  *)
BlocksEnd ==
    /\ \A i \in 1..Len(client.blocks) : client.blocks[i] # "closed twice"
    /\ reading = "done" /\ op = "messages" => \A i \in 1..Len(client.blocks) : client.blocks[i] = "closed"

(* "Buffers from the tool XML on, and leaks no internal markup to the      *)
(* client before it has been parsed as a whole": while it captures, the    *)
(* client has nothing of the block.                                        *)
MarkupKeptBack == sieve.capturing => Len(client.out) <= sieve.at
=============================================================================
