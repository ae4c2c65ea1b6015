--------------------------- MODULE ImagineImages ---------------------------
(***************************************************************************)
(* One request for images to Grok Web (infra/provider/web image.go): drawn *)
(* one by one through chats ("lite": the Images API, a chat, a chat that   *)
(* streams), as one batch over a WebSocket ("ws", "wsStream"), or as an    *)
(* edit of uploaded images.  Each image is then downloaded and stored.     *)
(***************************************************************************)
EXTENDS Naturals, Sequences, FiniteSets

CONSTANTS Slots,          \* the images of a batch, numbered
          NativeBatch,    \* NativeBatchSize
          MaxCount,       \* bound: n
          Attempts        \* mediaOutputAttempts

VARIABLES kind, count, pc,
          slots,      \* imagineCollector
          drawn, refused,   \* history: chats that were sent, and those that drew nothing
          retried,    \* the second attempt of a chat, with a new signature
          ready,      \* images to be put out, in the order of their numbers
          tries,      \* of the one at the head
          shown,      \* images the client gets
          held,       \* the lease of the egress node and the connection
          fate        \* "open", "whole", "incomplete", "failed", "gone"

vars == <<kind, count, pc, slots, drawn, refused, retried, ready, tries, shown, held, fate>>
drawing == <<drawn, refused, retried>>

Lite == {"lite", "liteChat", "liteStream"}
Ws == {"ws", "wsStream"}
Streams == {"liteStream", "wsStream"}
NoTries == [step |-> "download", n |-> 1]

Init ==
    /\ kind \in Lite \cup Ws \cup {"edit"} /\ count \in 1..MaxCount /\ pc = "start"
    /\ slots = [i \in Slots |-> [data |-> FALSE, completed |-> FALSE, moderated |-> FALSE, emitted |-> FALSE]]
    /\ drawn = 0 /\ refused = 0 /\ retried = FALSE /\ ready = {} /\ tries = NoTries /\ shown = <<>>
    /\ held = FALSE /\ fate = "open"

TypeOK ==
    /\ Len(shown) <= count /\ tries.n \in 1..Attempts
    /\ (pc = "over" <=> fate # "open") /\ (pc = "over" => ~held) /\ (kind \in Lite /\ pc # "drawing" => ~held)

End(how) == pc' = "over" /\ fate' = how /\ held' = FALSE

--------------------------------------------------------------------------------
(* imagineCollector: an image comes as its data and its state, in any      *)
(* order, and its state may come again.                                    *)

Good(s, i) == s[i].completed /\ ~s[i].moderated /\ s[i].data
Terminal(s) == Cardinality({i \in Slots : s[i].completed})
DoneEarly(s) == Terminal(s) >= NativeBatch      \* mutant: it does not wait for the data
Done(s) == Terminal(s) >= NativeBatch /\ \A i \in Slots : s[i].completed /\ ~s[i].moderated => s[i].data

GoodImages(s) == {i \in Slots : Good(s, i)}
ReadyImages(s) == {i \in Slots : Good(s, i) /\ ~s[i].emitted}

Accept(i, message) ==
    CASE message = "data" -> [slots EXCEPT ![i].data = TRUE]
      [] message = "completed" -> [slots EXCEPT ![i].completed = TRUE, ![i].moderated = FALSE]
      [] message = "moderated" -> [slots EXCEPT ![i].completed = TRUE, ![i].moderated = TRUE]

--------------------------------------------------------------------------------
(* The upstream.                                                           *)

(* The lease, the dial and the request; an edit uploads its images first.  *)
Start ==
    /\ pc = "start"
    /\ \/ kind \in Lite /\ pc' = "draw" /\ UNCHANGED <<held, fate>>
       \/ kind \in Ws /\ pc' = "read" /\ held' = TRUE /\ UNCHANGED fate
       \/ kind = "edit" /\ pc' = "post" /\ held' = TRUE /\ UNCHANGED fate
       \/ kind \notin Lite /\ End("failed")
    /\ UNCHANGED <<kind, count, slots, drawing, ready, tries, shown>>

Draw ==
    /\ pc = "draw"
    /\ \/ pc' = "drawing" /\ held' = TRUE /\ drawn' = drawn + 1 /\ UNCHANGED fate
       \/ End("failed") /\ UNCHANGED drawn
    /\ UNCHANGED <<kind, count, slots, refused, retried, ready, tries, shown>>

(* The Images API draws all its images before it puts out the first.       *)
Drawn ==
    /\ pc = "drawing" /\ held' = FALSE /\ retried' = FALSE
    /\ ready' = ready \cup {drawn}
    /\ pc' = IF kind = "lite" /\ Cardinality(ready') < count THEN "draw" ELSE "output"
    /\ UNCHANGED <<kind, count, slots, drawn, refused, tries, shown, fate>>

(* A rejected signature is renewed once; all else ends the request, and    *)
(* what has been drawn for it is lost.                                     *)
Refused ==
    /\ pc = "drawing" /\ refused' = refused + 1
    /\ \/ ~retried /\ retried' = TRUE /\ pc' = "draw" /\ held' = FALSE /\ UNCHANGED fate
       \/ End("failed") /\ UNCHANGED retried
    /\ UNCHANGED <<kind, count, slots, drawn, ready, tries, shown>>

(* The first `count' of the good images are put out.                       *)
FirstOf(good) ==
    \E first \in SUBSET good :
        /\ Cardinality(first) = count /\ \A i \in first, j \in good \ first : i < j
        /\ ready' = first

(* A message of the WebSocket.                                             *)
ReadMessage(i, message) ==
    LET s == Accept(i, message)
        new == ReadyImages(s)
    IN  /\ pc = "read"
        /\ IF kind = "ws"
           THEN /\ slots' = s
                /\ CASE ~Done(s) -> UNCHANGED <<pc, ready, fate, held>>
                     [] Done(s) /\ Cardinality(GoodImages(s)) < count -> End("incomplete") /\ UNCHANGED ready
                     [] OTHER -> pc' = "output" /\ FirstOf(GoodImages(s)) /\ UNCHANGED <<fate, held>>
           ELSE /\ slots' = [j \in Slots |-> IF j \in new THEN [s[j] EXCEPT !.emitted = TRUE] ELSE s[j]]
                /\ CASE new # {} -> pc' = "output" /\ ready' = new /\ UNCHANGED <<fate, held>>
                     [] new = {} /\ Done(s) -> End("incomplete") /\ UNCHANGED ready
                     [] OTHER -> UNCHANGED <<pc, ready, fate, held>>
        /\ UNCHANGED <<kind, count, drawing, tries, shown>>

(* An error message, the end of the connection, or its deadline.           *)
ReadFails ==
    /\ pc = "read" /\ End("failed")
    /\ UNCHANGED <<kind, count, slots, drawing, ready, tries, shown>>

(* An edit puts out what it got, which may be fewer than were asked for.   *)
Post ==
    /\ pc = "post"
    /\ \/ \E n \in 1..MaxCount : ready' = 1..(IF n < count THEN n ELSE count) /\ pc' = "output" /\ UNCHANGED <<fate, held>>
       \/ End("failed") /\ UNCHANGED ready
    /\ UNCHANGED <<kind, count, slots, drawing, tries, shown>>

--------------------------------------------------------------------------------
(* imageDataItem: the image is downloaded, then stored, each with retries; *)
(* what it was drawn from is not asked again.                              *)

Download ==
    /\ pc = "output" /\ tries.step = "download" /\ tries' = [step |-> "save", n |-> 1]
    /\ UNCHANGED <<kind, count, pc, slots, drawing, ready, shown, held, fate>>

OutputRedrawn ==      \* mutant: an image that cannot be put out is drawn again
    /\ pc = "output" /\ tries' = NoTries /\ (\E i \in ready : ready' = ready \ {i}) /\ pc' = "draw"
    /\ UNCHANGED <<kind, count, slots, drawing, shown, held, fate>>
OutputFails ==
    /\ pc = "output"
    /\ \/ tries.n < Attempts /\ tries' = [tries EXCEPT !.n = @ + 1] /\ UNCHANGED <<pc, fate, held>>
       \/ End("failed") /\ UNCHANGED tries
    /\ UNCHANGED <<kind, count, slots, drawing, ready, shown>>

SaveImage ==
    /\ pc = "output" /\ tries.step = "save" /\ tries' = NoTries
    /\ \E i \in ready :
          LET full == Len(shown') = count
              rest == IF kind = "wsStream" /\ full THEN {} ELSE ready \ {i}
          IN  /\ \A j \in ready : i <= j
              /\ shown' = Append(shown, i) /\ ready' = rest
              /\ CASE rest # {} -> UNCHANGED <<pc, fate, held>>
                   [] rest = {} /\ (full \/ kind \in {"ws", "edit"}) -> End("whole")
                   [] rest = {} /\ ~full /\ kind = "wsStream" /\ Done(slots) -> End("incomplete")
                   [] OTHER -> pc' = (IF kind = "wsStream" THEN "read" ELSE "draw") /\ UNCHANGED <<fate, held>>
    /\ UNCHANGED <<kind, count, slots, drawing>>

(* The next read or write of a stream whose client is gone fails.          *)
ClientGone ==
    /\ kind \in Streams /\ pc \notin {"start", "over"} /\ End("gone")
    /\ UNCHANGED <<kind, count, slots, drawing, ready, tries, shown>>

Next ==
    \/ Start \/ Draw \/ Drawn \/ Refused \/ Post \/ ReadFails \/ Download \/ OutputFails \/ SaveImage \/ ClientGone
    \/ \E i \in Slots, message \in {"data", "completed", "moderated"} : ReadMessage(i, message)

Spec == Init /\ [][Next]_vars

--------------------------------------------------------------------------------
(* A request that ends well has shown as many images as it asked for, all  *)
(* different (an edit perhaps fewer); one that ends for want of images had *)
(* not got so many that were fit to show, in whichever order their data    *)
(* and states came.                                                        *)
CountIsMet ==
    /\ \A a, b \in 1..Len(shown) : shown[a] = shown[b] => a = b
    /\ fate = "whole" /\ kind # "edit" => Len(shown) = count
    /\ fate = "incomplete" => Cardinality({i \in Slots : slots[i].completed /\ ~slots[i].moderated}) < count

(* "Only retries to store the result; the upstream is not asked to draw it *)
(* again": each chat either drew an image that is kept, or drew nothing.   *)
DrawnOnce == drawn = Len(shown) + Cardinality(ready) + refused + (IF pc = "drawing" THEN 1 ELSE 0) \/ kind \notin Lite \/ fate # "open"
=============================================================================
