----------------------------- MODULE WebRequests -----------------------------
(***************************************************************************)
(* Requests to Grok Web and the signatures they carry                      *)
(* (infra/provider/web).  A cache of signatures, one per endpoint, is      *)
(* filled by merged reads of the signer and warmed at the start; a request *)
(* whose signature is rejected drops it from the cache and is sent once    *)
(* more.  A chat takes an egress lease per attempt, a read of quota one    *)
(* for both.  `rejected' is history: the signatures dropped so.            *)
(***************************************************************************)
EXTENDS Naturals, FiniteSets

CONSTANTS Requests, Keys,               \* the endpoints, "chat" and "quota"
          MaxEntries,                    \* statsigCacheMaxEntries
          MaxSigned, TTL, Horizon        \* bounds: signatures drawn, statsigCacheTTL, time

VARIABLES mode,       \* cfg.StatsigMode
          entries,    \* the cache
          flight,     \* refreshes: the merged read of each endpoint
          warm,       \* the endpoints that a warm-up still signs
          web,        \* the requests
          signed, rejected, clock

vars == <<mode, entries, flight, warm, web, signed, rejected, clock>>

None == [is |-> "none"]
Rest == [pc |-> "rest"]
Unsigned == 0       \* also a value set by hand

Init ==
    /\ mode \in {"url", "manual"} /\ entries = [k \in Keys |-> None] /\ flight = [k \in Keys |-> None]
    /\ warm = Keys /\ web = [r \in Requests |-> Rest] /\ signed = 0 /\ rejected = {} /\ clock = 0

Set(k) == entries[k] # None
cached(k) == Set(k) /\ clock < entries[k].until

TypeOK ==
    /\ \A k \in Keys : Set(k) => entries[k].sig \in 1..MaxSigned
    /\ Cardinality({k \in Keys : Set(k)}) <= MaxEntries
    /\ \A r \in Requests : web[r].pc \in {"rest", "open", "sign", "join", "sent", "body"}

--------------------------------------------------------------------------------
(* The signer.                                                             *)

(* store: what has expired goes, then the entry that ends first.           *)
store(k, sig, at) ==
    LET stay == {j \in Keys : Set(j) /\ at < entries[j].until}
        oldest == {j \in stay : \A i \in stay : entries[j].until <= entries[i].until}
        keep == IF Cardinality(stay) >= MaxEntries THEN {stay \ {j} : j \in oldest} ELSE {stay}
    IN  \E s \in keep :
          entries' = [j \in Keys |-> IF j = k THEN [sig |-> sig, until |-> at + TTL]
                                     ELSE IF j \in s THEN entries[j] ELSE None]

(* Two rounds of meta tag and signer; then what the cache still has, even  *)
(* if it has expired.                                                      *)
freshSignature(k) ==
    /\ flight[k].is = "asking"
    /\ \/ /\ signed < MaxSigned /\ signed' = signed + 1
          /\ flight' = [flight EXCEPT ![k] = [is |-> "storing", sig |-> signed + 1, at |-> flight[k].at]]
       \/ /\ flight' = [flight EXCEPT ![k] = IF Set(k) THEN [is |-> "over", sig |-> entries[k].sig]
                                                      ELSE [is |-> "over", sig |-> Unsigned]]
          /\ UNCHANGED signed
    /\ UNCHANGED <<mode, entries, warm, web, rejected, clock>>

StoreFresh(k) ==
    /\ flight[k].is = "storing" /\ store(k, flight[k].sig, flight[k].at)
    /\ flight' = [flight EXCEPT ![k] = [is |-> "over", sig |-> flight[k].sig]]
    /\ UNCHANGED <<mode, warm, web, signed, rejected, clock>>

(* All who joined get the same answer; without one they go unsigned.       *)
Deliver(k) ==
    /\ flight[k].is = "over"
    /\ web' = [r \in Requests |-> IF web[r].pc = "join" /\ web[r].key = k
                                  THEN [web[r] EXCEPT !.pc = "sent", !.sig = flight[k].sig]
                                  ELSE web[r]]
    /\ flight' = [flight EXCEPT ![k] = None]
    /\ UNCHANGED <<mode, entries, warm, signed, rejected, clock>>

(* Warm, with one meta tag for all; the first error ends it.               *)
Warm(k) ==
    /\ k \in warm /\ mode = "url"
    /\ \/ ~cached(k) /\ signed < MaxSigned /\ signed' = signed + 1 /\ store(k, signed + 1, clock) /\ warm' = warm \ {k}
       \/ warm' = {} /\ UNCHANGED <<signed, entries>>
    /\ UNCHANGED <<mode, flight, web, rejected, clock>>

UpdateConfig ==
    /\ mode = "url" /\ mode' = "manual" /\ entries' = [k \in Keys |-> None]
    /\ UNCHANGED <<flight, warm, web, signed, rejected, clock>>

--------------------------------------------------------------------------------
(* The requests.                                                           *)

Put(r, rec) == web' = [web EXCEPT ![r] = rec]

Begin(r, k) ==
    /\ web[r] = Rest
    /\ Put(r, [pc |-> "open", key |-> k, try |-> 0, sig |-> Unsigned, joined |-> FALSE, knew |-> {}])
    /\ UNCHANGED <<mode, entries, flight, warm, signed, rejected, clock>>

(* The token, the node, the conversation to go on with - which has to be   *)
(* this account's - or an attachment may be missing: the lease goes back.  *)
openChat(r) ==
    /\ web[r].pc = "open"
    /\ \/ Put(r, [web[r] EXCEPT !.pc = "sign"])
       \/ Put(r, Rest)
    /\ UNCHANGED <<mode, entries, flight, warm, signed, rejected, clock>>

applySignedStatsig(r) ==
    LET k == web[r].key
        seen == [web[r] EXCEPT !.knew = rejected, !.sig = Unsigned, !.joined = FALSE]
    IN  /\ web[r].pc = "sign"
        /\ CASE mode = "manual" -> Put(r, [seen EXCEPT !.pc = "sent"]) /\ UNCHANGED flight
             [] mode = "url" /\ cached(k) ->
                  Put(r, [seen EXCEPT !.pc = "sent", !.sig = entries[k].sig]) /\ UNCHANGED flight
             [] OTHER -> /\ Put(r, [seen EXCEPT !.pc = "join", !.joined = flight[k] # None])
                         /\ flight' = IF flight[k] = None THEN [flight EXCEPT ![k] = [is |-> "asking", at |-> clock]] ELSE flight
        /\ UNCHANGED <<mode, entries, warm, signed, rejected, clock>>

KeepExpired(r) ==       \* mutant: the entry is kept for the fallback
    /\ entries' = [entries EXCEPT ![web[r].key] = IF @ = None THEN None ELSE [@ EXCEPT !.until = 0]]
    /\ rejected' = rejected \cup {web[r].sig}
Invalidate(r) ==
    /\ entries' = [entries EXCEPT ![web[r].key] = None]
    /\ rejected' = rejected \cup {web[r].sig}

(* Status 403, or the anti-bot error at the start of the stream, of a first*)
(* attempt with a signature of the signer.                                 *)
Retry(r) ==
    /\ web[r].pc = "sent" /\ web[r].try = 0 /\ mode = "url"
    /\ Invalidate(r)
    /\ Put(r, IF web[r].key = "chat" THEN [web[r] EXCEPT !.try = 1, !.pc = "open"]
                                      ELSE [web[r] EXCEPT !.try = 1, !.pc = "sign"])
    /\ UNCHANGED <<mode, flight, warm, signed, clock>>

(* The second anti-bot error blames the node, and drops the signature too. *)
feedbackAntiBot(r) ==
    /\ web[r].pc = "sent" /\ web[r].key = "chat" /\ (web[r].try = 1 \/ mode = "manual")
    /\ IF mode = "url" THEN Invalidate(r) ELSE UNCHANGED <<entries, rejected>>
    /\ Put(r, Rest)
    /\ UNCHANGED <<mode, flight, warm, signed, clock>>

(* A stream or an error body is read by the client and keeps the lease; a  *)
(* transport error, which blames the node, and the rest end at once.       *)
Answered(r) ==
    /\ web[r].pc = "sent"
    /\ \/ web[r].key = "chat" /\ Put(r, [web[r] EXCEPT !.pc = "body"])
       \/ Put(r, Rest)
    /\ UNCHANGED <<mode, entries, flight, warm, signed, rejected, clock>>

CloseBody(r) ==
    /\ web[r].pc = "body" /\ Put(r, Rest)
    /\ UNCHANGED <<mode, entries, flight, warm, signed, rejected, clock>>

SignatureTick ==
    /\ clock < Horizon /\ clock' = clock + 1
    /\ UNCHANGED <<mode, entries, flight, warm, web, signed, rejected>>

Next ==
    \/ \E k \in Keys : freshSignature(k) \/ StoreFresh(k) \/ Deliver(k) \/ Warm(k) \/ \E r \in Requests : Begin(r, k)
    \/ \E r \in Requests : openChat(r) \/ applySignedStatsig(r) \/ Retry(r) \/ feedbackAntiBot(r)
                           \/ Answered(r) \/ CloseBody(r)
    \/ UpdateConfig \/ SignatureTick

Spec == Init /\ [][Next]_vars

--------------------------------------------------------------------------------
(* A signature that was rejected is in the cache no more, and no request   *)
(* signed after that carries it - but for one that joins a merged read     *)
(* which was under way and had settled for it.                             *)
RejectedStaysOut ==
    /\ \A k \in Keys : Set(k) => entries[k].sig \notin rejected
    /\ \A r \in Requests : web[r].pc \in {"sent", "body"} /\ web[r].sig \in web[r].knew \ {Unsigned}
                           => web[r].joined
=============================================================================
