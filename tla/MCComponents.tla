---------------------------- MODULE MCComponents ----------------------------
(***************************************************************************)
(* Small instances of the components that are checked for safety, one at   *)
(* a time: `subject' says whose steps a behaviour is made of.  Those of    *)
(* modules Serving and Upkeep have variables of their own and rest in one  *)
(* initial state while another moves.  The two streams share the variables *)
(* s1, s2, ... of this module; each takes as many as it has, and the rest  *)
(* stay Unused.  Model values stand for members of several sets; p1 and p2 *)
(* are exchanged by the symmetry, and so are x1 and x2.                    *)
(***************************************************************************)
EXTENDS Integers, TLC, Serving, Upkeep

CONSTANTS k1, a1, x1, x2, p1, p2, Unused

VARIABLES subject, s1, s2, s3, s4, s5, s6, s7

shared == <<s1, s2, s3, s4, s5, s6, s7>>
serviceVars == <<accessVars, upkeepVars, servingVars, supplyVars>>
vars == <<subject, shared, serviceVars>>

Symmetry == Permutations({p1, p2}) \cup Permutations({x1, x2})

Entry(name, up) == [name |-> name, up |-> up]
ZeroRank == [x \in {x1, x2} |-> 0]
OneOwner == [t \in {x1, x2} |-> "o"]
Versions == {<<Entry("u", "u")>>, <<Entry("u", "u"), Entry("v", "v")>>, <<Entry("v", "u"), Entry("u", "v")>>}
Entered ==    \* by URL, with a secret; manually, with no probe; manually, with the value there is
    {[plain |-> "q", text |-> "", secret |-> "s", mode |-> "url", manual |-> "", verify |-> TRUE],
     [plain |-> "", text |-> "", secret |-> "", mode |-> "manual", manual |-> "v", verify |-> FALSE],
     [plain |-> "q", text |-> "", secret |-> "", mode |-> "manual", manual |-> "", verify |-> TRUE]}

WebChat == INSTANCE WebStream WITH
    StopSequences <- {<<"a", "a">>}, Symbols <- {"<", "T", "/", "a"}, MaxText <- 4, MaxChunk <- 3,
    op <- s1, tools <- s2, got <- s3, sieve <- s4, found <- s5, client <- s6, reading <- s7

Translated == INSTANCE StreamTranslation WITH
    StopSequences <- {<<"a", "a", "b">>, <<"b", "b">>}, Symbols <- {"a", "b"}, MaxText <- 4,
    Calls <- {1}, Pieces <- 2, op <- s1, got <- s2, items <- s3, upstream <- s4, conv <- s5

(* The variables after the n-th.                                           *)
Free(n) == /\ n < 1 => s1 = Unused /\ s2 = Unused /\ s3 = Unused /\ s4 = Unused /\ s5 = Unused
           /\ n < 6 => s6 = Unused /\ s7 = Unused

(* Who is not the subject starts the same way every time.                  *)
AtRest ==
    /\ subject = "keys" \/ (rows = [k \in {k1} |-> KeyAuth!None])
    /\ subject = "login" \/ (store = "redis")
    /\ subject = "process" \/ (usable = {} /\ allowed = 1)
    /\ subject = "choice" \/ (acct = [a \in Candidates |-> Chosen!Ready])
    /\ subject = "egress" \/ (nodes = [n \in Nodes |-> EgressPool!Gone])
    /\ subject = "images" \/ (kind = "edit" /\ count = 1)
    /\ subject = "drawing" \/ (priced = FALSE /\ windowed = FALSE)
    /\ subject = "signed" \/ (mode = "manual")
    /\ subject = "stored" \/ (made = [i \in {} |-> 0] /\ owned = made)
    /\ subject = "windows" \/ (weekly = FALSE /\ lockHeld = {})
    /\ subject = "pool" \/ (named = TRUE)

Init ==
    /\ \/ subject \in {"keys", "tokens", "sessions", "login", "catalogue", "settings", "media", "process",
                       "choice", "egress", "images", "drawing", "signed", "stored", "refill", "windows", "pool"}
          /\ Free(0)
       \/ subject = "chat" /\ WebChat!Init /\ Free(7)
       \/ subject = "stream" /\ Translated!Init /\ Free(5)
    /\ AtRest
    /\ AccessInit /\ UpkeepInit /\ ServingInit /\ SupplyInit

(* Accounts are disabled and windows run out in the first moment, and stay *)
(* so: nobody enables an account again or reads its window anew.           *)
BlockedEarly ==
    \A x \in Candidates : acct[x] # acct'[x] =>
        /\ acct[x].obstacle \notin {"inactive", "window"}
        /\ acct'[x].obstacle \in {"inactive", "window"} => moment = 0

InAccess == UNCHANGED <<subject, shared, upkeepVars, servingVars, supplyVars>>
InUpkeep == UNCHANGED <<subject, shared, accessVars, servingVars, supplyVars>>
InServing == UNCHANGED <<subject, shared, accessVars, upkeepVars, supplyVars>>
InSupply == UNCHANGED <<subject, shared, accessVars, upkeepVars, servingVars>>

Next ==
    \/ subject = "keys" /\ KeyStep /\ InAccess
    \/ subject = "tokens" /\ TokenStep /\ InAccess
    \/ subject = "sessions" /\ SessionStep /\ InAccess
    \/ subject = "login" /\ LoginStep /\ InAccess
    \/ subject = "catalogue" /\ RouteStep /\ InUpkeep
    \/ subject = "settings" /\ SettingStep /\ InUpkeep
    \/ subject = "media" /\ MediaStep /\ InUpkeep
    \/ subject = "process" /\ ProcessStep /\ InUpkeep
    \/ subject = "choice" /\ ChoiceStep /\ BlockedEarly /\ InServing
    \/ subject = "egress" /\ NodeStep /\ InServing
    \/ subject = "images" /\ ImageStep /\ InServing
    \/ subject = "drawing" /\ DrawStep /\ InServing
    \/ subject = "signed" /\ SignStep /\ InServing
    \/ subject = "stored" /\ ResponseStep /\ InServing
    \/ subject = "refill" /\ RefillStep /\ InSupply
    \/ subject = "windows" /\ ReadStep /\ InSupply
    \/ subject = "pool" /\ StockStep /\ InSupply
    \/ subject = "chat" /\ WebChat!Next /\ UNCHANGED <<subject, serviceVars>>
    \/ subject = "stream" /\ Translated!Next /\ UNCHANGED <<subject, s6, s7, serviceVars>>

Spec == Init /\ [][Next]_vars

(* Behaviours of one component alone.                                      *)
ToolSpec == subject = "chat" /\ Spec
CatalogueSpec == subject = "catalogue" /\ Spec

--------------------------------------------------------------------------------
TypesOK ==
    /\ subject = "keys" => KeyAuth!TypeOK
    /\ subject = "tokens" => Renewal!TypeOK
    /\ subject = "sessions" => AdminAuth!TypeOK
    /\ subject = "login" => Logins!TypeOK
    /\ subject = "catalogue" => RouteTable!TypeOK
    /\ subject = "settings" => SharedSettings!TypeOK
    /\ subject = "media" => MediaFiles!TypeOK
    /\ subject = "process" => OneProcess!TypeOK
    /\ subject = "choice" => Chosen!TypeOK
    /\ subject = "egress" => EgressPool!TypeOK
    /\ subject = "images" => Imagine!TypeOK
    /\ subject = "drawing" => ImageTries!TypeOK
    /\ subject = "signed" => Signing!TypeOK
    /\ subject = "stored" => StoredIds!TypeOK
    /\ subject = "refill" => Refilling!TypeOK
    /\ subject = "windows" => WindowReads!TypeOK
    /\ subject = "pool" => AccountRows!TypeOK
    /\ subject = "chat" => WebChat!TypeOK
    /\ subject = "stream" => Translated!TypeOK

(* A stream arrives whole: a client gets of an answer what the upstream    *)
(* sent, in the order of its parts.                                        *)
StreamsWhole ==
    /\ subject = "chat" => WebChat!StreamEqualsWhole /\ WebChat!BlocksEnd
    /\ subject = "stream" => Translated!ArgumentsOnce /\ Translated!MessageWhole

MarkupKeptBack == subject = "chat" => WebChat!MarkupKeptBack
StartsAgain == subject = "catalogue" => RouteTable!StartsAgain
==============================================================================
