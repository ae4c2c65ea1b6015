---------------------------- MODULE AdminSessions ----------------------------
(***************************************************************************)
(* The sessions of the administrator (application/adminauth): login,       *)
(* rotation of the refresh token, logout, change of the password.  Each    *)
(* request reads and writes in separate statements; the password and the   *)
(* sessions change together in one transaction.  A token stands for its    *)
(* hash; `spent' and `revoked' are history.                                *)
(***************************************************************************)
EXTENDS Naturals, FiniteSets

CONSTANTS Requests, Tabs,     \* requests in flight, and the browsers that send them
          MaxSessions,        \* maxAdminSessions
          MaxTokens, Life, Horizon      \* bounds: tokens drawn, refreshTTL, time

VARIABLES sessions,    \* admin_sessions: id, token and expiry
          password,    \* version of the stored hash
          calls,       \* the requests
          cookie,      \* the refresh token each browser holds, 0 for none
          minted, spent, revoked, clock

vars == <<sessions, password, calls, cookie, minted, spent, revoked, clock>>

Free == [pc |-> "free"]
Tokens == 0..MaxTokens

(* Bootstrap has created the only administrator.                           *)
Init ==
    /\ sessions = {} /\ password = 0 /\ calls = [q \in Requests |-> Free]
    /\ cookie = [b \in Tabs |-> 0] /\ minted = 0 /\ spent = {} /\ revoked = {} /\ clock = 0

TypeOK ==
    /\ sessions \subseteq [id : Tokens, token : Tokens, until : 0..(Horizon + Life)]
    /\ cookie \in [Tabs -> Tokens] /\ minted \in Tokens /\ revoked \subseteq Tokens

Live == {s \in sessions : clock < s.until}
Answer(q) == calls' = [calls EXCEPT ![q] = Free]
Go(q, record) == calls[q] = Free /\ calls' = [calls EXCEPT ![q] = record]

(* checkLoginRate and the password: a failed login changes nothing.        *)
Login(q, b) ==
    /\ minted < MaxTokens
    /\ Go(q, [pc |-> "create", tab |-> b, seen |-> password])
    /\ UNCHANGED <<sessions, password, cookie, minted, spent, revoked, clock>>

(* Create drops what has expired and all but the newest sessions.          *)
createSession(q) ==
    /\ calls[q].pc = "create" /\ minted < MaxTokens
    /\ LET fresh == [id |-> minted + 1, token |-> minted + 1, until |-> clock + Life]
           kept == {s \in Live : Cardinality({o \in Live : o.id > s.id}) < MaxSessions - 1}
       IN  /\ sessions' = kept \cup {fresh}
           /\ revoked' = revoked \cup {s.id : s \in sessions \ kept}
           /\ minted' = minted + 1 /\ cookie' = [cookie EXCEPT ![calls[q].tab] = minted + 1]
    /\ Answer(q)
    /\ UNCHANGED <<password, spent, clock>>

(* The cookie may be one that another request has replaced since.          *)
Refresh(q, b) ==
    /\ cookie[b] # 0
    /\ \E s \in Live : s.token = cookie[b] /\ Go(q, [pc |-> "rotate", tab |-> b, read |-> s])
    /\ UNCHANGED <<sessions, password, cookie, minted, spent, revoked, clock>>

Rotated(s, read) == [s EXCEPT !.token = minted + 1, !.until = clock + Life]

RotateById(q) ==       \* mutant: the row is found by its id alone
    LET read == calls[q].read
        row == {s \in Live : s.id = read.id}
    IN  /\ calls[q].pc = "rotate" /\ minted < MaxTokens
        /\ sessions' = (sessions \ row) \cup {Rotated(s, read) : s \in row}
        /\ IF row = {} THEN UNCHANGED <<minted, spent, cookie>>
           ELSE /\ minted' = minted + 1 /\ spent' = spent \cup {<<read.token, q>>}
                /\ cookie' = [cookie EXCEPT ![calls[q].tab] = minted + 1]
        /\ Answer(q)
        /\ UNCHANGED <<password, revoked, clock>>

RotateSaving(q) ==     \* mutant: the row is written whole
    LET read == calls[q].read
    IN  /\ calls[q].pc = "rotate" /\ minted < MaxTokens
        /\ sessions' = {s \in sessions : s.id # read.id} \cup {Rotated(read, read)}
        /\ minted' = minted + 1 /\ spent' = spent \cup {<<read.token, q>>}
        /\ cookie' = [cookie EXCEPT ![calls[q].tab] = minted + 1]
        /\ Answer(q)
        /\ UNCHANGED <<password, revoked, clock>>

(* One UPDATE, on the id, the hash that was read and the expiry.           *)
Rotate(q) ==
    LET read == calls[q].read
        row == {s \in Live : s.id = read.id /\ s.token = read.token}
    IN  /\ calls[q].pc = "rotate" /\ minted < MaxTokens
        /\ sessions' = (sessions \ row) \cup {Rotated(s, read) : s \in row}
        /\ IF row = {} THEN UNCHANGED <<minted, spent, cookie>>
           ELSE /\ minted' = minted + 1 /\ spent' = spent \cup {<<read.token, q>>}
                /\ cookie' = [cookie EXCEPT ![calls[q].tab] = minted + 1]
        /\ Answer(q)
        /\ UNCHANGED <<password, revoked, clock>>

Logout(q, b) ==
    /\ cookie[b] # 0
    /\ \E s \in sessions : s.token = cookie[b] /\ Go(q, [pc |-> "revoke", tab |-> b, read |-> s])
    /\ UNCHANGED <<sessions, password, cookie, minted, spent, revoked, clock>>

(* By id: a rotation in between does not save the session.                 *)
Revoke(q) ==
    /\ calls[q].pc = "revoke"
    /\ sessions' = {s \in sessions : s.id # calls[q].read.id}
    /\ revoked' = revoked \cup {calls[q].read.id}
    /\ cookie' = [cookie EXCEPT ![calls[q].tab] = 0]
    /\ Answer(q)
    /\ UNCHANGED <<password, minted, spent, clock>>

(* AuthenticateAccess admits who has an access token of a live session.    *)
AuthenticateAccess(b) == \E s \in Live : s.token = cookie[b]

ChangePassword(q, b) ==
    /\ password = 0 /\ AuthenticateAccess(b)      \* bound: the password changes once
    /\ Go(q, [pc |-> "change", tab |-> b])
    /\ UNCHANGED <<sessions, password, cookie, minted, spent, revoked, clock>>

UpdatePasswordAndRevokeSessions(q) ==
    /\ calls[q].pc = "change"
    /\ password' = 1 /\ sessions' = {} /\ revoked' = revoked \cup {s.id : s \in sessions}
    /\ Answer(q)
    /\ UNCHANGED <<cookie, minted, spent, clock>>

SessionTick ==
    /\ clock < Horizon /\ clock' = clock + 1
    /\ UNCHANGED <<sessions, password, calls, cookie, minted, spent, revoked>>

Next ==
    \/ \E q \in Requests : createSession(q) \/ Rotate(q) \/ Revoke(q) \/ UpdatePasswordAndRevokeSessions(q)
    \/ \E q \in Requests, b \in Tabs : Login(q, b) \/ Refresh(q, b) \/ Logout(q, b) \/ ChangePassword(q, b)
    \/ SessionTick

Spec == Init /\ [][Next]_vars

--------------------------------------------------------------------------------
(* A refresh token is exchanged once, whoever else sends it meanwhile.     *)
RefreshedOnce == \A x, y \in spent : x[1] = y[1] => x = y

(* A session that was ended - by a logout, the limit, a new password -     *)
(* does not come back with a refresh that was under way.                   *)
RevokedStays == \A s \in sessions : s.id \notin revoked
=============================================================================
