------------------------- MODULE CredentialRefresh -------------------------
(***************************************************************************)
(* The renewal of an account's OAuth credential (application/account,      *)
(* ensureCredential and the scheduler in front of it) against an upstream  *)
(* that rotates refresh tokens: a token that has been exchanged is refused *)
(* from then on.  Beside it, what else writes the row: the administrator,  *)
(* an import, and the mark that takes an account out of the pool.          *)
(*                                                                         *)
(* A token is a number; access and refresh token are renewed together.  A  *)
(* process is one flight of the singleflight group: callers that share it  *)
(* change nothing.  `blame' is history: what happened that can cost the    *)
(* account its token.                                                      *)
(***************************************************************************)
EXTENDS Naturals

CONSTANTS Flights, MaxToken, MaxFaults   \* bounds: exchanges, faults

VARIABLES row,       \* the account and its credential
          issued,    \* how many tokens the upstream has issued
          accepted,  \* the refresh tokens it accepts: one for each login
          lock,      \* the distributed lock of the account
          flights, editor, blame, mishaps

vars == <<row, issued, accepted, lock, flights, editor, blame, mishaps>>

Gone == [is |-> "deleted"]
Free == [is |-> "free"]
Idle == [pc |-> "idle"]
Kinds == {"use", "rejected", "scheduled", "manual"}    \* who asks: force, respectSchedule, bypassCooldown
Force(kind) == kind # "use"

Fresh(t) == [token |-> t, life |-> "fresh", permanent |-> FALSE, turn |-> "later", auth |-> "active"]
Exists == row # Gone
Alive(r) == r.life # "expired"

Init ==
    /\ row = Fresh(1) /\ issued = 1 /\ accepted = {1} /\ lock = Free
    /\ flights = [f \in Flights |-> Idle] /\ editor = Idle
    /\ blame = {} /\ mishaps = 0

TypeOK ==
    /\ Exists => row \in [token : 1..MaxToken, life : {"fresh", "near", "expired"}, permanent : BOOLEAN,
                          turn : {"recent", "later", "due"}, auth : {"active", "reauth"}]
    /\ issued \in 1..MaxToken /\ accepted \subseteq 1..issued
    /\ lock = Free \/ lock.by \in Flights

Mishap == mishaps < MaxFaults /\ mishaps' = mishaps + 1
To(f, s) == flights' = [flights EXCEPT ![f] = s]
Go(f, where) == To(f, [flights[f] EXCEPT !.pc = where])

(* Giving up inside the flight releases the lock if it is still held.      *)
Leave(f) ==
    /\ To(f, Idle)
    /\ lock' = IF lock # Free /\ lock.by = f THEN Free ELSE lock

--------------------------------------------------------------------------------
(* ensureCredential.                                                       *)

(* resolvePermanentRefreshFailure: the refresh token is known to be dead.  *)
Settled(r) == r.permanent /\ Alive(r)
Converges(r) == r.permanent /\ ~Alive(r)

(* The scheduler takes due accounts of the pool only, and leaves a dead    *)
(* token alone as long as the access token lives.                          *)
Begin(f, kind) ==
    /\ flights[f] = Idle /\ Exists
    /\ kind = "scheduled" => row.turn = "due" /\ row.auth = "active"
    /\ ~Settled(row)
    /\ Force(kind) \/ row.life # "fresh" \/ Converges(row)
    /\ To(f, IF Converges(row) THEN [pc |-> "mark"]
             ELSE [pc |-> "check", kind |-> kind, held |-> row.token])
    /\ UNCHANGED <<row, issued, accepted, lock, editor, blame, mishaps>>

(* The checks of a row just read; the comparison of the access token with  *)
(* the caller's is on both sides of the lock for a forced renewal, and for *)
(* any renewal once the lock is held.                                      *)
NothingToDo(f, locked) ==
    LET kind == flights[f].kind
    IN  \/ Settled(row)
        \/ kind = "scheduled" /\ row.turn # "due"
        \/ (Force(kind) \/ locked) /\ row.token # flights[f].held
        \/ ~Force(kind) /\ row.life = "fresh"
        \/ kind \in {"rejected", "scheduled"} /\ row.turn = "recent"

Verdict(f, locked) ==
    CASE ~Exists -> "end"
      [] Exists /\ Converges(row) -> "mark"
      [] Exists /\ ~Converges(row) -> IF NothingToDo(f, locked) THEN "end" ELSE "renew"

Check(f) ==
    /\ flights[f].pc = "check"
    /\ CASE Verdict(f, FALSE) = "end" -> To(f, Idle)
         [] Verdict(f, FALSE) = "mark" -> To(f, [pc |-> "mark"])
         [] Verdict(f, FALSE) = "renew" -> Go(f, "lock")
    /\ UNCHANGED <<row, issued, accepted, lock, editor, blame, mishaps>>

(* acquireRefreshLock tries every 200 ms until the caller gives up.        *)
AcquireLock(f) ==
    /\ flights[f].pc = "lock"
    /\ \/ lock = Free /\ lock' = [by |-> f] /\ Go(f, "recheck")
       \/ To(f, Idle) /\ UNCHANGED lock
    /\ UNCHANGED <<row, issued, accepted, editor, blame, mishaps>>

Exchanging(f) == To(f, [pc |-> "exchange", token |-> row.token, permanent |-> row.permanent, alive |-> Alive(row)])

RecheckNothing(f) ==    \* mutant: the row read before the lock is exchanged
    /\ flights[f].pc = "recheck"
    /\ To(f, [pc |-> "exchange", token |-> flights[f].held, permanent |-> FALSE, alive |-> TRUE])
    /\ UNCHANGED <<row, issued, accepted, lock, editor, blame, mishaps>>

Recheck(f) ==
    /\ flights[f].pc = "recheck"
    /\ CASE Verdict(f, TRUE) = "end" -> Leave(f)
         [] Verdict(f, TRUE) = "mark" -> To(f, [pc |-> "mark"]) /\ UNCHANGED lock
         [] Verdict(f, TRUE) = "renew" -> Exchanging(f) /\ UNCHANGED lock
    /\ UNCHANGED <<row, issued, accepted, editor, blame, mishaps>>

(* RefreshCredential.  The exchange may be cut off after the upstream has  *)
(* rotated the token: the caller's context ended, the answer is lost.      *)
Exchange(f) ==
    LET old == flights[f].token
        Rotate == /\ old \in accepted /\ issued < MaxToken
                  /\ issued' = issued + 1
                  /\ accepted' = (accepted \ {old}) \cup {issued + 1}
    IN  /\ flights[f].pc = "exchange"
        /\ \/ Rotate /\ To(f, [pc |-> "store", token |-> issued + 1]) /\ UNCHANGED <<lock, blame, mishaps>>
           \/ Mishap /\ Rotate /\ blame' = blame \cup {"cut"} /\ Leave(f)
           \/ old \notin accepted /\ Go(f, "dead") /\ UNCHANGED <<issued, accepted, lock, blame, mishaps>>
           \/ Mishap /\ Go(f, "failed") /\ UNCHANGED <<issued, accepted, lock, blame>>
        /\ UNCHANGED <<row, editor>>

StoreOfPool(f) ==    \* mutant: only an account of the pool is updated
    /\ flights[f].pc = "store"
    /\ row' = IF Exists /\ row.auth = "active" THEN [Fresh(flights[f].token) EXCEPT !.turn = "recent"] ELSE row
    /\ Leave(f)
    /\ UNCHANGED <<issued, accepted, editor, blame, mishaps>>

(* UpdateTokens runs under the caller's context: it may be cancelled.      *)
UpdateTokens(f) ==
    LET stored == [Fresh(flights[f].token) EXCEPT !.turn = "recent"]
    IN  /\ flights[f].pc = "store"
        /\ \/ row' = (IF Exists THEN stored ELSE row) /\ UNCHANGED <<blame, mishaps>>
           \/ Mishap /\ blame' = blame \cup {"cut"} /\ UNCHANGED row
        /\ Leave(f)
        /\ UNCHANGED <<issued, accepted, editor>>

(* recordCredentialRefreshFailure: a dead token stays dead, is not asked   *)
(* for again, and ends the account with its access token.                  *)
RecordFailure(f) ==
    LET dead == flights[f].pc = "dead" \/ flights[f].permanent
        over == dead /\ ~flights[f].alive
        written == [row EXCEPT !.permanent = dead, !.turn = IF over THEN "due" ELSE "later"]
    IN  /\ flights[f].pc \in {"dead", "failed"}
        /\ \/ row' = (IF Exists THEN written ELSE row) /\ UNCHANGED mishaps
           \/ Mishap /\ UNCHANGED row
        /\ IF over THEN To(f, [pc |-> "mark"]) /\ UNCHANGED lock ELSE Leave(f)
        /\ UNCHANGED <<issued, accepted, editor, blame>>

(* MarkReauthRequired: reads the row ...                                   *)
MarkRead(f) ==
    /\ flights[f].pc = "mark"
    /\ IF ~Exists THEN Leave(f) ELSE To(f, [pc |-> "marking", row |-> row]) /\ UNCHANGED lock
    /\ UNCHANGED <<row, issued, accepted, editor, blame, mishaps>>

(* Saving a row writes every column, and creates a row that is gone.       *)
Save(r) ==
    /\ row' = r
    /\ blame' = IF ~Exists \/ row.token # r.token THEN blame \cup {"rolled back"} ELSE blame

(* ... and saves it.                                                       *)
MarkWrite(f) ==
    /\ flights[f].pc = "marking"
    /\ Save([flights[f].row EXCEPT !.auth = "reauth"])
    /\ Leave(f)
    /\ UNCHANGED <<issued, accepted, editor, mishaps>>

--------------------------------------------------------------------------------
(* What else happens to the row.                                           *)

(* Update, QuarantineBuildAccount and SetWebRecoveryPassword read the row  *)
(* and save it with a field of theirs changed.                             *)
EditRead ==
    /\ editor = Idle /\ Exists /\ Mishap
    /\ editor' = [pc |-> "write", row |-> row]
    /\ UNCHANGED <<row, issued, accepted, lock, flights, blame>>

EditWrite ==
    /\ editor # Idle
    /\ Save(editor.row)
    /\ editor' = Idle
    /\ UNCHANGED <<issued, accepted, lock, flights, mishaps>>

Delete ==
    /\ Exists /\ Mishap
    /\ row' = Gone
    /\ UNCHANGED <<issued, accepted, lock, flights, editor, blame>>

(* Importing the account again brings a token of a new login.              *)
Import ==
    /\ issued < MaxToken /\ Mishap
    /\ issued' = issued + 1 /\ accepted' = accepted \cup {issued + 1} /\ row' = Fresh(issued + 1)
    /\ blame' = blame \cup {"imported"}
    /\ UNCHANGED <<lock, flights, editor>>

Revoke ==
    /\ accepted # {} /\ Mishap
    /\ accepted' = {} /\ blame' = blame \cup {"revoked"}
    /\ UNCHANGED <<row, issued, lock, flights, editor>>

(* Time: the minimum interval of forced renewals and the schedule pass,    *)
(* the access token ages, the lease of the lock runs out under a holder.   *)
Age ==
    /\ Exists
    /\ \/ row.turn = "recent" /\ row' = [row EXCEPT !.turn = "later"]
       \/ row.turn = "later" /\ row' = [row EXCEPT !.turn = "due"]
       \/ row.turn = "due" /\ row.life = "fresh" /\ row' = [row EXCEPT !.life = "near"]
       \/ row.turn = "due" /\ row.life = "near" /\ row' = [row EXCEPT !.life = "expired"]
    /\ UNCHANGED <<issued, accepted, lock, flights, editor, blame, mishaps>>

LockLapses ==
    /\ lock # Free /\ Mishap
    /\ lock' = Free /\ blame' = blame \cup {"lapsed"}
    /\ UNCHANGED <<row, issued, accepted, flights, editor>>

Next ==
    \/ \E f \in Flights :
          \/ \E kind \in Kinds : Begin(f, kind)
          \/ Check(f) \/ AcquireLock(f) \/ Recheck(f) \/ Exchange(f) \/ UpdateTokens(f)
          \/ RecordFailure(f) \/ MarkRead(f) \/ MarkWrite(f)
    \/ EditRead \/ EditWrite \/ Delete \/ Import \/ Revoke \/ Age \/ LockLapses

Spec == Init /\ [][Next]_vars

--------------------------------------------------------------------------------
(* The row holds the token the upstream accepts, or a flight is about to   *)
(* store it - unless an exchange or its store was cut off, a whole row was *)
(* saved over a newer one, or the upstream revoked the token.  Concurrent  *)
(* renewals of one account, in one process or in several, never cost it    *)
(* its token by themselves, not even when the lease of the lock runs out.  *)
TokenKept ==
    Exists /\ row.token \notin accepted /\ blame \cap {"cut", "rolled back", "revoked"} = {}
        => \E f \in Flights : flights[f].pc = "store"

(* An account whose token is good is not condemned: neither is its token   *)
(* noted as dead nor is it taken out of the pool, unless one of these      *)
(* mishaps, a lapse of the lock, or an import crossed a renewal.           *)
Condemned(r) == r.permanent \/ r.auth = "reauth"
GoodAccountStaysStep ==
    Exists /\ row' # Gone /\ Condemned(row') /\ blame' = {}
       => Condemned(row) \/ row'.token \notin accepted
GoodAccountStays == [][GoodAccountStaysStep]_vars
=============================================================================
