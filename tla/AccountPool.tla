---------------------------- MODULE AccountPool ----------------------------
(***************************************************************************)
(* The accounts of the three providers and the links between them          *)
(* (application/account, relational account_repository): import, batch     *)
(* updates and deletions, editors that save the whole row they read,       *)
(* conversion of a Web account to a linked Build account, and the sync of  *)
(* every Web account to a Console account, page after page.                *)
(*                                                                         *)
(* A Web account and its Console account are known by their SSO token; a   *)
(* Build account by its owner, when the converted token names one, and     *)
(* otherwise by the token, a new one at every conversion.                  *)
(***************************************************************************)
EXTENDS Naturals, FiniteSets

CONSTANTS Tokens, Owner,        \* SSO tokens, and whose account a token opens
          Conversions,          \* concurrent conversions
          BatchSize,            \* accounts in a page of the sync
          MaxId, MaxWork        \* bounds: accounts; edits, conversions and syncs

VARIABLES accounts,             \* provider_accounts with their profile: id -> row
          links,                \* account_provider_links, <<web id, build id>>
          nextId, named,        \* named: a converted token names its owner
          editor, conv,         \* conv: conversions and the locks they hold
          paging,               \* SyncAllWebAccountsToConsole
          work

vars == <<accounts, links, nextId, named, editor, conv, paging, work>>

Gone == [is |-> "gone"]
Row(provider, key, owner) == [is |-> provider, key |-> key, owner |-> owner, on |-> TRUE, pw |-> FALSE]
NoEdit == [at |-> "none"]
NoConv == [at |-> "idle"]
NoPaging == [at |-> "idle"]
Live == {i \in DOMAIN accounts : accounts[i] # Gone}
Webs == {i \in Live : accounts[i].is = "web"}

Init ==
    /\ accounts = [i \in 1..MaxId |-> Gone] /\ links = {} /\ nextId = 1 /\ named \in BOOLEAN
    /\ editor = NoEdit /\ conv = [c \in Conversions |-> NoConv]
    /\ paging = NoPaging /\ work = 0

TypeOK ==
    /\ \A i \in Live : accounts[i].is \in {"web", "build", "console"} /\ i < nextId
    /\ \A i, j \in Live : (i # j) => (accounts[i].is # accounts[j].is \/ accounts[i].key # accounts[j].key)
    /\ work \in 0..MaxWork

--------------------------------------------------------------------------------
Known(row) == {i \in Live : accounts[i].is = row.is /\ accounts[i].key = row.key}

SaveBlank(old, row) == row                                             \* mutant

saveAccountRelations(old, row) == [row EXCEPT !.pw = row.pw \/ (old # Gone /\ old.pw)]

upsertKnownAccountByIdentity(old, row) ==
    IF old = Gone THEN row ELSE saveAccountRelations(old, [row EXCEPT !.on = old.on])

(* One transaction for numbered rows of different identities: those that   *)
(* are known keep their ids, the others get the next ones in their order.  *)
Places(rows) ==
    LET new == {n \in DOMAIN rows : Known(rows[n]) = {}}
    IN  {id \in [DOMAIN rows -> DOMAIN accounts] :
            /\ \A n \in DOMAIN rows \ new : id[n] \in Known(rows[n])
            /\ \A m, n \in new : m < n => id[m] < id[n]
            /\ {id[n] : n \in new} = nextId..(nextId + Cardinality(new) - 1)}

UpsertManyByIdentity(rows, id) ==
    /\ id \in Places(rows)
    /\ accounts' = [i \in DOMAIN accounts |->
                       IF \E n \in DOMAIN rows : id[n] = i
                       THEN upsertKnownAccountByIdentity(accounts[i], rows[CHOOSE n \in DOMAIN rows : id[n] = i])
                       ELSE accounts[i]]
    /\ nextId' = nextId + Cardinality({n \in DOMAIN rows : Known(rows[n]) = {}})

Import(provider, t) ==
    LET rows == [n \in {1} |-> Row(provider, t, Owner[t])]
    IN  /\ \E id \in Places(rows) : UpsertManyByIdentity(rows, id)
        /\ UNCHANGED <<links, named, editor, conv, paging, work>>

UpdateMany(ids, on) ==
    /\ ids \subseteq Live /\ work < MaxWork
    /\ accounts' = [i \in DOMAIN accounts |-> IF i \in ids THEN [accounts[i] EXCEPT !.on = on] ELSE accounts[i]]
    /\ work' = work + 1
    /\ UNCHANGED <<links, nextId, named, editor, conv, paging>>

DeleteBare(ids) ==                                                     \* mutant
    /\ ids \subseteq Live /\ work < MaxWork /\ work' = work + 1
    /\ accounts' = [i \in DOMAIN accounts |-> IF i \in ids THEN Gone ELSE accounts[i]]
    /\ paging' = IF paging.at = "idle" THEN paging ELSE [paging EXCEPT !.stay = @ \ ids, !.lost = Tokens]
    /\ UNCHANGED <<links, nextId, named, editor, conv>>

DeleteMany(ids) ==
    /\ ids \subseteq Live /\ work < MaxWork /\ work' = work + 1
    /\ accounts' = [i \in DOMAIN accounts |-> IF i \in ids THEN Gone ELSE accounts[i]]
    /\ links' = {l \in links : l[1] \notin ids /\ l[2] \notin ids}         \* ON DELETE CASCADE
    /\ paging' = IF paging.at = "idle" THEN paging ELSE [paging EXCEPT !.stay = @ \ ids, !.lost = @ \cup {accounts[i].key : i \in {j \in ids : accounts[j].is = "console"}}]
    /\ UNCHANGED <<nextId, named, editor, conv>>

(* An editor changes one field of the row it read and saves the whole row; *)
(* an account deleted in between is there again, without its link.         *)
Edits(i) ==
    {[accounts[i] EXCEPT !.on = ~ accounts[i].on]}
        \cup IF accounts[i].is = "web" THEN {[accounts[i] EXCEPT !.pw = TRUE]} ELSE {}    \* SetWebRecoveryPassword

BeginEdit(i) ==
    /\ i \in Live /\ editor = NoEdit /\ work < MaxWork
    /\ \E row \in Edits(i) : editor' = [at |-> "read", id |-> i, row |-> row]
    /\ work' = work + 1
    /\ UNCHANGED <<accounts, links, nextId, named, conv, paging>>

Update ==
    /\ editor.at = "read"
    /\ LET other == Known(editor.row) \ {editor.id}
       IN IF other # {} THEN UNCHANGED accounts                          \* identity_key is unique
          ELSE accounts' = [accounts EXCEPT ![editor.id] = saveAccountRelations(@, editor.row)]
    /\ editor' = NoEdit
    /\ UNCHANGED <<links, nextId, named, conv, paging, work>>

--------------------------------------------------------------------------------
(* convertWebAccountToBuild: the lock of the account lasts two minutes.    *)
LinkOf(i) == {l[2] : l \in {m \in links : m[1] = i}}

Wanted(missing) == {i \in Webs : missing => LinkOf(i) = {}}

Acquire(c, i, missing) ==
    /\ conv[c] = NoConv /\ i \in Wanted(missing) /\ work < MaxWork
    /\ \A d \in Conversions : ~ (conv[d].at # "idle" /\ conv[d].id = i /\ conv[d].held)       \* else ErrConversionBusy
    /\ conv' = [conv EXCEPT ![c] = [at |-> "locked", id |-> i, missing |-> missing, held |-> TRUE]]
    /\ work' = work + 1
    /\ UNCHANGED <<accounts, links, nextId, named, editor, paging>>

LockExpires(c) ==
    /\ conv[c].at # "idle" /\ conv[c].held
    /\ conv' = [conv EXCEPT ![c].held = FALSE]
    /\ UNCHANGED <<accounts, links, nextId, named, editor, paging, work>>

Fails(c) ==                               \* an error, a cancelled context, the end of the process
    /\ conv[c].at # "idle"
    /\ conv' = [conv EXCEPT ![c] = NoConv]
    /\ UNCHANGED <<accounts, links, nextId, named, editor, paging, work>>

(* What it needs of the account and of its link is read again, after the lock. *)
ReadLink(c) ==
    /\ conv[c].at = "locked"
    /\ LET i == conv[c].id
           read == [at |-> "converting", id |-> i, held |-> conv[c].held, owner |-> accounts[i].owner,
                    linked |-> LinkOf(i), key |-> {accounts[b].key : b \in LinkOf(i)}]
       IN conv' = [conv EXCEPT ![c] = IF i \notin Webs \/ (conv[c].missing /\ LinkOf(i) # {}) THEN NoConv ELSE read]
    /\ UNCHANGED <<accounts, links, nextId, named, editor, paging, work>>

(* Without a name in its token, the account goes by the key of the linked  *)
(* one, and else by a new one.                                              *)
ConvertToBuild(c) ==
    Row("build", IF named THEN conv[c].owner
                 ELSE IF conv[c].key # {} THEN CHOOSE k \in conv[c].key : TRUE ELSE nextId, conv[c].owner)

PersistSeed(c) ==             \* the account is there before it is linked
    /\ conv[c].at = "converting"
    /\ LET rows == [n \in {1} |-> ConvertToBuild(c)]
       IN  \E id \in Places(rows) :
              /\ UpsertManyByIdentity(rows, id)
              /\ conv' = [conv EXCEPT ![c] = IF conv[c].linked # {} /\ conv[c].linked # {id[1]} THEN NoConv
                                             ELSE [at |-> "linking", id |-> conv[c].id, held |-> conv[c].held, build |-> id[1]]]
    /\ UNCHANGED <<links, named, editor, paging, work>>

LinkBlind(c) ==                                                        \* mutant
    /\ conv[c].at = "linking" /\ links' = links \cup {<<conv[c].id, conv[c].build>>}
    /\ conv' = [conv EXCEPT ![c] = NoConv]
    /\ UNCHANGED <<accounts, nextId, named, editor, paging, work>>

LinkWebToBuild(c) ==
    /\ conv[c].at = "linking"
    /\ LET w == conv[c].id  b == conv[c].build
           other == {l \in links : l[1] = w \/ l[2] = b}
       IN links' = IF w \in Webs /\ b \in Live /\ accounts[b].is = "build" /\ other = {} THEN links \cup {<<w, b>>} ELSE links
    /\ conv' = [conv EXCEPT ![c] = NoConv]
    /\ UNCHANGED <<accounts, nextId, named, editor, paging, work>>

--------------------------------------------------------------------------------
(* SyncAllWebAccountsToConsole.  `stay' and `lost' are history: the Web     *)
(* accounts that were there from the start on, and deleted Console accounts.*)
Consoled(i) == {j \in Live : accounts[j].is = "console" /\ accounts[j].key = accounts[i].key}

Empty == [i \in {} |-> Gone]
BeginSync(missing) ==
    /\ paging.at = "idle" /\ work < MaxWork /\ work' = work + 1
    /\ paging' = [at |-> "listing", missing |-> missing, after |-> 0, page |-> Empty, stay |-> Webs, lost |-> {}]
    /\ UNCHANGED <<accounts, links, nextId, named, editor, conv>>

(* The accounts that come next, in the order of their ids.                 *)
ListBatch(missing, after) ==
    LET all == {i \in Webs : i > after /\ (missing => Consoled(i) = {})}
    IN  {ids \in SUBSET all : /\ Cardinality(ids) <= BatchSize
                              /\ ids = all \/ Cardinality(ids) = BatchSize
                              /\ \A i \in ids, j \in all \ ids : i < j}

ReadPage ==
    /\ paging.at = "listing"
    /\ \E ids \in ListBatch(paging.missing, paging.after) :
          paging' = [paging EXCEPT !.at = IF ids = {} THEN "done" ELSE "storing",
                                   !.page = [i \in ids |-> accounts[i].key]]
    /\ UNCHANGED <<accounts, links, nextId, named, editor, conv, work>>

ConsoleRows == [i \in DOMAIN paging.page |-> Row("console", paging.page[i], Owner[paging.page[i]])]
Stored(last) ==
    paging' = [paging EXCEPT !.at = IF Cardinality(DOMAIN paging.page) < BatchSize THEN "done" ELSE "listing",
                             !.after = last, !.page = Empty]

AfterStored ==                                                         \* mutant
    /\ paging.at = "storing"
    /\ \E id \in Places(ConsoleRows) : UpsertManyByIdentity(ConsoleRows, id)
    /\ Stored(nextId' - 1)
    /\ UNCHANGED <<links, named, editor, conv, work>>

StorePage ==
    /\ paging.at = "storing"
    /\ \E id \in Places(ConsoleRows) : UpsertManyByIdentity(ConsoleRows, id)
    /\ \E last \in DOMAIN paging.page : (\A i \in DOMAIN paging.page : i <= last) /\ Stored(last)
    /\ UNCHANGED <<links, named, editor, conv, work>>

EndSync ==
    /\ paging.at # "idle" /\ paging' = NoPaging               \* done, or given up
    /\ UNCHANGED <<accounts, links, nextId, named, editor, conv, work>>

Next ==
    \/ \E provider \in {"web", "console"}, t \in Tokens : Import(provider, t)
    \/ \E i \in Live : UpdateMany({i}, FALSE) \/ DeleteMany({i}) \/ BeginEdit(i)
    \/ Update
    \/ \E c \in Conversions : \/ \E i \in Webs, missing \in BOOLEAN : Acquire(c, i, missing)
                               \/ LockExpires(c) \/ Fails(c) \/ ReadLink(c) \/ PersistSeed(c) \/ LinkWebToBuild(c)
    \/ \E missing \in BOOLEAN : BeginSync(missing)
    \/ ReadPage \/ StorePage \/ EndSync

--------------------------------------------------------------------------------
(* Whatever conversions, deletions and stale rows cross each other, a link *)
(* joins a Web and a Build account that exist and that have one owner, and *)
(* an account has at most one.                                             *)
LinksHold ==
    \A l \in links :
        /\ l[1] \in Webs /\ l[2] \in Live /\ accounts[l[2]].is = "build" /\ accounts[l[1]].owner = accounts[l[2]].owner
        /\ \A m \in links : (m # l) => (m[1] # l[1] /\ m[2] # l[2])

(* A sync that ends has given a Console account to every Web account that  *)
(* was there all the time, whatever was imported and deleted in between.   *)
NobodyMissed ==
    paging.at = "done" => \A i \in paging.stay : Consoled(i) # {} \/ accounts[i].key \in paging.lost

(* As long as an account is there, importing, converting or editing it     *)
(* again never loses the recovery password it was registered with, and     *)
(* only an editor turns on again what was turned off.                      *)
PasswordsKeptStep ==
    \A i \in Live : accounts'[i] = Gone \/
        /\ accounts[i].pw => accounts'[i].pw
        /\ ~ accounts[i].on /\ accounts'[i].on => editor.at = "read" /\ editor' = NoEdit
PasswordsKept == [][PasswordsKeptStep]_vars
=============================================================================
