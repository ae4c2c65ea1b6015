---------------------------- MODULE SettingsSync ----------------------------
(***************************************************************************)
(* The runtime settings (application/settings, relational                  *)
(* settings_repository): one row with a revision, and a copy of it in      *)
(* every instance that administrators read and update.  Redis announces a  *)
(* change; an announcement may be lost, and every 30 s each instance looks *)
(* at the row anyway, so a reload may happen at any time.                  *)
(*                                                                         *)
(* The fields by how they are copied: "plain" as it is; "text" from a form *)
(* as it is, from the row unless it is empty there; "secret" is shown in   *)
(* no form, and an empty one in a form or in the row leaves it as it is;   *)
(* "manual", the Statsig value, is shown in no form either and belongs to  *)
(* the manual mode; "verify", VerifyBuildAfterRegister, is read from the   *)
(* row as what it may have meant.                                          *)
(***************************************************************************)
EXTENDS Naturals, Sequences

CONSTANTS Instances, Tabs,
          Inputs,               \* what administrators enter, members of Config
          MaxRevision           \* bound: updates that are committed

VARIABLES row,          \* the table, [rev, cfg]; rev = 0: no row
          node,         \* Service: cfg, revision, what it does under updateMu
          form,         \* the settings that an administrator has open
          log           \* history: what was committed, and what its author saw

vars == <<row, node, form, log>>

Config == [plain : {"", "q"}, text : {"", "x"}, secret : {"", "s"},
           mode : {"manual", "url"}, manual : {"", "v"}, verify : BOOLEAN]
defaultConfig == [plain |-> "q", text |-> "x", secret |-> "", mode |-> "url", manual |-> "", verify |-> TRUE]
None == [is |-> "none"]
Down == [is |-> "down"]
Idle(rev, cfg) == [is |-> "idle", rev |-> rev, cfg |-> cfg]

Init ==
    /\ row = [rev |-> 0, cfg |-> defaultConfig] /\ node = [i \in Instances |-> Down]
    /\ form = [t \in Tabs |-> None] /\ log = <<>>

TypeOK ==
    /\ row.rev \in 0..MaxRevision /\ row.cfg \in Config
    /\ \A i \in Instances : node[i] = Down \/ (node[i].cfg \in Config /\ node[i].rev <= row.rev)
    /\ \A t \in Tabs : form[t] = None \/ form[t].at \in Instances

--------------------------------------------------------------------------------
Filled(new, old) == IF new = "" THEN old ELSE new

(* The manual mode needs its value.                                        *)
Validate(cfg) == cfg.mode = "manual" => cfg.manual # ""

(* A row of an older version has no `verify', nor the fields beside it,    *)
(* ProbeDelay and ProbeModel: that reads as TRUE, also when an             *)
(* administrator entered all this.                                         *)
Ambiguous(cfg) == ~cfg.verify /\ cfg.text = "" /\ cfg.plain = ""

applyDomainConfig(base, value) ==
    [value EXCEPT !.text = Filled(@, base.text), !.secret = Filled(@, base.secret), !.verify = @ \/ Ambiguous(value)]

mergeKeeping(current, input) ==    \* mutant: the manual value like any other secret
    [input EXCEPT !.secret = Filled(@, current.secret), !.manual = Filled(@, current.manual)]

mergeEditable(current, input) ==
    [input EXCEPT !.secret = Filled(@, current.secret),
                  !.manual = IF input.mode = "manual" THEN Filled(@, current.manual) ELSE ""]

toEditable(cfg) == [plain |-> cfg.plain, mode |-> cfg.mode, verify |-> cfg.verify]     \* what the properties are about

(* A program whose settings are not valid does not start.                  *)
LoadPersisted(i) ==
    LET cfg == IF row.rev = 0 THEN defaultConfig ELSE applyDomainConfig(defaultConfig, row.cfg)
    IN  /\ node[i] = Down /\ Validate(cfg)
        /\ node' = [node EXCEPT ![i] = Idle(row.rev, cfg)]
        /\ UNCHANGED <<row, form, log>>

Stop(i) ==
    /\ node[i] # Down /\ node' = [node EXCEPT ![i] = Down]
    /\ UNCHANGED <<row, form, log>>

Get(t, i) ==
    /\ form[t] = None /\ node[i] # Down
    /\ form' = [form EXCEPT ![t] = [is |-> "form", at |-> i, rev |-> node[i].rev, seen |-> toEditable(node[i].cfg)]]
    /\ UNCHANGED <<row, node, log>>

(* The form of another revision is refused, and one that is not valid.     *)
Update(t, input) ==
    /\ form[t] # None
    /\ LET i == form[t].at
           next == mergeEditable(node[i].cfg, input)
       IN  /\ node[i].is = "idle"
           /\ node' = IF form[t].rev # node[i].rev \/ ~Validate(next) THEN node
                      ELSE [node EXCEPT ![i] = [is |-> "saving", rev |-> @.rev, cfg |-> @.cfg, seen |-> form[t].seen,
                                                next |-> next]]
    /\ form' = [form EXCEPT ![t] = None]
    /\ UNCHANGED <<row, log>>

SaveBlind(i) == TRUE                  \* mutant: whatever the row's revision
Matches(i) == row.rev = node[i].rev

(* Another instance was first; the write fails, or is committed all the    *)
(* same; it succeeds.                                                      *)
Save(i) ==
    /\ node[i].is = "saving" /\ row.rev < MaxRevision
    /\ LET Fail == node' = [node EXCEPT ![i] = Idle(@.rev, @.cfg)]
       IN  \/ Fail /\ UNCHANGED <<row, log>>
           \/ /\ Matches(i) /\ row' = [rev |-> node[i].rev + 1, cfg |-> node[i].next]
              /\ log' = Append(log, [cfg |-> node[i].next, seen |-> node[i].seen])
              /\ Fail \/ node' = [node EXCEPT ![i].is = "saved"]
    /\ UNCHANGED form

(* The new settings are applied to every part of the program.              *)
Apply(i) ==
    /\ node[i].is = "saved" /\ node' = [node EXCEPT ![i] = Idle(@.rev + 1, @.next)]
    /\ UNCHANGED <<row, form, log>>

ReloadPersisted(i) ==
    /\ node[i].is = "idle" /\ row.rev > 0
    /\ node' = [node EXCEPT ![i] = [is |-> "reading", rev |-> @.rev, cfg |-> @.cfg, row |-> row]]
    /\ UNCHANGED <<row, form, log>>

ReappliedLater(i) == Idle(row.rev, applyDomainConfig(node[i].cfg, node[i].row.cfg))     \* mutant: the revision of now
Reapplied(i) == Idle(node[i].row.rev, applyDomainConfig(node[i].cfg, node[i].row.cfg))

Reloaded(i) ==
    /\ node[i].is = "reading"
    /\ node' = [node EXCEPT ![i] = IF node[i].row.rev <= @.rev \/ ~Validate(Reapplied(i).cfg) THEN Idle(@.rev, @.cfg)
                                   ELSE Reapplied(i)]
    /\ UNCHANGED <<row, form, log>>

Next ==
    \/ \E i \in Instances : LoadPersisted(i) \/ Stop(i) \/ Save(i) \/ Apply(i) \/ ReloadPersisted(i) \/ Reloaded(i)
    \/ \E t \in Tabs : (\E i \in Instances : Get(t, i)) \/ (\E input \in Inputs : Update(t, input))

Spec == Init /\ [][Next]_vars

--------------------------------------------------------------------------------
(* No update is lost: the author of each committed update had before them  *)
(* what the one before had committed, at whichever instance it was made    *)
(* and although reloads and updates of several instances cross; `verify'   *)
(* as it was entered or as it is read back.                                *)
UpdatesSeeLatest ==
    \A k \in 1..Len(log) :
        LET last == IF k = 1 THEN defaultConfig ELSE log[k - 1].cfg
            seen == log[k].seen
        IN  seen.plain = last.plain /\ seen.mode = last.mode /\ (seen.verify = last.verify \/ Ambiguous(last))

(* An instance at the revision of the row has the settings of the row, but *)
(* for a text that was cleared and a `verify' that reads as TRUE.  A       *)
(* secret that was given is never cleared; the manual value of the         *)
(* signatures is there exactly while their mode is manual, in every copy:  *)
(* one that was cleared does not come back.                                *)
SameRevisionSameSettings ==
    /\ \A i \in Instances : node[i] # Down /\ node[i].rev = row.rev =>
         LET cfg == node[i].cfg
         IN  /\ [cfg EXCEPT !.text = "", !.verify = TRUE] = [row.cfg EXCEPT !.text = "", !.verify = TRUE]
             /\ cfg.text \in {row.cfg.text, defaultConfig.text}
             /\ cfg.verify = row.cfg.verify \/ Ambiguous(row.cfg)
    /\ \A k \in 2..Len(log) : log[k - 1].cfg.secret # "" => log[k].cfg.secret # ""
    /\ \A cfg \in {node[i].cfg : i \in {j \in Instances : node[j] # Down}} \cup {log[k].cfg : k \in 1..Len(log)} :
         cfg.mode = "manual" <=> cfg.manual # ""
=============================================================================
