---------------------------- MODULE RuleVersions ----------------------------
(* The versions of one trigger rule and the administrators who edit,         *)
(* validate, publish and retire them (trigger_rules.py). Every operation is  *)
(* one READ COMMITTED transaction: it reads the version, decides, looks at   *)
(* the other rows it needs and writes at its commit. No row is locked before *)
(* it is written, so two operations may decide on the same state. An object  *)
(* is written back only in the columns the operation changed.                *)
EXTENDS Naturals, Sequences, FiniteSetsExt

CONSTANTS
  RuleIds,  \* primary keys of version rows, 1 .. n, given out in order
  Admins,   \* administrators' requests
  Bodies    \* what a version may say: its conditions and the list of its actions

VARIABLES
  rule,     \* the rule's lifecycle, a mirror of its versions'
  row,      \* row[i]: one version row
  txn,      \* txn[a]: the open transaction of a with what it has read
  raced,    \* auxiliary: raced[i], operations open together with a publication of i
  dry       \* a dry run: the version it matched, and whether others were published since

vars == <<rule, row, txn, raced, dry>>

Lifecycles == {"draft", "validated", "published", "retired"}
Gone == {"none", "deleted"}
NoBody == [conditions |-> "none", actions |-> <<>>]
Deleted == [no |-> 0, lifecycle |-> "deleted", body |-> NoBody]
Row == [no : 0 .. Max(RuleIds), lifecycle : Lifecycles \cup Gone, body : Bodies \cup {NoBody}]
OnVersion == {"edit_draft", "delete_draft", "validate", "publish", "retire"}
TwoReads == {"publish", "retire", "add_version", "delete_rule"}

(* What a transaction keeps: its version, the body to store, and from its    *)
(* second statement the mirror, the published versions and the next number.  *)
Idle == [op |-> "idle"]
NoRun == [id |-> 0, moved |-> FALSE]
Txn == [op : OnVersion \cup TwoReads, id : RuleIds, body : Bodies \cup {NoBody}, looked : BOOLEAN,
        mirror : Lifecycles \cup Gone, others : SUBSET RuleIds, next : 0 .. Max(RuleIds) + 1]

TypeOK ==
  /\ rule \in Lifecycles \cup Gone
  /\ row \in [RuleIds -> Row]
  /\ txn \in [Admins -> Txn \cup {Idle}]
  /\ raced \in [RuleIds -> SUBSET {"publish", "retire", "edit_draft"}]
  /\ dry \in [id : RuleIds \cup {0}, moved : BOOLEAN]

Init ==
  /\ rule = "none"
  /\ row = [i \in RuleIds |-> [no |-> 0, lifecycle |-> "none", body |-> NoBody]]
  /\ txn = [a \in Admins |-> Idle]
  /\ raced = [i \in RuleIds |-> {}]
  /\ dry = NoRun

(* The publish gate (rules.py). Of the conditions only the verdict of the    *)
(* rule language is kept; an action has a type, which the engine may not     *)
(* support, and a config, which may lack what that type needs.               *)
ValidateConditions(conditions) == conditions \in {"none", "valid"}
SupportedTypes == {"create_event", "attach_workflow", "show_client_popup"}
ActionConfigProblems(action) == ~action.complete
ValidateActions(actions) ==
  \A i \in 1 .. Len(actions) :
    actions[i].type \in SupportedTypes /\ ~ActionConfigProblems(actions[i])

PublishBlockers(body) ==
  \/ ~ValidateConditions(body.conditions)
  \/ body.actions = <<>>
  \/ ~ValidateActions(body.actions)

Present(i) == row[i].lifecycle \notin Gone
Published == {i \in RuleIds : row[i].lifecycle = "published"}
NextNo == Max({0} \cup {row[i].no : i \in {j \in RuleIds : Present(j)}}) + 1
Unused == {i \in RuleIds : row[i].lifecycle = "none"}
Open == {a \in Admins : txn[a] # Idle}

(* create_rule: the rule and its first draft, nothing read.                  *)
CreateRule(body) ==
  /\ rule = "none"
  /\ rule' = "draft"
  /\ row' = [row EXCEPT ![Min(RuleIds)] = [no |-> 1, lifecycle |-> "draft", body |-> body]]
  /\ UNCHANGED <<txn, raced>>

-----------------------------------------------------------------------------
(* Reading.                                                                  *)

(* How an open operation op on i disturbs a publication of k, if it does.    *)
Disturbance(op, i, k) ==
  {kind \in {"publish", "retire", "edit_draft"} :
     \/ kind = "retire" /\ op \in {"retire", "delete_rule"}
     \/ kind = "publish" /\ op = "publish" /\ i # k
     \/ kind = "edit_draft" /\ op = "edit_draft" /\ i = k}

Opened(a, op, i, body) ==
  /\ txn[a] = Idle
  /\ txn' = [txn EXCEPT ![a] = [op |-> op, id |-> i, body |-> body, looked |-> op \notin TwoReads,
                                mirror |-> "none", others |-> {}, next |-> 0]]
  /\ raced' = [k \in RuleIds |-> raced[k] \cup UNION {
       (IF op = "publish" /\ i = k THEN Disturbance(txn[b].op, txn[b].id, k) ELSE {})
       \cup (IF txn[b].op = "publish" /\ txn[b].id = k THEN Disturbance(op, i, k) ELSE {}) : b \in Open}]
  /\ UNCHANGED <<rule, row>>

(* get_version                                                               *)
GetVersion(i, lifecycle) == Present(i) /\ row[i].lifecycle = lifecycle

(* The handlers. What refuses a request on the version row alone ends it     *)
(* here; storing the body a draft has already, and validating a validated    *)
(* version, write nothing and are left out.                                  *)
EditVersion(a, i, body) ==
  GetVersion(i, "draft") /\ body # row[i].body /\ Opened(a, "edit_draft", i, body)

DeleteVersion(a, i) == GetVersion(i, "draft") /\ Opened(a, "delete_draft", i, NoBody)

ValidateVersion(a, i) ==
  /\ GetVersion(i, "draft") /\ ~PublishBlockers(row[i].body)
  /\ Opened(a, "validate", i, NoBody)

PublishVersion(a, i) ==
  /\ GetVersion(i, "validated") /\ ~PublishBlockers(row[i].body)
  /\ Opened(a, "publish", i, NoBody)

RetireVersion(a, i) == GetVersion(i, "published") /\ Opened(a, "retire", i, NoBody)

AddVersionTo(a, body) == rule \notin Gone /\ Opened(a, "add_version", Min(RuleIds), body)

DeleteRuleRequest(a) == rule \notin Gone /\ Opened(a, "delete_rule", Min(RuleIds), NoBody)

(* mutant: the version published before is not looked for                    *)
PublishedBesideNone(t) == {}

(* _retire_current_published, _published_version_id: the published versions  *)
(* a transaction sees besides its own.                                       *)
PublishedBeside(t) == {i \in Published : t.op = "delete_rule" \/ i # t.id}

(* The second statement: _retire_current_published and the rule of publish,  *)
(* _published_version_id of retire and delete_rule, max(version_no).         *)
Look(a) ==
  LET t == txn[a] IN
  /\ a \in Open /\ ~t.looked
  /\ txn' = [txn EXCEPT ![a] = IF t.op = "add_version" THEN [t EXCEPT !.looked = TRUE, !.next = NextNo]
                               ELSE [t EXCEPT !.looked = TRUE, !.mirror = rule,
                                              !.others = PublishedBeside(t)]]
  /\ UNCHANGED <<rule, row, raced>>

Ready(a, op) == a \in Open /\ txn[a].op = op /\ txn[a].looked
Close(a) == txn' = [txn EXCEPT ![a] = Idle] /\ UNCHANGED raced

-----------------------------------------------------------------------------
(* Committing.                                                               *)

FrozenNever(i, body) == FALSE                                        \* mutant

(* The database trigger: a published row keeps its conditions and actions.   *)
Frozen(i, body) == row[i].lifecycle = "published" /\ body # row[i].body

(* edit_draft                                                                *)
EditDraft(a) ==
  LET t == txn[a] IN
  /\ Ready(a, "edit_draft")
  /\ Present(t.id) /\ ~Frozen(t.id, t.body)
  /\ row' = [row EXCEPT ![t.id].body = t.body]
  /\ Close(a) /\ UNCHANGED rule

(* delete_draft: a DELETE by primary key.                                    *)
DeleteDraft(a) ==
  /\ Ready(a, "delete_draft")
  /\ row' = [row EXCEPT ![txn[a].id] = Deleted]
  /\ Close(a) /\ UNCHANGED rule

(* validate: whatever the row has become since it was read.                  *)
Validate(a) ==
  /\ Ready(a, "validate")
  /\ Present(txn[a].id)
  /\ row' = [row EXCEPT ![txn[a].id].lifecycle = "validated"]
  /\ Close(a) /\ UNCHANGED rule

(* publish: the version, every other version it saw published, and the       *)
(* mirror on the rule if it read another value there.                        *)
Publish(a) ==
  LET t == txn[a] IN
  /\ Ready(a, "publish")
  /\ t.mirror \notin Gone
  /\ \A i \in t.others \cup {t.id} : Present(i)
  /\ row' = [i \in RuleIds |-> IF i = t.id THEN [row[i] EXCEPT !.lifecycle = "published"]
                           ELSE IF i \in t.others THEN [row[i] EXCEPT !.lifecycle = "retired"]
                           ELSE row[i]]
  /\ rule' = IF t.mirror = "published" THEN rule ELSE "published"
  /\ Close(a)

(* retire: the mirror follows if no other version was published.             *)
Retire(a) ==
  LET t == txn[a] IN
  /\ Ready(a, "retire")
  /\ Present(t.id)
  /\ row' = [row EXCEPT ![t.id].lifecycle = "retired"]
  /\ rule' = IF t.others = {} /\ t.mirror # "retired"
             THEN "retired" ELSE rule
  /\ Close(a)

(* add_version: UNIQUE (rule_id, version_no), and the rule must still exist. *)
AddVersion(a) ==
  LET t == txn[a] IN
  /\ Ready(a, "add_version")
  /\ rule \notin Gone
  /\ Unused # {}
  /\ \A i \in RuleIds : Present(i) => row[i].no # t.next
  /\ row' = [row EXCEPT ![Min(Unused)] = [no |-> t.next, lifecycle |-> "draft", body |-> t.body]]
  /\ Close(a) /\ UNCHANGED rule

(* delete_rule: refused if it saw a published version; its versions go too.  *)
DeleteRule(a) ==
  /\ Ready(a, "delete_rule")
  /\ txn[a].others = {}
  /\ rule' = "deleted"
  /\ row' = [i \in RuleIds |-> IF Present(i) THEN Deleted ELSE row[i]]
  /\ raced' = [i \in RuleIds |-> {}]
  /\ txn' = [txn EXCEPT ![a] = Idle]

(* A refusal after the first statement, a violated constraint, a row that is *)
(* gone, an exception: everything is rolled back.                            *)
Rollback(a) == a \in Open /\ Close(a) /\ UNCHANGED <<rule, row>>

-----------------------------------------------------------------------------
(* Reading the published rules: process_inbox_event and simulate take the    *)
(* conditions from one statement and the actions from a later one.           *)

Newest(I) == {i \in I : \A j \in I : row[j].no <= row[i].no}

(* _published_version: the actions that are run, or reported.                *)
PublishedVersion == Newest(Published)

(* _candidates: of the rules that say they are published, the newest         *)
(* published version.                                                        *)
Candidates == IF rule = "published" THEN Newest(Published) ELSE {}

(* A dry run that matches; its second statement ends it, with an audit row.  *)
Simulate ==
  /\ dry = NoRun /\ \E i \in Candidates : dry' = [id |-> i, moved |-> FALSE]
  /\ UNCHANGED <<rule, row, txn, raced>>

SimulationReport == dry # NoRun /\ dry' = NoRun /\ UNCHANGED <<rule, row, txn, raced>>

Watched == dry' = IF dry # NoRun /\ Published' # Published THEN [dry EXCEPT !.moved = TRUE] ELSE dry

Administer ==
  \/ \E body \in Bodies : CreateRule(body)
  \/ \E a \in Admins :
       \/ \E i \in RuleIds : \/ DeleteVersion(a, i) \/ ValidateVersion(a, i)
                         \/ PublishVersion(a, i) \/ RetireVersion(a, i)
       \/ \E i \in RuleIds, body \in Bodies : EditVersion(a, i, body)
       \/ DeleteRuleRequest(a) \/ \E body \in Bodies : AddVersionTo(a, body)
       \/ Look(a)
       \/ EditDraft(a) \/ DeleteDraft(a) \/ Validate(a) \/ Publish(a) \/ Retire(a)
       \/ AddVersion(a) \/ DeleteRule(a) \/ Rollback(a)

RulesNext == Administer /\ Watched
Next == RulesNext \/ Simulate \/ SimulationReport

Spec == Init /\ [][Next]_vars

-----------------------------------------------------------------------------
(* What the engine finds published. Two versions are published only if their *)
(* publications overlapped; the mirror, which it reads first, denies a       *)
(* published version only if a retirement or a second publication overlapped *)
(* the publication; a body the gate rejects is published only if an edit of  *)
(* that draft overlapped it. A dry run reports the actions of the version    *)
(* whose conditions matched, also while two are published, unless one was    *)
(* published or retired between its two statements.                          *)
PublishedIsServed ==
  /\ \A i, j \in Published : i # j => "publish" \in raced[i] \cup raced[j]
  /\ \A i \in Published :
       /\ rule = "published" \/ raced[i] # {}
       /\ PublishBlockers(row[i].body) => "edit_draft" \in raced[i]
  /\ dry # NoRun /\ ~dry.moved => PublishedVersion = {dry.id}

(* A published version does not change, whatever an edit has read before.    *)
PublishedIsFrozen ==
  \A i \in RuleIds : i \in Published /\ i \in Published' => row'[i].body = row[i].body
=============================================================================
