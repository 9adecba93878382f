---------------------------- MODULE TriggerEngine ---------------------------
(***************************************************************************)
(* Inbound signals: the provider inbox (infra/inbox.py), the engine that   *)
(* drains it (infra/repositories/trigger_engine.py) and the actions of a   *)
(* published rule (trigger_actions.py), with the lifecycle of the rules    *)
(* and operators who start workflows by hand.                              *)
(*                                                                         *)
(* Every step is one transaction. An atomic action claims its ledger row   *)
(* first and a second claim waits for that transaction to end, so the      *)
(* whole transaction is one step; attach_workflow takes three of them.     *)
(***************************************************************************)
EXTENDS Naturals, Sequences, FiniteSetsExt

CONSTANTS
  Signals,      \* what providers report: the dedupe keys
  Raw,          \* those that are no inbound signal (raw telephony or alarm rows)
  Rules,        \* the rules in (priority, rule_id) order
  Matches,      \* Matches[r]: the signals the conditions of rule r accept
  Script,       \* Script[r]: the action kinds of every version of r
  Workers,      \* nodes that drain the inbox
  Operators,    \* requests that start a workflow for an event
  Limit,        \* resume_unprocessed's limit
  MaxRows,      \* bound: inbox rows
  MaxVersion,   \* bound: published versions of a rule
  MaxCrashes    \* bound: crashes

RuleSet == Range(Rules)
Kinds == {"create_event", "attach_workflow", "popup", "enqueue", "malformed", "broken"}

ASSUME TriggerAssumption ==
  /\ Raw \subseteq Signals /\ Limit \in Nat \ {0} /\ MaxVersion \in Nat \ {0}
  /\ MaxRows \in Nat /\ MaxCrashes \in Nat
  /\ Rules \in Seq(RuleSet) /\ IsInjective(Rules)
  /\ \A r \in RuleSet : Script[r] \in Seq(Kinds) \ {<<>>}   \* publish_blockers: no empty list

VARIABLES
  inbox,      \* provider_event_inbox in order of receipt
  rules,      \* rules[r]: newest version, and whether it is published
  ledger,     \* trigger_executions: the status under each key
  effects,    \* effects[k]: how often the effect of action k was committed
  audits,     \* audits[k]: TRIGGER_EXECUTED entries for k
  unmapped,   \* unmapped[s]: recorded occurrences of a signal without a rule
  instances,  \* instances[k]: running workflow instances of the event k created
  template,   \* the workflow template has a published version
  worker,     \* worker[w]: where the drain of node w is
  operator,   \* operator[o]: the event a start request has looked at
  crashes

db == <<inbox, rules, ledger, effects, audits, unmapped, instances, template>>
vars == <<inbox, rules, ledger, effects, audits, unmapped, instances, template, worker, operator, crashes>>

Key(row, r, v, i) == [row |-> row, rule |-> r, version |-> v, index |-> i]
Keys == UNION {[row : 1 .. MaxRows, rule : {r}, version : 1 .. MaxVersion,
                index : 1 .. Len(Script[r])] : r \in RuleSet}
Kind(k) == Script[k.rule][k.index]
NoEvent == [row |-> 0]

(* A drain has its rows, the candidate rules left for the first of them, and *)
(* inside a rule the action it is at and the event the rule has created.     *)
Idle == [pc |-> "idle"]
RowIds == SUBSET (1 .. MaxRows)
Drains ==
  {Idle} \cup [pc : {"row"}, rows : RowIds]
    \cup [pc : {"unmapped", "mark"}, rows : RowIds \ {{}}]
    \cup [pc : {"rule"}, rows : RowIds \ {{}}, left : SUBSET DOMAIN Rules]
    \cup [pc : {"action", "failing", "claimed", "starting", "started"}, rows : RowIds \ {{}},
          left : SUBSET DOMAIN Rules, event : Keys \cup {NoEvent}, key : Keys]

TypeOK ==
  /\ inbox \in Seq([signal : Signals, processed : BOOLEAN]) /\ Len(inbox) <= MaxRows
  /\ rules \in [RuleSet -> [version : 1 .. MaxVersion, published : BOOLEAN]]
  /\ ledger \in [Keys -> {"none", "pending", "succeeded", "failed"}]
  /\ effects \in [Keys -> Nat] /\ audits \in [Keys -> Nat] /\ instances \in [Keys -> Nat]
  /\ unmapped \in [Signals -> Nat] /\ template \in BOOLEAN
  /\ worker \in [Workers -> Drains]
  /\ operator \in [Operators -> Keys \cup {NoEvent}]
  /\ crashes \in 0 .. MaxCrashes

Init ==
  /\ inbox = <<>>
  /\ rules = [r \in RuleSet |-> [version |-> 1, published |-> TRUE]]
  /\ ledger = [k \in Keys |-> "none"]
  /\ effects = [k \in Keys |-> 0] /\ audits = [k \in Keys |-> 0]
  /\ unmapped = [s \in Signals |-> 0] /\ instances = [k \in Keys |-> 0]
  /\ template = TRUE
  /\ worker = [w \in Workers |-> Idle] /\ operator = [o \in Operators |-> NoEvent]
  /\ crashes = 0

-----------------------------------------------------------------------------
(* ingest: ON CONFLICT (dedupe_key) DO NOTHING.                              *)
IsNew(s) == \A i \in DOMAIN inbox : inbox[i].signal # s

Ingest(s) ==
  /\ IsNew(s) /\ Len(inbox) < MaxRows
  /\ inbox' = Append(inbox, [signal |-> s, processed |-> FALSE])
  /\ UNCHANGED <<rules, ledger, effects, audits, unmapped, instances, template, worker, operator, crashes>>

(* TriggerRuleAdminService.publish of the next version, which retires the    *)
(* published one, and retire.                                                *)
Publish(r) ==
  /\ rules[r].version < MaxVersion
  /\ rules' = [rules EXCEPT ![r] = [version |-> @.version + 1, published |-> TRUE]]
  /\ UNCHANGED <<inbox, ledger, effects, audits, unmapped, instances, template, worker, operator, crashes>>

Retire(r) ==
  /\ rules[r].published
  /\ rules' = [rules EXCEPT ![r].published = FALSE]
  /\ UNCHANGED <<inbox, ledger, effects, audits, unmapped, instances, template, worker, operator, crashes>>

-----------------------------------------------------------------------------
Goto(w, s) == worker' = [worker EXCEPT ![w] = s]
Row(w) == Min(worker[w].rows)

(* resume_unprocessed: the oldest unprocessed rows.                          *)
Unprocessed == {i \in DOMAIN inbox : ~inbox[i].processed}
NewestFirst(I) == {i \in I : Cardinality({j \in I : j >= i}) <= Limit}   \* mutant
Oldest(I) == {i \in I : Cardinality({j \in I : j <= i}) <= Limit}

Poll(w) ==
  /\ worker[w] = Idle /\ Unprocessed # {}
  /\ Goto(w, [pc |-> "row", rows |-> Oldest(Unprocessed)])
  /\ UNCHANGED <<db, operator, crashes>>

(* _candidates and select_matching_rules: positions in Rules, worked off in  *)
(* that order.                                                               *)
Candidates(s) == {n \in DOMAIN Rules : rules[Rules[n]].published /\ s \in Matches[Rules[n]]}

(* process_inbox_event up to its first action.                               *)
LoadRow(w) ==
  /\ worker[w].pc = "row"
  /\ LET rows == worker[w].rows
         s == inbox[Row(w)].signal
     IN Goto(w, IF rows = {} THEN Idle
                ELSE IF inbox[Row(w)].processed THEN [pc |-> "row", rows |-> rows \ {Row(w)}]
                ELSE IF s \in Raw THEN [pc |-> "mark", rows |-> rows]
                ELSE IF Candidates(s) = {} THEN [pc |-> "unmapped", rows |-> rows]
                ELSE [pc |-> "rule", rows |-> rows, left |-> Candidates(s)])
  /\ UNCHANGED <<db, operator, crashes>>

RecordUnmapped(w) ==
  /\ worker[w].pc = "unmapped"
  /\ unmapped' = [unmapped EXCEPT ![inbox[Row(w)].signal] = @ + 1]
  /\ Goto(w, [pc |-> "mark", rows |-> worker[w].rows])
  /\ UNCHANGED <<inbox, rules, ledger, effects, audits, instances, template, operator, crashes>>

(* _published_version of the next candidate; none: the rule is skipped.      *)
NextRule(w) ==
  /\ worker[w].pc = "rule"
  /\ LET left == worker[w].left
         rows == worker[w].rows
         n == Min(left)
         r == Rules[n]
     IN Goto(w, IF left = {} THEN [pc |-> "mark", rows |-> rows]
                ELSE IF ~rules[r].published
                THEN [pc |-> "rule", rows |-> rows, left |-> left \ {n}]
                ELSE [pc |-> "action", rows |-> rows, left |-> left \ {n}, event |-> NoEvent,
                      key |-> Key(Row(w), r, rules[r].version, 1)])
  /\ UNCHANGED <<db, operator, crashes>>

MarkProcessed(w) ==
  /\ worker[w].pc = "mark"
  /\ inbox' = [inbox EXCEPT ![Row(w)].processed = TRUE]
  /\ Goto(w, [pc |-> "row", rows |-> worker[w].rows \ {Row(w)}])
  /\ UNCHANGED <<rules, ledger, effects, audits, unmapped, instances, template, operator, crashes>>

-----------------------------------------------------------------------------
K(w) == worker[w].key

(* run_rule_version goes on behind action k; event is what last_event_id     *)
(* will find.                                                                *)
After(w, event) ==
  LET k == K(w)
  IN IF k.index = Len(Script[k.rule])
     THEN [pc |-> "rule", rows |-> worker[w].rows, left |-> worker[w].left]
     ELSE [worker[w] EXCEPT !.pc = "action", !.key.index = @ + 1, !.event = event]

(* _claim: the UNIQUE key of trigger_executions.                             *)
ClaimAny(k) == TRUE                                                  \* mutant
CanClaim(k) == ledger[k] = "none"

Audited(k) == [audits EXCEPT ![k] = @ + 1]

(* An action that is already in the ledger is skipped, its result unread.    *)
SkipClaimed(w) ==
  /\ worker[w].pc = "action" /\ ~CanClaim(K(w))
  /\ Goto(w, After(w, worker[w].event))
  /\ UNCHANGED <<db, operator, crashes>>

(* _run_atomic: claim, effect, finish and audit commit together.             *)
RunAtomic(w, kind, count, event) ==
  /\ worker[w].pc = "action" /\ CanClaim(K(w)) /\ Kind(K(w)) = kind
  /\ ledger' = [ledger EXCEPT ![K(w)] = "succeeded"]
  /\ effects' = [effects EXCEPT ![K(w)] = count]
  /\ audits' = Audited(K(w))
  /\ Goto(w, After(w, event))
  /\ UNCHANGED <<inbox, rules, unmapped, instances, template, operator, crashes>>

CreateEvent(w) ==
  worker[w].pc = "action" /\ RunAtomic(w, "create_event", effects[K(w)] + 1, K(w))
ShowClientPopup(w) ==
  worker[w].pc = "action" /\ RunAtomic(w, "popup", effects[K(w)] + 1, worker[w].event)
(* notify, the call and the integration actions: enqueue is a no-op if the   *)
(* dedupe key, which is K(w), has a row.                                     *)
EnqueueAction(w) ==
  worker[w].pc = "action" /\ RunAtomic(w, "enqueue", 1, worker[w].event)

(* A TriggerActionError rolls the transaction back ...                       *)
RaiseKnown(w) ==
  /\ worker[w].pc = "action" /\ CanClaim(K(w)) /\ Kind(K(w)) = "malformed"
  /\ Goto(w, [worker[w] EXCEPT !.pc = "failing"])
  /\ UNCHANGED <<db, operator, crashes>>

(* ... and _record_failure records it in one of its own.                     *)
Unsettled(k) == ledger[k] \in {"none", "pending"}
NotSucceeded(k) == ledger[k] # "succeeded"                           \* mutant
FailureCounts(k) == Unsettled(k)

Failed(k) == [ledger EXCEPT ![k] = "failed"]

RecordFailure(w) ==
  /\ worker[w].pc = "failing"
  /\ IF FailureCounts(K(w))
     THEN ledger' = Failed(K(w)) /\ audits' = Audited(K(w))
     ELSE UNCHANGED <<ledger, audits>>
  /\ Goto(w, After(w, worker[w].event))
  /\ UNCHANGED <<inbox, rules, effects, unmapped, instances, template, operator, crashes>>

(* Any other exception (a foreign key that is gone) leaves the engine; the   *)
(* tick ends and run_as_singleton suppresses it.                             *)
RaiseOther(w) ==
  /\ worker[w].pc = "action" /\ CanClaim(K(w)) /\ Kind(K(w)) = "broken"
  /\ Goto(w, Idle)
  /\ UNCHANGED <<db, operator, crashes>>

(* _run_attach_workflow: the claim, the start and the ledger update.         *)
ClaimAttach(w) ==
  /\ worker[w].pc = "action" /\ CanClaim(K(w)) /\ Kind(K(w)) = "attach_workflow"
  /\ ledger' = [ledger EXCEPT ![K(w)] = "pending"]
  /\ Goto(w, [worker[w] EXCEPT !.pc = IF worker[w].event = NoEvent THEN "failing" ELSE "claimed"])
  /\ UNCHANGED <<inbox, rules, effects, audits, unmapped, instances, template, operator, crashes>>

(* start_for_event: a running instance is returned, otherwise one is made;   *)
(* a template without a published version is a known failure.                *)
FindInstance(w) ==
  /\ worker[w].pc = "claimed"
  /\ Goto(w, [worker[w] EXCEPT !.pc =
                IF ~template THEN "failing"
                ELSE IF instances[worker[w].event] > 0 THEN "started" ELSE "starting"])
  /\ UNCHANGED <<db, operator, crashes>>

StartInstance(w) ==
  /\ worker[w].pc = "starting"
  /\ instances' = [instances EXCEPT ![worker[w].event] = @ + 1]
  /\ Goto(w, [worker[w] EXCEPT !.pc = "started"])
  /\ UNCHANGED <<inbox, rules, ledger, effects, audits, unmapped, template, operator, crashes>>

FinishAttach(w) ==
  /\ worker[w].pc = "started"
  /\ ledger' = [ledger EXCEPT ![K(w)] = "succeeded"]
  /\ audits' = Audited(K(w))
  /\ Goto(w, After(w, worker[w].event))
  /\ UNCHANGED <<inbox, rules, effects, unmapped, instances, template, operator, crashes>>

WorkerStep(w) ==
  \/ Poll(w) \/ LoadRow(w) \/ RecordUnmapped(w) \/ NextRule(w) \/ MarkProcessed(w)
  \/ SkipClaimed(w) \/ CreateEvent(w) \/ ShowClientPopup(w) \/ EnqueueAction(w)
  \/ RaiseKnown(w) \/ RecordFailure(w) \/ RaiseOther(w)
  \/ ClaimAttach(w) \/ FindInstance(w) \/ StartInstance(w) \/ FinishAttach(w)

(* The node dies between two transactions; its successor starts afresh.      *)
Crash(w) ==
  /\ worker[w] # Idle /\ crashes < MaxCrashes
  /\ crashes' = crashes + 1
  /\ Goto(w, Idle)
  /\ UNCHANGED <<db, operator>>

-----------------------------------------------------------------------------
(* POST /events/{id}/workflow: start_for_event again, by an operator.        *)
OperatorFinds(o, k) ==
  /\ operator[o] = NoEvent /\ template /\ effects[k] > 0 /\ Kind(k) = "create_event"
  /\ instances[k] = 0
  /\ operator' = [operator EXCEPT ![o] = k]
  /\ UNCHANGED <<db, worker, crashes>>

OperatorStarts(o) ==
  /\ operator[o] # NoEvent
  /\ instances' = [instances EXCEPT ![operator[o]] = @ + 1]
  /\ operator' = [operator EXCEPT ![o] = NoEvent]
  /\ UNCHANGED <<inbox, rules, ledger, effects, audits, unmapped, template, worker, crashes>>

(* deprecate of the template's published version.                            *)
Deprecate ==
  /\ template
  /\ template' = FALSE
  /\ UNCHANGED <<inbox, rules, ledger, effects, audits, unmapped, instances, worker, operator, crashes>>

Next ==
  \/ \E s \in Signals : Ingest(s)
  \/ \E r \in RuleSet : Publish(r) \/ Retire(r)
  \/ \E w \in Workers : WorkerStep(w) \/ Crash(w)
  \/ \E o \in Operators : OperatorStarts(o) \/ \E k \in Keys : OperatorFinds(o, k)
  \/ Deprecate

(* The tick runs again and again on the node that holds the lease.           *)
Spec == Init /\ [][Next]_vars
FairSpec == Spec /\ \A w \in Workers : WF_vars(WorkerStep(w))

-----------------------------------------------------------------------------
Rows == DOMAIN inbox
AtRest == \A w \in Workers : worker[w] = Idle
Processed(i) == i \in Rows /\ inbox[i].processed

(* trigger_actions.py: "a replayed signal, or both HA nodes, run every       *)
(* action at most once": over all inbox rows and drains of one signal.       *)
AtMostOnce ==
  \A k \in Keys :
    /\ effects[k] <= 1
    /\ \A i \in Rows :
         k.row \in Rows /\ i # k.row /\ inbox[i].signal = inbox[k.row].signal =>
           effects[k] = 0 \/ effects[[k EXCEPT !.row = i]] = 0

(* A succeeded action has had its effect, any other none, and whatever is    *)
(* settled is audited exactly once.                                          *)
EntriesTellTruth ==
  \A k \in Keys :
    /\ Kind(k) # "attach_workflow" => (ledger[k] = "succeeded") = (effects[k] > 0)
    /\ Kind(k) = "attach_workflow" /\ ledger[k] = "succeeded" =>
         \E j \in 1 .. k.index - 1 : instances[[k EXCEPT !.index = j]] > 0
    /\ audits[k] = IF Unsettled(k) THEN 0 ELSE 1

(* A signal is marked processed only when every matching rule that has been  *)
(* in force all along has claimed each of its actions, or, where no rule     *)
(* matches, when it has been recorded as unmapped.                           *)
ProcessedIsAccounted ==
  \A i \in Rows :
    LET s == inbox[i].signal
    IN Processed(i) /\ s \notin Raw =>
         /\ \A r \in RuleSet :
              s \in Matches[r] /\ rules[r] = [version |-> 1, published |-> TRUE] =>
                \A j \in DOMAIN Script[r] : ledger[Key(i, r, 1, j)] # "none"
         /\ (\A r \in RuleSet : s \notin Matches[r]) => unmapped[s] > 0

(* The ledger tells the truth, about the actions and about the signals whose *)
(* processing it is meant to make repeatable.                                *)
LedgerTellsTruth == EntriesTellTruth /\ ProcessedIsAccounted

(* resume_unprocessed reaches every signal that no raising action holds up.  *)
Breaks(s) == \E r \in RuleSet : s \in Matches[r] /\ "broken" \in Range(Script[r])
EverySignalProcessed ==
  \A i \in 1 .. MaxRows :
    (i \in Rows /\ \A j \in 1 .. i : ~Breaks(inbox[j].signal)) ~> Processed(i)

(* trigger_engine.py: resuming after a crash is "safe, exactly-once": a      *)
(* processed signal has its workflow attached.                               *)
WorkflowAttached ==
  AtRest /\ template => \A k \in Keys :
    Kind(k) = "attach_workflow" /\ Processed(k.row) /\ ledger[k] # "none"
      => ledger[k] = "succeeded"

=============================================================================
