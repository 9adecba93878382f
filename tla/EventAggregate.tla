--------------------------- MODULE EventAggregate ---------------------------
(***************************************************************************)
(* The pure event aggregate (server/bbz_core/domain/events/aggregate.py    *)
(* and state.py). A mutator maps an aggregate to the set of its outcomes:  *)
(* one record of the new aggregate and the domain event it emitted, or no  *)
(* outcome at all when the code raises. Title, description and priority    *)
(* are edited alike and are one field here, text.                          *)
(***************************************************************************)
EXTENDS Naturals

CONSTANTS
  Users,   \* operators: actors and assignees
  Texts,   \* values of the editable fields
  None     \* no owner, no previous value

ASSUME AggregateAssumption == None \notin Users \cup Texts

Statuses == {"new", "accepted", "acknowledged", "opened", "archived"}

AllowedTransitions ==
  [new |-> {"accepted"}, accepted |-> {"acknowledged"}, acknowledged |-> {"opened"},
   opened |-> {"archived"}, archived |-> {"opened"}]

Aggregate == [status : Statuses, text : Texts, owner : Users \cup {None}]
ASSUME NoneAssumption == None \notin Aggregate

Values == Statuses \cup Texts \cup Users \cup {None}
StatusEvents == {"EVENT_ACCEPTED", "EVENT_ACKNOWLEDGED", "EVENT_OPENED",
                 "EVENT_ARCHIVED", "EVENT_REACTIVATED"}
OwnerEvents == {"EVENT_ASSIGNED", "EVENT_TAKEN_OVER"}
EventTypes == StatusEvents \cup OwnerEvents \cup {"EVENT_CREATED", "EVENT_UPDATED"}
DomainEvent == [type : EventTypes, from : Values, to : Values]

Emit(type, from, to) == [type |-> type, from |-> from, to |-> to]
WithStatus(a, s) == [status |-> s, text |-> a.text, owner |-> a.owner]
WithText(a, t) == [status |-> a.status, text |-> t, owner |-> a.owner]
WithOwner(a, u) == [status |-> a.status, text |-> a.text, owner |-> u]

CanTransition(src, dst) == dst \in AllowedTransitions[src]

Transition(a, target, type) ==
  IF CanTransition(a.status, target)
  THEN {[agg |-> WithStatus(a, target), event |-> Emit(type, a.status, target)]}
  ELSE {}

Created(t) == [status |-> "new", text |-> t, owner |-> None]

UpdateAlways(a, t) ==                                                \* mutant
  IF t # a.text
  THEN {[agg |-> WithText(a, t), event |-> Emit("EVENT_UPDATED", a.text, t)]}
  ELSE {}

Update(a, t) ==
  IF a.status # "archived" /\ t # a.text
  THEN {[agg |-> WithText(a, t), event |-> Emit("EVENT_UPDATED", a.text, t)]}
  ELSE {}

Accept(a) == Transition(a, "accepted", "EVENT_ACCEPTED")
Acknowledge(a) == Transition(a, "acknowledged", "EVENT_ACKNOWLEDGED")
Open(a) == IF a.status = "acknowledged" THEN Transition(a, "opened", "EVENT_OPENED") ELSE {}
Archive(a) == Transition(a, "archived", "EVENT_ARCHIVED")
Reactivate(a) == IF a.status = "archived" THEN Transition(a, "opened", "EVENT_REACTIVATED") ELSE {}

Assign(a, u) ==
  IF a.status # "archived" /\ a.owner # u
  THEN {[agg |-> WithOwner(a, u), event |-> Emit("EVENT_ASSIGNED", a.owner, u)]}
  ELSE {}

TakeOver(a, u) ==
  IF a.status # "archived" /\ a.owner \notin {None, u}
  THEN {[agg |-> WithOwner(a, u), event |-> Emit("EVENT_TAKEN_OVER", a.owner, u)]}
  ELSE {}

(* A request of the API: the verb and the argument its body carries.         *)
Commands ==
  {[verb |-> v, arg |-> None] : v \in {"accept", "acknowledge", "open", "archive",
                                       "reactivate", "takeover"}}
    \cup [verb : {"update"}, arg : Texts] \cup [verb : {"assign"}, arg : Users]

Mutate(a, cmd, actor) ==
  {o \in Accept(a) : cmd.verb = "accept"}
    \cup {o \in Acknowledge(a) : cmd.verb = "acknowledge"}
    \cup {o \in Open(a) : cmd.verb = "open"}
    \cup {o \in Archive(a) : cmd.verb = "archive"}
    \cup {o \in Reactivate(a) : cmd.verb = "reactivate"}
    \cup {o \in Update(a, cmd.arg) : cmd.verb = "update"}
    \cup {o \in Assign(a, cmd.arg) : cmd.verb = "assign"}
    \cup {o \in TakeOver(a, actor) : cmd.verb = "takeover"}

(* What a reader of the domain log makes of one entry: the aggregate after   *)
(* event e, given the aggregate before it.                                   *)
Replay(a, e) ==
  IF e.type \in StatusEvents THEN WithStatus(a, e.to)
  ELSE IF e.type \in OwnerEvents THEN WithOwner(a, e.to)
  ELSE WithText(a, e.to)
=============================================================================
