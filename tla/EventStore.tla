----------------------------- MODULE EventStore -----------------------------
(***************************************************************************)
(* The event write path: the handlers of api/v1/events.py over             *)
(* infra/repositories/events.py, several of them at once on one event.     *)
(*                                                                         *)
(* A handler runs one READ COMMITTED transaction whose statements see the  *)
(* database at different instants: the events row, then the active         *)
(* assignment, then the precondition, then UPDATE ... WHERE version =      *)
(* expected. The UPDATE holds the row lock to the commit, so the write and *)
(* everything after it in the transaction are one step, Commit.            *)
(***************************************************************************)
EXTENDS EventAggregate, Sequences, FiniteSets

CONSTANTS
  Verbs,       \* the verbs clients use in this instance
  MaxVersion,  \* bound: no request is submitted once the row has this version
  ExpectBehind, \* how far behind the row a client's X-Expected-Version may be
  ExpectAhead  \* how far past the row it may be

Row == [status : Statuses, text : Texts, version : Nat]

ASSUME StoreAssumption ==
  /\ MaxVersion \in Nat \ {0} /\ ExpectBehind \in Nat /\ ExpectAhead \in Nat
  /\ None \notin Row

VARIABLES
  row,       \* the events row: status, text, version; None before it exists
  active,    \* users with an active event_assignments row of this event
  history,   \* event_status_history: <<from, to>> pairs
  log,       \* the domain log of this aggregate
  audit,     \* audit rows of the event: version written, before, after
  notified,  \* outbox notifications of a takeover: <<version, user>>
  away,      \* users whose effective presence is pause or offline
  cooling,   \* the last EVENT_REACTIVATED is younger than the cooldown
  tokens,    \* tokens[u]: versions u holds a reactivation token for
  pc,        \* where the request of user u is
  req,       \* the request of u: its command and expected version
  seen,      \* the aggregate u's transaction has loaded
  past       \* auxiliary: the aggregate after each entry of log

store == <<row, active, history, log, audit, notified, past>>
world == <<away, cooling, tokens>>
handler == <<pc, req, seen>>
vars == <<store, world, handler>>

Pairs == Values \X Values
Loaded == [status : Statuses, text : Texts, owner : Users \cup {None}, version : Nat]
Request == [cmd : Commands, expected : Nat]
Audits == [version : Nat, before : Seq(Values), after : Seq(Values)]

TypeOK ==
  /\ row \in Row \cup {None}
  /\ active \in SUBSET Users
  /\ history \in Seq(Pairs)
  /\ log \in Seq(DomainEvent)
  /\ audit \in Seq(Audits)
  /\ notified \in SUBSET (Nat \X Users)
  /\ away \in SUBSET Users
  /\ cooling \in BOOLEAN
  /\ tokens \in [Users -> SUBSET Nat]
  /\ pc \in [Users -> {"idle", "submitted", "row", "agg", "checked"}]
  /\ req \in [Users -> Request \cup {None}]
  /\ seen \in [Users -> Loaded \cup {None}]
  /\ past \in Seq(Aggregate)

Init ==
  /\ row = None /\ active = {} /\ history = <<>> /\ log = <<>>
  /\ audit = <<>> /\ notified = {} /\ past = <<>>
  /\ away = Users /\ cooling = FALSE /\ tokens = [u \in Users |-> {}]
  /\ pc = [u \in Users |-> "idle"]
  /\ req = [u \in Users |-> None]
  /\ seen = [u \in Users |-> None]

-----------------------------------------------------------------------------
(* The world around the handlers; presence is read by takeover alone.        *)

SetPresence(u) ==
  /\ "takeover" \in Verbs
  /\ away' = IF u \in away THEN away \ {u} ELSE away \cup {u}
  /\ UNCHANGED <<store, cooling, tokens, handler>>

CooldownOver ==
  /\ cooling
  /\ cooling' = FALSE
  /\ UNCHANGED <<store, away, tokens, handler>>

ReactivationIntent(u) ==
  /\ row # None /\ row.status = "archived"
  /\ row.version \notin tokens[u]
  /\ tokens' = [tokens EXCEPT ![u] = @ \cup {row.version}]
  /\ UNCHANGED <<store, away, cooling, handler>>

-----------------------------------------------------------------------------
(* create_event: EventAggregate.create and EventRepository.add, one          *)
(* transaction.                                                              *)
Create(t) ==
  /\ row = None
  /\ row' = [status |-> "new", text |-> t, version |-> 1]
  /\ history' = <<<<None, "new">>>>
  /\ log' = <<Emit("EVENT_CREATED", None, t)>>
  /\ past' = <<Created(t)>>
  /\ UNCHANGED <<active, audit, notified, world, handler>>

(* A request arrives. X-Expected-Version is a version the client has seen    *)
(* (ExpectAhead = 0), perhaps an old one; a reactivation needs a token      *)
(* minted for exactly that version.                                          *)
VerifyToken(u, cmd, expected) == cmd.verb = "reactivate" => expected \in tokens[u]

Submit(u, cmd, expected) ==
  /\ pc[u] = "idle" /\ row # None /\ row.version < MaxVersion
  /\ cmd.verb \in Verbs
  /\ expected <= row.version + ExpectAhead /\ expected + ExpectBehind >= row.version
  /\ VerifyToken(u, cmd, expected)
  /\ pc' = [pc EXCEPT ![u] = "submitted"]
  /\ req' = [req EXCEPT ![u] = [cmd |-> cmd, expected |-> expected]]
  /\ UNCHANGED <<store, world, seen>>

(* EventRepository.get: first the events row ...                             *)
LoadRow(u) ==
  /\ pc[u] = "submitted"
  /\ pc' = [pc EXCEPT ![u] = "row"]
  /\ seen' = [seen EXCEPT ![u] =
       [status |-> row.status, text |-> row.text, owner |-> None, version |-> row.version]]
  /\ UNCHANGED <<store, world, req>>

(* ... then the active assignment.                                           *)
Owner == IF active = {} THEN None ELSE CHOOSE u \in active : TRUE

LoadOwner(u) ==
  /\ pc[u] = "row"
  /\ pc' = [pc EXCEPT ![u] = "agg"]
  /\ seen' = [seen EXCEPT ![u] =
       [status |-> @.status, text |-> @.text, owner |-> Owner, version |-> @.version]]
  /\ UNCHANGED <<store, world, req>>

(* _reactivation_cooldown and _require_owner_away; the other verbs have no   *)
(* precondition. An owner without a presence row counts as offline.          *)
Precondition(u) ==
  /\ req[u].cmd.verb = "reactivate" => ~cooling
  /\ req[u].cmd.verb = "takeover" => seen[u].owner \in away

Check(u) ==
  /\ pc[u] = "agg" /\ Precondition(u)
  /\ pc' = [pc EXCEPT ![u] = "checked"]
  /\ UNCHANGED <<store, world, req, seen>>

Agg(u) == [status |-> seen[u].status, text |-> seen[u].text, owner |-> seen[u].owner]
Outcomes(u) == Mutate(Agg(u), req[u].cmd, u)

Finish(u) ==
  /\ pc' = [pc EXCEPT ![u] = "idle"]
  /\ req' = [req EXCEPT ![u] = None]
  /\ seen' = [seen EXCEPT ![u] = None]

(* The guarded UPDATE matches a row.                                         *)
VersionUnguarded(u) == TRUE                                          \* mutant
VersionMatches(u) == row.version = req[u].expected

(* save: one history row for an event whose from and to are statuses.        *)
HistoryWith(e) ==
  IF e.type \in StatusEvents THEN Append(history, <<e.from, e.to>>) ELSE history

(* _reconcile_assignment: retire the active row, insert the new one.         *)
ReconcileAssignment(e) == IF e.type \in OwnerEvents THEN {e.to} ELSE active

(* The audit row of assign, archive and reactivate shows status and owner,   *)
(* the one of takeover the owners alone; the other verbs write none.         *)
Snapshot(a, verb) == IF verb = "takeover" THEN <<a.owner>> ELSE <<a.status, a.owner>>

AuditedVerbs == {"assign", "archive", "reactivate", "takeover"}
AuditAfterTwice(u, o) ==                                             \* mutant
  IF req[u].cmd.verb \in AuditedVerbs
  THEN Append(audit, [version |-> req[u].expected + 1,
                      before |-> Snapshot(o.agg, req[u].cmd.verb),
                      after |-> Snapshot(o.agg, req[u].cmd.verb)])
  ELSE audit
AuditWith(u, o) ==
  IF req[u].cmd.verb \in AuditedVerbs
  THEN Append(audit, [version |-> req[u].expected + 1,
                      before |-> Snapshot(Agg(u), req[u].cmd.verb),
                      after |-> Snapshot(o.agg, req[u].cmd.verb)])
  ELSE audit

(* takeover_event notifies the previous owner under the key event:version.   *)
NotifyLoser(u) ==
  IF req[u].cmd.verb = "takeover"
  THEN notified \cup {<<req[u].expected + 1, seen[u].owner>>} ELSE notified

(* The mutator, EventRepository.save, the audit row, the notification and    *)
(* the commit.                                                               *)
Commit(u) ==
  /\ pc[u] = "checked" /\ VersionMatches(u)
  /\ \E o \in Outcomes(u) :
       /\ row' = [status |-> o.agg.status, text |-> o.agg.text,
                  version |-> req[u].expected + 1]
       /\ history' = HistoryWith(o.event)
       /\ active' = ReconcileAssignment(o.event)
       /\ log' = Append(log, o.event)
       /\ audit' = AuditWith(u, o)
       /\ past' = Append(past, [status |-> row'.status, text |-> row'.text,
                                owner |-> IF active' = {} THEN None
                                          ELSE CHOOSE w \in active' : TRUE])
  /\ notified' = NotifyLoser(u)
  /\ cooling' = (cooling \/ req[u].cmd.verb = "reactivate")
  /\ Finish(u)
  /\ UNCHANGED <<away, tokens>>

(* The transaction rolls back: a precondition or the mutator raised, the     *)
(* version was stale, or the node went away at any point before the commit.  *)
Rollback(u) ==
  /\ pc[u] # "idle"
  /\ Finish(u)
  /\ UNCHANGED <<store, world>>

Handle(u) == LoadRow(u) \/ LoadOwner(u) \/ Check(u) \/ Commit(u) \/ Rollback(u)

Next ==
  \/ \E t \in Texts : Create(t)
  \/ \E u \in Users : SetPresence(u) \/ ReactivationIntent(u) \/ Handle(u)
  \/ \E u \in Users, cmd \in Commands, e \in 1..(MaxVersion + ExpectAhead) : Submit(u, cmd, e)
  \/ CooldownOver

Spec == Init /\ [][Next]_vars

-----------------------------------------------------------------------------
State == [status |-> row.status, text |-> row.text, owner |-> Owner]

(* The domain log explains the row: every entry, replayed on the aggregate   *)
(* the entries before it leave, gives the next one, its "from" is the value  *)
(* it replaced, and the last one is the stored row and its active owner      *)
(* (repositories/events.py: a state change without its event is impossible). *)
LogExplainsRow ==
  /\ Len(past) = Len(log)
  /\ row # None => /\ Len(log) = row.version
                   /\ past[Len(past)] = State
  /\ \A i \in 2..Len(log) :
       /\ past[i] = Replay(past[i - 1], log[i])
       /\ log[i].from \in {past[i - 1].status, past[i - 1].text, past[i - 1].owner}

(* One active assignment at most (the partial unique index never trips).     *)
OneOwner == Cardinality(active) <= 1

(* What commits beside an event tells the truth about it, although some of   *)
(* it was read earlier in the transaction: an audit row shows the values the *)
(* change really replaced and left (its "before" and "after"),               *)
(* event_status_history is one chain that ends in the row's status, and      *)
(* whoever loses the event to a takeover is told, and nobody else.           *)
RecordsTellTruth ==
  /\ \A i \in 1..Len(audit) : \E verb \in AuditedVerbs :
       LET v == audit[i].version
       IN /\ v \in 2..Len(past)
          /\ audit[i].before = Snapshot(past[v - 1], verb)
          /\ audit[i].after = Snapshot(past[v], verb)
  /\ \A i \in 2..Len(history) : history[i][1] = history[i - 1][2]
  /\ row # None => history[Len(history)][2] = row.status
  /\ notified = {<<v, past[v - 1].owner>> :
                   v \in {i \in 2..Len(log) : log[i].type = "EVENT_TAKEN_OVER"}}

(* No reactivation commits inside the cooldown of the one before, although   *)
(* the cooldown is checked a step before the commit.                         *)
Spaced == Len(log') = Len(log) + 1 /\ log'[Len(log')].type = "EVENT_REACTIVATED" => ~cooling
ReactivationsSpaced == [][Spaced]_vars

(* An archived event is frozen until it is reactivated: nothing but its      *)
(* status can change then (MASTER_PROMPT 13.6); and reactivations are spaced.*)
ArchiveIsRespected ==
  [][/\ row # None /\ row.status = "archived" /\ row' # row =>
          row'.status = "opened" /\ row'.text = row.text /\ active' = active
     /\ Spaced]_vars

(* The write path implements the register: no update is lost and none is     *)
(* based on a value that is no longer current.                               *)
Register == INSTANCE EventRegister WITH state <- IF row = None THEN None ELSE State
ImplementsRegister == Register!Spec
=============================================================================
