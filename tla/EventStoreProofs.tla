-------------------------- MODULE EventStoreProofs --------------------------
(***************************************************************************)
(* Proofs about EventStore, for any number of operators and texts. The     *)
(* argument: a client quotes a version it has seen, so the version its     *)
(* transaction loads later is no older, and the row's is no older still.   *)
(* When the guarded UPDATE matches, the three are equal, and a row whose   *)
(* version has not moved is the row that was loaded, owner included.       *)
(***************************************************************************)
EXTENDS EventStore, FiniteSetTheorems, TLAPS

(* What one mutator returns: a well-formed aggregate, an event that replays  *)
(* to it, and an owner that only the two ownership events touch.             *)
Good(a, cmd, o) ==
  /\ o.agg \in Aggregate
  /\ o.event \in DomainEvent
  /\ o.event.type # "EVENT_CREATED"
  /\ o.agg = Replay(a, o.event)
  /\ o.event.from \in {a.status, a.text, a.owner}
  /\ o.event.type \in StatusEvents => o.event.from = a.status
  /\ o.event.type \in OwnerEvents => o.event.to \in Users /\ o.agg.owner = o.event.to
  /\ o.event.type \notin OwnerEvents => o.agg.owner = a.owner
  /\ o.event.type = "EVENT_REACTIVATED" <=> cmd.verb = "reactivate"
  /\ o.event.type = "EVENT_TAKEN_OVER" <=> cmd.verb = "takeover"
  /\ a.status = "archived" =>
       o.agg.status = "opened" /\ o.agg.text = a.text /\ o.event.type \notin OwnerEvents
  /\ cmd.verb = "takeover" => a.owner \in Users

(* One step forward and one back.                                            *)
LEMMA OneBack == \A m \in Nat : (m + 1) - 1 = m
  OBVIOUS

(* Every outcome of every command of the aggregate is well formed.           *)
LEMMA Mutation ==
  ASSUME NEW a \in Aggregate, NEW cmd \in Commands, NEW u \in Users,
         NEW o \in Mutate(a, cmd, u)
  PROVE  Good(a, cmd, o)
<1> USE AggregateAssumption
<1> DEFINE Kinds == {"accept", "acknowledge", "open", "archive", "reactivate", "takeover"}
<1>0. /\ cmd.verb \in Kinds \cup {"update", "assign"}
      /\ cmd.verb = "update" => cmd.arg \in Texts
      /\ cmd.verb = "assign" => cmd.arg \in Users
  BY DEF Commands
<1> HIDE DEF Kinds
<1>1. CASE cmd.verb = "accept"
  <2>1. o \in Transition(a, "accepted", "EVENT_ACCEPTED")
    BY <1>1 DEF Mutate, Accept
  <2> QED BY <2>1, <1>1 DEF Good, Transition, CanTransition, AllowedTransitions, Emit, WithStatus,
        Aggregate, DomainEvent, Statuses, Values, StatusEvents, OwnerEvents, EventTypes, Replay
<1>2. CASE cmd.verb = "acknowledge"
  <2>1. o \in Transition(a, "acknowledged", "EVENT_ACKNOWLEDGED")
    BY <1>2 DEF Mutate, Acknowledge
  <2> QED BY <2>1, <1>2 DEF Good, Transition, CanTransition, AllowedTransitions, Emit, WithStatus,
        Aggregate, DomainEvent, Statuses, Values, StatusEvents, OwnerEvents, EventTypes, Replay
<1>3. CASE cmd.verb = "open"
  <2>1. o \in Transition(a, "opened", "EVENT_OPENED") /\ a.status = "acknowledged"
    BY <1>3 DEF Mutate, Open
  <2> QED BY <2>1, <1>3 DEF Good, Transition, CanTransition, AllowedTransitions, Emit, WithStatus,
        Aggregate, DomainEvent, Statuses, Values, StatusEvents, OwnerEvents, EventTypes, Replay
<1>4. CASE cmd.verb = "archive"
  <2>1. o \in Transition(a, "archived", "EVENT_ARCHIVED")
    BY <1>4 DEF Mutate, Archive
  <2> QED BY <2>1, <1>4 DEF Good, Transition, CanTransition, AllowedTransitions, Emit, WithStatus,
        Aggregate, DomainEvent, Statuses, Values, StatusEvents, OwnerEvents, EventTypes, Replay
<1>5. CASE cmd.verb = "reactivate"
  <2>1. o \in Transition(a, "opened", "EVENT_REACTIVATED") /\ a.status = "archived"
    BY <1>5 DEF Mutate, Reactivate
  <2> QED BY <2>1, <1>5 DEF Good, Transition, CanTransition, AllowedTransitions, Emit, WithStatus,
        Aggregate, DomainEvent, Statuses, Values, StatusEvents, OwnerEvents, EventTypes, Replay
<1>6. CASE cmd.verb = "update"
  <2>1. o \in Update(a, cmd.arg)
    BY <1>6 DEF Mutate
  <2> QED BY <2>1, <1>6, <1>0 DEF Good, Update, Emit, WithText,
        Aggregate, DomainEvent, Statuses, Values, StatusEvents, OwnerEvents, EventTypes, Replay
<1>7. CASE cmd.verb = "assign"
  <2>1. o \in Assign(a, cmd.arg)
    BY <1>7 DEF Mutate
  <2> QED BY <2>1, <1>7, <1>0 DEF Good, Assign, Emit, WithOwner,
        Aggregate, DomainEvent, Statuses, Values, StatusEvents, OwnerEvents, EventTypes, Replay
<1>8. CASE cmd.verb = "takeover"
  <2>1. o \in TakeOver(a, u)
    BY <1>8 DEF Mutate
  <2> QED BY <2>1, <1>8 DEF Good, TakeOver, Emit, WithOwner,
        Aggregate, DomainEvent, Statuses, Values, StatusEvents, OwnerEvents, EventTypes, Replay
<1> QED BY <1>0, <1>1, <1>2, <1>3, <1>4, <1>5, <1>6, <1>7, <1>8 DEF Kinds

-----------------------------------------------------------------------------
(* The row, its log and its auxiliary past move together.                    *)
Aligned ==
  /\ row = None => log = <<>> /\ past = <<>> /\ active = {}
  /\ row # None => /\ row.version = Len(log) /\ Len(log) = Len(past) /\ Len(log) >= 1
                   /\ past[Len(past)] = State
  /\ \A v, w \in active : v = w

(* What a transaction in flight knows: never a version from the future, and  *)
(* when its version is still current, the current values.                    *)
Fresh(u) ==
  /\ pc[u] # "idle" =>
       /\ row # None /\ req[u] \in Request
       /\ ExpectAhead = 0 => req[u].expected <= row.version
  /\ pc[u] \in {"row", "agg", "checked"} =>
       /\ seen[u] \in Loaded
       /\ ExpectAhead = 0 => req[u].expected <= seen[u].version
       /\ seen[u].version <= row.version
       /\ seen[u].version = row.version =>
            seen[u].status = row.status /\ seen[u].text = row.text
  /\ pc[u] \in {"agg", "checked"} /\ seen[u].version = row.version => seen[u].owner = Owner
  /\ pc[u] = "checked" /\ seen[u].version = row.version /\ req[u].cmd.verb = "reactivate" => ~cooling

IInv == TypeOK /\ Aligned /\ \A u \in Users : Fresh(u)

(* The owner is a user, or there is none.                                    *)
LEMMA OwnerType ==
  ASSUME active \in SUBSET Users
  PROVE  Owner \in Users \cup {None}
BY DEF Owner

(* A commit leaves a well-formed outcome ...                                 *)
LEMMA CommitIsGood ==
  ASSUME IInv, NEW u \in Users, Commit(u)
  PROVE  /\ row # None /\ row.version \in Nat /\ req[u].expected = row.version
         /\ Agg(u) \in Aggregate /\ req[u].cmd \in Commands
         /\ \A o \in Outcomes(u) : Good(Agg(u), req[u].cmd, o)
<1>1. row # None /\ req[u] \in Request /\ seen[u] \in Loaded /\ row.version = req[u].expected
  BY DEF IInv, Fresh, Commit, VersionMatches
<1>2. req[u].expected \in Nat /\ req[u].cmd \in Commands
  BY <1>1 DEF Request
<1>3. Agg(u) \in Aggregate
  BY <1>1 DEF Agg, Loaded, Aggregate
<1>4. ASSUME NEW o \in Outcomes(u) PROVE Good(Agg(u), req[u].cmd, o)
  BY <1>2, <1>3, Mutation DEF Outcomes
<1> QED BY <1>1, <1>2, <1>3, <1>4, Zenon

(* ... and, when clients quote versions they have seen, works on the current *)
(* value of the event.                                                       *)
LEMMA CommitIsFresh ==
  ASSUME ExpectAhead = 0, IInv, NEW u \in Users, Commit(u)
  PROVE  Agg(u) = State /\ seen[u].version = row.version
<1>1. /\ seen[u] \in Loaded /\ req[u] \in Request /\ req[u].expected <= seen[u].version
      /\ seen[u].version <= row.version /\ row.version = req[u].expected
  BY DEF IInv, Fresh, Commit, VersionMatches
<1>2. seen[u].version = row.version
  BY <1>1 DEF Loaded, Request
<1>3. seen[u].status = row.status /\ seen[u].text = row.text /\ seen[u].owner = Owner
  BY <1>2 DEF IInv, Fresh, Commit
<1> QED BY <1>2, <1>3, Zenon DEF Agg, State

(* The store starts in the invariant.                                        *)
LEMMA InitIInv == Init => IInv
<1> SUFFICES ASSUME Init PROVE IInv
  OBVIOUS
<1>1. TypeOK
  <2>1. history \in Seq(Pairs) /\ log \in Seq(DomainEvent) /\ audit \in Seq(Audits)
        /\ past \in Seq(Aggregate)
    BY DEF Init
  <2>2. /\ row \in Row \cup {None}
        /\ active \in SUBSET Users /\ notified \in SUBSET (Nat \X Users)
        /\ away \in SUBSET Users /\ cooling \in BOOLEAN
    BY Zenon DEF Init
  <2>3. tokens \in [Users -> SUBSET Nat]
        /\ pc \in [Users -> {"idle", "submitted", "row", "agg", "checked"}]
    BY DEF Init
  <2>4. req \in [Users -> Request \cup {None}] /\ seen \in [Users -> Loaded \cup {None}]
    BY DEF Init
  <2> QED BY <2>1, <2>2, <2>3, <2>4 DEF TypeOK
<1>2. Aligned
  BY DEF Init, Aligned
<1>3. \A u \in Users : Fresh(u)
  BY Zenon DEF Init, Fresh
<1> QED BY <1>1, <1>2, <1>3 DEF IInv

(* Every action but Create and Commit leaves the stored event alone.         *)
LEMMA AlignedKept ==
  ASSUME Aligned, UNCHANGED store
  PROVE  Aligned' /\ Owner' = Owner /\ row' = row
BY DEF Aligned, store, State, Owner

(* The steps of the world keep the invariant.                                *)
LEMMA WorldStep ==
  ASSUME IInv, NEW u \in Users, SetPresence(u) \/ CooldownOver \/ ReactivationIntent(u)
  PROVE  IInv'
<1>1. UNCHANGED <<store, handler>> /\ (cooling' = cooling \/ cooling' = FALSE)
  BY DEF SetPresence, CooldownOver, ReactivationIntent
<1>2. TypeOK'
  <2>1. away' \in SUBSET Users /\ cooling' \in BOOLEAN
    BY Zenon DEF IInv, TypeOK, SetPresence, CooldownOver, ReactivationIntent
  <2>2. tokens' \in [Users -> SUBSET Nat]
    <3>1. CASE ReactivationIntent(u)
      <4>1. row.version \in Nat
        BY <3>1 DEF ReactivationIntent, IInv, TypeOK, Row
      <4> QED BY <3>1, <4>1 DEF ReactivationIntent, IInv, TypeOK
    <3> QED BY <3>1 DEF IInv, TypeOK, SetPresence, CooldownOver
  <2> QED BY <1>1, <2>1, <2>2 DEF IInv, TypeOK, store, handler
<1>3. Aligned' /\ Owner' = Owner /\ row' = row
  BY <1>1, AlignedKept, Zenon DEF IInv
<1>4. ASSUME NEW w \in Users PROVE Fresh(w)'
  <2>1. Fresh(w) /\ pc' = pc /\ req' = req /\ seen' = seen
    BY <1>1 DEF IInv, handler
  <2> QED BY <1>1, <1>3, <2>1 DEF Fresh
<1> QED BY <1>2, <1>3, <1>4 DEF IInv

(* A step of one handler that leaves the store and the world alone keeps the *)
(* invariant if it keeps the types and what that handler knows.              *)
LEMMA HandlerKeeps ==
  ASSUME IInv, NEW u \in Users, UNCHANGED <<store, world>>,
         pc' \in [Users -> {"idle", "submitted", "row", "agg", "checked"}],
         req' \in [Users -> Request \cup {None}],
         seen' \in [Users -> Loaded \cup {None}],
         \A w \in Users \ {u} : pc'[w] = pc[w] /\ req'[w] = req[w] /\ seen'[w] = seen[w],
         Fresh(u)'
  PROVE  IInv'
<1>1. TypeOK'
  BY DEF IInv, TypeOK, store, world
<1>2. Aligned' /\ Owner' = Owner /\ row' = row /\ cooling' = cooling
  BY AlignedKept DEF IInv, world
<1>3. ASSUME NEW w \in Users PROVE Fresh(w)'
  <2>1. CASE w = u
    BY <2>1, Zenon
  <2>2. CASE w # u
    <3>1. Fresh(w) /\ pc'[w] = pc[w] /\ req'[w] = req[w] /\ seen'[w] = seen[w]
      BY <2>2 DEF IInv
    <3> QED BY <1>2, <3>1 DEF Fresh
  <2> QED BY <2>1, <2>2
<1> QED BY <1>1, <1>2, <1>3 DEF IInv

(* Submitting a command keeps the invariant.                                 *)
LEMMA SubmitStep ==
  ASSUME IInv, NEW u \in Users, NEW cmd \in Commands, NEW e \in Nat, Submit(u, cmd, e)
  PROVE  IInv'
<1>1. [cmd |-> cmd, expected |-> e] \in Request
  BY DEF Request
<1>2. /\ pc' = [pc EXCEPT ![u] = "submitted"] /\ seen' = seen
      /\ req' = [req EXCEPT ![u] = [cmd |-> cmd, expected |-> e]]
      /\ UNCHANGED <<store, world>> /\ row # None /\ e <= row.version + ExpectAhead
  BY Zenon DEF Submit
<1>3. /\ pc \in [Users -> {"idle", "submitted", "row", "agg", "checked"}]
      /\ req \in [Users -> Request \cup {None}] /\ seen \in [Users -> Loaded \cup {None}]
      /\ row.version \in Nat
  BY <1>2, Zenon DEF IInv, TypeOK, Row
<1>4. pc'[u] = "submitted" /\ req'[u] = [cmd |-> cmd, expected |-> e] /\ row' = row
  BY <1>2, <1>3, Zenon DEF store
<1>5. ExpectAhead = 0 => e <= row.version
  BY <1>2, <1>3
<1>6. Fresh(u)'
  <2>1. pc'[u] \notin {"row", "agg", "checked"}
    BY <1>4
  <2>2. row' # None /\ req'[u] \in Request /\ (ExpectAhead = 0 => req'[u].expected <= row'.version)
    BY <1>1, <1>2, <1>4, <1>5
  <2> QED BY <2>1, <2>2, Zenon DEF Fresh
<1>7. /\ pc' \in [Users -> {"idle", "submitted", "row", "agg", "checked"}]
      /\ req' \in [Users -> Request \cup {None}] /\ seen' \in [Users -> Loaded \cup {None}]
      /\ \A w \in Users \ {u} : pc'[w] = pc[w] /\ req'[w] = req[w] /\ seen'[w] = seen[w]
  BY <1>1, <1>2, <1>3, Zenon
<1> QED BY <1>2, <1>6, <1>7, HandlerKeeps

(* So does reading the row,                                                  *)
LEMMA LoadRowStep ==
  ASSUME IInv, NEW u \in Users, LoadRow(u)
  PROVE  IInv'
<1> DEFINE new == [status |-> row.status, text |-> row.text, owner |-> None,
                   version |-> row.version]
<1>1. /\ pc[u] = "submitted" /\ pc' = [pc EXCEPT ![u] = "row"] /\ req' = req
      /\ seen' = [seen EXCEPT ![u] = new] /\ UNCHANGED <<store, world>> /\ row' = row
  BY DEF LoadRow, store
<1>2. row # None /\ req[u] \in Request /\ (ExpectAhead = 0 => req[u].expected <= row.version)
  BY <1>1 DEF IInv, Fresh
<1>3. /\ pc \in [Users -> {"idle", "submitted", "row", "agg", "checked"}]
      /\ req \in [Users -> Request \cup {None}] /\ seen \in [Users -> Loaded \cup {None}]
      /\ row \in Row
  BY <1>2 DEF IInv, TypeOK
<1>4. new \in Loaded /\ row.version \in Nat
  BY <1>3 DEF Loaded, Row
<1>5. pc'[u] = "row" /\ seen'[u] = new
  BY <1>1, <1>3
<1>6. Fresh(u)'
  BY <1>1, <1>2, <1>3, <1>4, <1>5 DEF Fresh
<1>7. /\ pc' \in [Users -> {"idle", "submitted", "row", "agg", "checked"}]
      /\ req' \in [Users -> Request \cup {None}] /\ seen' \in [Users -> Loaded \cup {None}]
      /\ \A w \in Users \ {u} : pc'[w] = pc[w] /\ req'[w] = req[w] /\ seen'[w] = seen[w]
  BY <1>1, <1>3, <1>4
<1> QED BY <1>1, <1>6, <1>7, HandlerKeeps

(* reading the owner,                                                        *)
LEMMA LoadOwnerStep ==
  ASSUME IInv, NEW u \in Users, LoadOwner(u)
  PROVE  IInv'
<1> DEFINE new == [status |-> seen[u].status, text |-> seen[u].text, owner |-> Owner,
                   version |-> seen[u].version]
<1>1. /\ pc[u] = "row" /\ pc' = [pc EXCEPT ![u] = "agg"] /\ req' = req
      /\ UNCHANGED <<store, world>>
  BY DEF LoadOwner
<1>2. /\ pc \in [Users -> {"idle", "submitted", "row", "agg", "checked"}]
      /\ req \in [Users -> Request \cup {None}] /\ seen \in [Users -> Loaded \cup {None}]
      /\ active \in SUBSET Users
  BY DEF IInv, TypeOK
<1>3. seen' = [seen EXCEPT ![u] = new]
  BY <1>2 DEF LoadOwner
<1>4. row # None /\ seen[u] \in Loaded /\ Fresh(u)
  BY <1>1 DEF IInv, Fresh
<1>5. new \in Loaded
  BY <1>2, <1>4, OwnerType DEF Loaded
<1>6. pc'[u] = "agg" /\ seen'[u] = new
  BY <1>1, <1>2, <1>3
<1>7. Owner' = Owner /\ row' = row
  BY <1>1, AlignedKept, Zenon DEF IInv
<1>8. Fresh(u)'
  <2>1. /\ seen'[u] \in Loaded /\ seen'[u].owner = Owner' /\ seen'[u].version = seen[u].version
        /\ seen'[u].status = seen[u].status /\ seen'[u].text = seen[u].text
    BY <1>5, <1>6, <1>7
  <2>2. pc'[u] = "agg" /\ pc[u] = "row" /\ req'[u] = req[u] /\ row' = row
    BY <1>1, <1>6, <1>7
  <2> HIDE DEF new
  <2> QED BY <1>4, <2>1, <2>2 DEF Fresh
<1>9. /\ pc' \in [Users -> {"idle", "submitted", "row", "agg", "checked"}]
      /\ req' \in [Users -> Request \cup {None}] /\ seen' \in [Users -> Loaded \cup {None}]
      /\ \A w \in Users \ {u} : pc'[w] = pc[w] /\ req'[w] = req[w] /\ seen'[w] = seen[w]
  BY <1>1, <1>2, <1>3, <1>5
<1> QED BY <1>1, <1>8, <1>9, HandlerKeeps

(* the checks before the mutation,                                           *)
LEMMA CheckStep ==
  ASSUME IInv, NEW u \in Users, Check(u)
  PROVE  IInv'
<1>1. /\ pc[u] = "agg" /\ pc' = [pc EXCEPT ![u] = "checked"] /\ req' = req /\ seen' = seen
      /\ UNCHANGED <<store, world>> /\ (req[u].cmd.verb = "reactivate" => ~cooling)
  BY DEF Check, Precondition
<1>2. /\ pc \in [Users -> {"idle", "submitted", "row", "agg", "checked"}]
      /\ req \in [Users -> Request \cup {None}] /\ seen \in [Users -> Loaded \cup {None}]
  BY DEF IInv, TypeOK
<1>3. Owner' = Owner /\ row' = row /\ cooling' = cooling
  BY <1>1, AlignedKept DEF IInv, world
<1>4. Fresh(u) /\ pc'[u] = "checked"
  BY <1>1, <1>2, Zenon DEF IInv
<1>5. Fresh(u)'
  BY <1>1, <1>3, <1>4 DEF Fresh
<1>6. pc' \in [Users -> {"idle", "submitted", "row", "agg", "checked"}]
      /\ \A w \in Users \ {u} : pc'[w] = pc[w]
  BY <1>1, <1>2
<1> QED BY <1>1, <1>2, <1>5, <1>6, HandlerKeeps

(* (a request that ends is a request)                                        *)
LEMMA FinishTypes ==
  ASSUME TypeOK, NEW u \in Users, Finish(u)
  PROVE  /\ pc' \in [Users -> {"idle", "submitted", "row", "agg", "checked"}]
         /\ req' \in [Users -> Request \cup {None}] /\ seen' \in [Users -> Loaded \cup {None}]
         /\ \A w \in Users \ {u} : pc'[w] = pc[w] /\ req'[w] = req[w] /\ seen'[w] = seen[w]
         /\ pc'[u] = "idle"
BY Zenon DEF Finish, TypeOK

(* a rollback,                                                               *)
LEMMA RollbackStep ==
  ASSUME IInv, NEW u \in Users, Rollback(u)
  PROVE  IInv'
<1>1. Finish(u) /\ UNCHANGED <<store, world>> /\ TypeOK
  BY Zenon DEF Rollback, IInv
<1>2. Fresh(u)'
  BY <1>1, FinishTypes DEF Fresh
<1> QED BY <1>1, <1>2, FinishTypes, HandlerKeeps

(* One more entry at the end of a sequence.                                  *)
LEMMA Appended ==
  ASSUME NEW S, NEW q \in Seq(S), NEW x \in S, NEW r, r = Append(q, x)
  PROVE  /\ r \in Seq(S)
         /\ Len(r) = Len(q) + 1
         /\ r[Len(q) + 1] = x
         /\ \A i \in 1..Len(q) : r[i] = q[i]
OBVIOUS

(* the insert of a new event,                                                *)
LEMMA CreateStep ==
  ASSUME IInv, NEW t \in Texts, Create(t)
  PROVE  IInv'
<1> USE AggregateAssumption
<1> DEFINE r == [status |-> "new", text |-> t, version |-> 1]
<1>1. /\ row = None /\ row' = r /\ history' = <<<<None, "new">>>>
      /\ log' = <<Emit("EVENT_CREATED", None, t)>> /\ past' = <<Created(t)>>
      /\ active = {} /\ UNCHANGED <<active, audit, notified, world, handler>>
  BY DEF Create, IInv, Aligned
<1>2. r \in Row /\ r # None
  BY StoreAssumption DEF Statuses, Row
<1>3. <<None, "new">> \in Pairs /\ Emit("EVENT_CREATED", None, t) \in DomainEvent
      /\ Created(t) \in Aggregate
  BY DEF Pairs, Values, Statuses, Emit, DomainEvent, EventTypes, Created, Aggregate
<1>4. TypeOK'
  <2>1. history' \in Seq(Pairs) /\ log' \in Seq(DomainEvent) /\ past' \in Seq(Aggregate)
    BY <1>1, <1>3
  <2>2. row' \in Row \cup {None}
    BY <1>1, <1>2
  <2> QED BY <1>1, <2>1, <2>2 DEF IInv, TypeOK, world, handler
<1>5. Aligned'
  <2>1. Len(log') = 1 /\ Len(past') = 1 /\ past'[1] = Created(t)
    BY <1>1
  <2>2. State' = Created(t)
    BY <1>1 DEF State, Owner, Created
  <2> QED BY <1>1, <1>2, <2>1, <2>2 DEF Aligned
<1>6. ASSUME NEW w \in Users PROVE Fresh(w)'
  <2>1. pc'[w] = "idle"
    BY <1>1 DEF IInv, Fresh, TypeOK, handler
  <2> QED BY <2>1, Zenon DEF Fresh
<1> QED BY <1>4, <1>5, <1>6, Zenon DEF IInv

-----------------------------------------------------------------------------
(* What a commit writes, all of it derived from one outcome of the mutator.  *)
LEMMA CommitWrites ==
  ASSUME IInv, NEW u \in Users, Commit(u)
  PROVE  \E o \in Outcomes(u) :
           /\ Good(Agg(u), req[u].cmd, o)
           /\ row' = [status |-> o.agg.status, text |-> o.agg.text, version |-> row.version + 1]
           /\ row' \in Row
           /\ history' = HistoryWith(o.event)
           /\ active' = ReconcileAssignment(o.event) /\ active' \in SUBSET Users
           /\ \A v, w \in active' : v = w
           /\ log' = Append(log, o.event)
           /\ past' = Append(past, State') /\ State' \in Aggregate
           /\ audit' = AuditWith(u, o)
<1>1. PICK o \in Outcomes(u) :
        /\ row' = [status |-> o.agg.status, text |-> o.agg.text, version |-> req[u].expected + 1]
        /\ history' = HistoryWith(o.event)
        /\ active' = ReconcileAssignment(o.event)
        /\ log' = Append(log, o.event)
        /\ audit' = AuditWith(u, o)
        /\ past' = Append(past, [status |-> row'.status, text |-> row'.text,
                                 owner |-> IF active' = {} THEN None
                                           ELSE CHOOSE w \in active' : TRUE])
  BY Zenon DEF Commit
<1>2. Good(Agg(u), req[u].cmd, o) /\ req[u].expected = row.version /\ row.version \in Nat
  BY CommitIsGood
<1>3. active \in SUBSET Users /\ \A v, w \in active : v = w
  BY Zenon DEF IInv, TypeOK, Aligned
<1>4. active' \in SUBSET Users /\ \A v, w \in active' : v = w
  BY <1>1, <1>2, <1>3, Zenon DEF Good, ReconcileAssignment
<1>5. row' \in Row
  <2>1. o.agg.status \in Statuses /\ o.agg.text \in Texts
    BY <1>2, Zenon DEF Good, Aggregate
  <2>2. req[u].expected + 1 \in Nat
    BY <1>2
  <2> QED BY <1>1, <2>1, <2>2, Zenon DEF Row
<1>6. past' = Append(past, State')
  BY <1>1 DEF State, Owner
<1>7. Owner' \in Users \cup {None}
  BY <1>4 DEF Owner
<1>8. State' \in Aggregate
  BY <1>5, <1>7, Zenon DEF State, Row, Aggregate
<1> QED BY <1>1, <1>2, <1>4, <1>5, <1>6, <1>8, Zenon

(* (what a commit writes has its types)                                      *)
LEMMA CommitTypes ==
  ASSUME IInv, NEW u \in Users, Commit(u)
  PROVE  TypeOK'
<1> USE AggregateAssumption
<1>1. PICK o \in Outcomes(u) :
           /\ Good(Agg(u), req[u].cmd, o)
           /\ row' \in Row
           /\ history' = HistoryWith(o.event)
           /\ active' \in SUBSET Users
           /\ log' = Append(log, o.event)
           /\ past' = Append(past, State') /\ State' \in Aggregate
           /\ audit' = AuditWith(u, o)
  BY CommitWrites
<1>2. TypeOK /\ req[u].expected \in Nat /\ Agg(u) \in Aggregate
  BY CommitIsGood, Zenon DEF IInv
<1>3. o.agg \in Aggregate /\ o.event \in DomainEvent
  BY <1>1, Zenon DEF Good
<1>4. history' \in Seq(Pairs)
  <2>1. <<o.event.from, o.event.to>> \in Pairs
    BY <1>3 DEF DomainEvent, Pairs
  <2>2. history \in Seq(Pairs)
    BY <1>2, Zenon DEF TypeOK
  <2> QED BY <1>1, <2>1, <2>2, Appended DEF HistoryWith
<1>5. log' \in Seq(DomainEvent) /\ past' \in Seq(Aggregate)
  <2>1. log \in Seq(DomainEvent) /\ past \in Seq(Aggregate)
    BY <1>2, Zenon DEF TypeOK
  <2> QED BY <1>1, <1>3, <2>1, Appended
<1>6. audit' \in Seq(Audits)
  <2> DEFINE verb == req[u].cmd.verb
             x == [version |-> req[u].expected + 1, before |-> Snapshot(Agg(u), verb),
                   after |-> Snapshot(o.agg, verb)]
  <2>1. ASSUME NEW a \in Aggregate PROVE Snapshot(a, verb) \in Seq(Values)
    <3>1. a.status \in Values /\ a.owner \in Values
      BY DEF Aggregate, Values
    <3>2. <<a.owner>> \in Seq(Values) /\ <<a.status, a.owner>> \in Seq(Values)
      BY <3>1, SMTT(60)
    <3> QED BY <3>2 DEF Snapshot
  <2>2. x \in Audits
    BY <1>2, <1>3, <2>1 DEF Audits
  <2>3. audit \in Seq(Audits)
    BY <1>2, Zenon DEF TypeOK
  <2> QED BY <1>1, <2>2, <2>3, Appended, Zenon DEF AuditWith
<1>7. notified' \in SUBSET (Nat \X Users)
  <2>1. notified \in SUBSET (Nat \X Users) /\ req[u].expected + 1 \in Nat
    BY <1>2 DEF TypeOK
  <2>2. req[u].cmd.verb = "takeover" => seen[u].owner \in Users
    BY <1>1, Zenon DEF Good, Agg
  <2>3. notified' = NotifyLoser(u)
    BY Zenon DEF Commit
  <2> QED BY <2>1, <2>2, <2>3, SMTT(60) DEF NotifyLoser
<1>8. away' = away /\ tokens' = tokens /\ cooling' \in BOOLEAN /\ Finish(u)
  BY Zenon DEF Commit
<1>9. /\ pc' \in [Users -> {"idle", "submitted", "row", "agg", "checked"}]
      /\ req' \in [Users -> Request \cup {None}] /\ seen' \in [Users -> Loaded \cup {None}]
  BY <1>2, <1>8, FinishTypes
<1> QED BY <1>1, <1>2, <1>4, <1>5, <1>6, <1>7, <1>8, <1>9, Zenon DEF TypeOK

(* and a commit.                                                             *)
LEMMA CommitStep ==
  ASSUME IInv, NEW u \in Users, Commit(u)
  PROVE  IInv'
<1>1. PICK o \in Outcomes(u) :
           /\ Good(Agg(u), req[u].cmd, o)
           /\ row' = [status |-> o.agg.status, text |-> o.agg.text, version |-> row.version + 1]
           /\ row' \in Row
           /\ \A v, w \in active' : v = w
           /\ log' = Append(log, o.event)
           /\ past' = Append(past, State') /\ State' \in Aggregate
  BY CommitWrites
<1>2. TypeOK'
  BY CommitTypes, Zenon
<1>3. row # None /\ row.version \in Nat /\ row' # None /\ row'.version = row.version + 1
  BY <1>1, CommitIsGood, StoreAssumption, Zenon
<1>4. Aligned'
  <2>1. log \in Seq(DomainEvent) /\ past \in Seq(Aggregate) /\ o.event \in DomainEvent
    BY <1>1 DEF IInv, TypeOK, Good
  <2>2. row.version = Len(log) /\ Len(log) = Len(past)
    BY <1>3, ZenonT(60) DEF IInv, Aligned
  <2>3. Len(log') = Len(log) + 1
    BY <1>1, <2>1, Appended, SMTT(60)
  <2>4. Len(past') = Len(past) + 1 /\ past'[Len(past) + 1] = State'
    BY <1>1, <2>1, Appended
  <2> QED BY <1>1, <1>3, <2>1, <2>2, <2>3, <2>4, SMTT(60) DEF Aligned
<1>5. ASSUME NEW w \in Users PROVE Fresh(w)'
  <2>1. Finish(u) /\ TypeOK /\ Fresh(w)
    BY Zenon DEF Commit, IInv
  <2>2. CASE w = u
    BY <2>1, <2>2, FinishTypes, Zenon DEF Fresh
  <2>3. CASE w # u
    <3>1. Fresh(w) /\ pc'[w] = pc[w] /\ req'[w] = req[w] /\ seen'[w] = seen[w]
      BY <2>1, <2>3, FinishTypes, Zenon
    <3>2. pc'[w] # "idle" =>
            /\ row' # None /\ req'[w] \in Request
            /\ ExpectAhead = 0 => req'[w].expected <= row'.version
      <4> SUFFICES ASSUME pc[w] # "idle"
                   PROVE  /\ req[w] \in Request
                          /\ ExpectAhead = 0 => req[w].expected <= row.version + 1
        BY <1>3, <3>1, Zenon
      <4>1. req[w] \in Request /\ (ExpectAhead = 0 => req[w].expected <= row.version)
        BY <3>1 DEF Fresh
      <4>2. req[w].expected \in Nat
        BY <4>1, Zenon DEF Request
      <4> QED BY <1>3, <4>1, <4>2
    <3>3. pc'[w] \in {"row", "agg", "checked"} =>
            /\ seen'[w] \in Loaded
            /\ ExpectAhead = 0 => req'[w].expected <= seen'[w].version
            /\ seen'[w].version <= row'.version
            /\ seen'[w].version # row'.version
      <4> SUFFICES ASSUME pc[w] \in {"row", "agg", "checked"}
                   PROVE  /\ seen[w] \in Loaded
                          /\ ExpectAhead = 0 => req[w].expected <= seen[w].version
                          /\ seen[w].version <= row.version + 1
                          /\ seen[w].version # row.version + 1
        BY <1>3, <3>1, Zenon
      <4>1. /\ seen[w] \in Loaded /\ seen[w].version <= row.version
            /\ ExpectAhead = 0 => req[w].expected <= seen[w].version
        BY <3>1 DEF Fresh
      <4>2. seen[w].version \in Nat
        BY <4>1 DEF Loaded
      <4> QED BY <1>3, <4>1, <4>2
    <3> QED BY <3>2, <3>3 DEF Fresh
  <2> QED BY <2>2, <2>3, Zenon
<1> QED BY <1>2, <1>4, <1>5, Zenon DEF IInv

(* Every step keeps the invariant.                                           *)
LEMMA NextIInv == IInv /\ [Next]_vars => IInv'
<1> SUFFICES ASSUME IInv, [Next]_vars PROVE IInv'
  OBVIOUS
<1>1. ASSUME NEW t \in Texts, Create(t) PROVE IInv'
  BY <1>1, CreateStep
<1>2. ASSUME NEW u \in Users, SetPresence(u) \/ ReactivationIntent(u) PROVE IInv'
  BY <1>2, WorldStep
<1>3. ASSUME NEW u \in Users, Handle(u) PROVE IInv'
  BY <1>3, LoadRowStep, LoadOwnerStep, CheckStep, CommitStep, RollbackStep, Zenon DEF Handle
<1>4. ASSUME NEW u \in Users, NEW cmd \in Commands, NEW e \in 1..(MaxVersion + ExpectAhead),
             Submit(u, cmd, e)
      PROVE IInv'
  <2>1. e \in Nat
    BY StoreAssumption
  <2> QED BY <1>4, <2>1, SubmitStep
<1>5. CASE CooldownOver
  <2>1. CASE Users = {}
    <3>1. UNCHANGED <<store, away, tokens, handler>> /\ cooling' \in BOOLEAN
      BY <1>5, Zenon DEF CooldownOver
    <3>2. TypeOK'
      BY <3>1 DEF IInv, TypeOK, store, handler
    <3>3. Aligned'
      BY <3>1, AlignedKept DEF IInv
    <3> QED BY <2>1, <3>2, <3>3 DEF IInv
  <2>2. CASE Users # {}
    BY <1>5, <2>2, WorldStep
  <2> QED BY <2>1, <2>2
<1>6. CASE UNCHANGED vars
  <2>1. UNCHANGED <<store, world, handler>>
    BY <1>6, Zenon DEF vars
  <2>2. TypeOK'
    BY <2>1 DEF IInv, TypeOK, store, world, handler
  <2>3. Aligned' /\ Owner' = Owner /\ row' = row
    BY <2>1, AlignedKept, ZenonT(60) DEF IInv
  <2>4. ASSUME NEW w \in Users PROVE Fresh(w)'
    BY <2>1, <2>3 DEF IInv, Fresh, world, handler
  <2> QED BY <2>2, <2>3, <2>4 DEF IInv
<1> QED BY <1>1, <1>2, <1>3, <1>4, <1>5, <1>6, Zenon DEF Next

(* The state of the write path keeps its types, whatever version clients     *)
(* quote.                                                                    *)
THEOREM TypeCorrect == Spec => []TypeOK
<1>1. IInv => TypeOK
  BY DEF IInv
<1> QED BY InitIInv, NextIInv, <1>1, PTL DEF Spec

(* At most one assignment of the event is active, in any interleaving.       *)
THEOREM SingleOwner == Spec => []OneOwner
<1>1. IInv => OneOwner
  <2> SUFFICES ASSUME IInv PROVE Cardinality(active) <= 1
    BY DEF OneOwner
  <2>1. CASE active = {}
    <3>1. Cardinality({}) = 0
      BY FS_EmptySet
    <3> QED BY <2>1, <3>1
  <2>2. CASE active # {}
    <3>1. PICK v : v \in active
      BY <2>2
    <3>2. active = {v}
      BY <3>1 DEF IInv, Aligned
    <3>3. Cardinality({v}) = 1
      BY FS_Singleton, Zenon
    <3> QED BY <3>2, <3>3
  <2> QED BY <2>1, <2>2
<1> QED BY InitIInv, NextIInv, <1>1, PTL DEF Spec

-----------------------------------------------------------------------------
(***************************************************************************)
(* What EventStore promises when clients quote versions they have seen:    *)
(* the write path implements the atomic register, the domain log replays   *)
(* to the row, the records beside the event tell the truth about it, and   *)
(* an archived event is frozen. All rest on the inductive invariant IInv:  *)
(* the value a transaction commits on is the current one (FreshCommit).    *)
(***************************************************************************)

(* Only a creation and a commit touch what is stored.                        *)
LEMMA StoreMoves ==
  ASSUME [Next]_vars
  PROVE  \/ UNCHANGED store
         \/ \E t \in Texts : Create(t)
         \/ \E u \in Users : Commit(u)
BY Zenon DEF Next, Handle, LoadRow, LoadOwner, Check, Rollback, SetPresence, ReactivationIntent,
             CooldownOver, Submit, vars

(* A commit applies the command to the current event, and what it stores,    *)
(* the owner included, is what the mutator returned.                         *)
LEMMA FreshCommit ==
  ASSUME ExpectAhead = 0, IInv, NEW u \in Users, Commit(u)
  PROVE  /\ row # None /\ row' # None /\ State \in Aggregate
         /\ Agg(u) = State /\ req[u].cmd \in Commands /\ req[u].expected = row.version
         /\ \E o \in Outcomes(u) :
              /\ Good(State, req[u].cmd, o)
              /\ State' = o.agg /\ row'.status = o.agg.status /\ row'.text = o.agg.text
              /\ active' = ReconcileAssignment(o.event)
              /\ history' = HistoryWith(o.event)
              /\ log' = Append(log, o.event)
              /\ past' = Append(past, o.agg)
              /\ audit' = AuditWith(u, o)
<1>1. PICK o \in Outcomes(u) :
        /\ Good(Agg(u), req[u].cmd, o)
        /\ row' = [status |-> o.agg.status, text |-> o.agg.text, version |-> row.version + 1]
        /\ row' \in Row
        /\ history' = HistoryWith(o.event)
        /\ active' = ReconcileAssignment(o.event)
        /\ log' = Append(log, o.event)
        /\ past' = Append(past, State')
        /\ audit' = AuditWith(u, o)
  BY CommitWrites, Zenon
<1>2. /\ row # None /\ row' # None /\ Agg(u) = State /\ State \in Aggregate
      /\ req[u].cmd \in Commands /\ req[u].expected = row.version
  BY <1>1, CommitIsGood, CommitIsFresh, StoreAssumption, Zenon
<1>3. Owner' = o.agg.owner
  <2>1. CASE o.event.type \in OwnerEvents
    <3>1. active' = {o.event.to} /\ o.agg.owner = o.event.to
      BY <1>1, <2>1, Zenon DEF Good, ReconcileAssignment
    <3> QED BY <3>1, Zenon DEF Owner
  <2>2. CASE o.event.type \notin OwnerEvents
    <3>1. active' = active /\ o.agg.owner = State.owner
      BY <1>1, <1>2, <2>2, Zenon DEF Good, ReconcileAssignment
    <3> QED BY <3>1, Zenon DEF Owner, State
  <2> QED BY <2>1, <2>2
<1>4. o.agg \in Aggregate /\ Good(State, req[u].cmd, o)
  BY <1>1, <1>2, Zenon DEF Good
<1>5. row'.status = o.agg.status /\ row'.text = o.agg.text
  BY <1>1, Zenon
<1>6. State' = o.agg
  BY <1>3, <1>4, <1>5, Zenon DEF State, Aggregate
<1> QED BY <1>1, <1>2, <1>4, <1>5, <1>6, Zenon

(* The log and its auxiliary past grow by one entry, the old ones kept.      *)
LEMMA CommitGrows ==
  ASSUME IInv, row # None, NEW o, o.event \in DomainEvent, o.agg \in Aggregate,
         log' = Append(log, o.event), past' = Append(past, o.agg)
  PROVE  /\ Len(log) \in Nat /\ Len(log) >= 1 /\ Len(past) = Len(log) /\ row.version = Len(log)
         /\ Len(log') = Len(log) + 1 /\ Len(past') = Len(log) + 1
         /\ log'[Len(log) + 1] = o.event /\ past'[Len(log) + 1] = o.agg
         /\ past'[Len(log)] = State
         /\ \A i \in 1..Len(log) : log'[i] = log[i] /\ past'[i] = past[i]
<1>1. log \in Seq(DomainEvent) /\ past \in Seq(Aggregate)
  BY DEF IInv, TypeOK
<1>2. /\ Len(log) \in Nat /\ Len(log) >= 1 /\ Len(past) = Len(log) /\ row.version = Len(log)
      /\ past[Len(log)] = State
  BY <1>1 DEF IInv, Aligned
<1>3. /\ Len(log') = Len(log) + 1 /\ log'[Len(log) + 1] = o.event
      /\ \A i \in 1..Len(log) : log'[i] = log[i]
  BY <1>1, Appended
<1>4. /\ Len(past') = Len(log) + 1 /\ past'[Len(log) + 1] = o.agg
      /\ \A i \in 1..Len(log) : past'[i] = past[i]
  <2>1. /\ Len(past') = Len(past) + 1 /\ past'[Len(past) + 1] = o.agg
        /\ \A i \in 1..Len(past) : past'[i] = past[i]
    BY <1>1, Appended
  <2> QED BY <1>2, <2>1
<1>5. Len(log) \in 1..Len(log)
  BY <1>2
<1> QED BY <1>2, <1>3, <1>4, <1>5, Zenon

(* The instance Register has the same mutators.                              *)
LEMMA SameMutators ==
  ASSUME NEW a, NEW cmd, NEW u
  PROVE  Register!Mutate(a, cmd, u) = Mutate(a, cmd, u) /\ Register!Commands = Commands
BY Zenon DEF Commands, Register!Commands, Mutate, Accept, Acknowledge, Open, Archive, Reactivate, Update, Assign, TakeOver,
       Transition, CanTransition, AllowedTransitions, Emit, WithStatus, WithText, WithOwner,
       Register!Mutate, Register!Accept, Register!Acknowledge, Register!Open,
       Register!Archive, Register!Reactivate, Register!Update, Register!Assign,
       Register!TakeOver, Register!Transition, Register!CanTransition,
       Register!AllowedTransitions, Register!Emit, Register!WithStatus, Register!WithText,
       Register!WithOwner

(* The write path implements the atomic register of EventRegister: no update *)
(* of an event is lost and none rests on a value that is no longer current.  *)
THEOREM Refinement == ASSUME ExpectAhead = 0 PROVE Spec => ImplementsRegister
<1> DEFINE abs == IF row = None THEN None ELSE State
<1>1. Init => Register!Init
  BY DEF Init, Register!Init
<1>2. IInv /\ [Next]_vars => [Register!Next]_<<abs, log>>
  <2> SUFFICES ASSUME IInv, [Next]_vars PROVE [Register!Next]_<<abs, log>>
    OBVIOUS
  <2>1. CASE UNCHANGED store
    BY <2>1, Zenon DEF store, State, Owner
  <2>2. ASSUME NEW t \in Texts, Create(t) PROVE Register!Create
    <3>1. row = None /\ active = {} /\ active' = active
      BY <2>2, Zenon DEF Create, IInv, Aligned
    <3>2. row' = [status |-> "new", text |-> t, version |-> 1] /\ row' # None
      BY <2>2, StoreAssumption, SMTT(60) DEF Create, Row, Statuses
    <3>3. State' = Created(t)
      BY <3>1, <3>2 DEF State, Owner, Created
    <3> QED BY <2>2, <3>1, <3>2, <3>3, Zenon DEF Register!Create, Create, Register!Created,
              Register!Emit, Created, Emit
  <2>3. ASSUME NEW u \in Users, Commit(u) PROVE Register!Apply
    <3>1. PICK o \in Outcomes(u) : Good(State, req[u].cmd, o) /\ State' = o.agg /\ log' = Append(log, o.event)
      BY <2>3, FreshCommit, Zenon
    <3>2. row # None /\ row' # None /\ Agg(u) = State /\ State \in Aggregate /\ req[u].cmd \in Commands
      BY <2>3, FreshCommit, Zenon
    <3>3. abs # None /\ abs = State /\ abs' = o.agg
      BY <3>1, <3>2, NoneAssumption, Zenon
    <3>4. o \in Register!Mutate(abs, req[u].cmd, u) /\ req[u].cmd \in Register!Commands
      BY <3>2, <3>3, SameMutators DEF Outcomes
    <3>5. log' # log
      <4>1. log \in Seq(DomainEvent) /\ log' = Append(log, o.event)
        BY <3>1 DEF IInv, TypeOK
      <4> QED BY <4>1
    <3> QED BY <3>1, <3>3, <3>4, <3>5, Zenon DEF Register!Apply
  <2> QED BY <2>1, <2>2, <2>3, StoreMoves, Zenon DEF Register!Next
<1> QED BY InitIInv, NextIInv, <1>1, <1>2, PTL DEF Spec, ImplementsRegister, Register!Spec

(* The domain log, replayed entry by entry, is the stored event.             *)
THEOREM LogIsComplete == ASSUME ExpectAhead = 0 PROVE Spec => []LogExplainsRow
<1> DEFINE Chain == \A i \in 2..Len(log) :
             /\ past[i] = Replay(past[i - 1], log[i])
             /\ log[i].from \in {past[i - 1].status, past[i - 1].text, past[i - 1].owner}
           J == IInv /\ Chain
<1>1. Init => J
  <2>1. Init => Len(log) = 0
    BY DEF Init
  <2> QED BY <2>1, InitIInv
<1>2. J /\ [Next]_vars => J'
  <2> SUFFICES ASSUME J, [Next]_vars PROVE J'
    BY Zenon
  <2>1. IInv' /\ IInv /\ Chain
    BY NextIInv, Zenon
  <2>2. CASE UNCHANGED store
    BY <2>1, <2>2, Zenon DEF store
  <2>3. ASSUME NEW t \in Texts, Create(t) PROVE Chain'
    <3>1. log' = <<Emit("EVENT_CREATED", None, t)>>
      BY <2>3, ZenonT(60) DEF Create
    <3>2. Len(log') = 1
      BY <3>1, Zenon
    <3>3. \A n : n \notin 2..1
      OBVIOUS
    <3> QED BY <3>2, <3>3, ZenonT(60)
  <2>4. ASSUME NEW u \in Users, Commit(u) PROVE Chain'
    <3>1. PICK o \in Outcomes(u) :
            Good(State, req[u].cmd, o) /\ log' = Append(log, o.event) /\ past' = Append(past, o.agg)
      BY <2>1, <2>4, FreshCommit, Zenon
    <3>2. row # None /\ o.event \in DomainEvent /\ o.agg \in Aggregate
      BY <2>1, <2>4, <3>1, FreshCommit, Zenon DEF Good
    <3>3. /\ Len(log) \in Nat /\ Len(log) >= 1 /\ Len(log') = Len(log) + 1
          /\ log'[Len(log) + 1] = o.event /\ past'[Len(log) + 1] = o.agg
          /\ past'[Len(log)] = State
          /\ \A i \in 1..Len(log) : log'[i] = log[i] /\ past'[i] = past[i]
      BY <2>1, <3>1, <3>2, CommitGrows, Zenon
    <3>4. o.agg = Replay(State, o.event) /\ o.event.from \in {State.status, State.text, State.owner}
      BY <3>1, Zenon DEF Good
    <3> SUFFICES ASSUME NEW i \in 2..Len(log')
                 PROVE  /\ past'[i] = Replay(past'[i - 1], log'[i])
                        /\ log'[i].from \in {past'[i - 1].status, past'[i - 1].text, past'[i - 1].owner}
      BY ZenonT(60)
    <3>5. CASE i = Len(log) + 1
      BY <3>3, <3>4, <3>5
    <3>6. CASE i # Len(log) + 1
      <4>1. i \in 2..Len(log) /\ i - 1 \in 1..Len(log) /\ i \in 1..Len(log)
        BY <3>3, <3>6
      <4> QED BY <2>1, <3>3, <4>1, ZenonT(60)
    <3> QED BY <3>5, <3>6, Zenon
  <2> HIDE DEF Chain
  <2>5. Chain'
    BY <2>2, <2>3, <2>4, StoreMoves, Zenon
  <2> QED BY <2>1, <2>5, Zenon
<1>3. J => LogExplainsRow
  <2> SUFFICES ASSUME J PROVE LogExplainsRow
    BY Zenon
  <2>1. Len(past) = Len(log)
    BY DEF IInv, Aligned
  <2> QED BY <2>1, Zenon DEF IInv, Aligned, LogExplainsRow
<1> HIDE DEF J
<1> QED BY <1>1, <1>2, <1>3, PTL DEF Spec

(* Two reactivations of an event are a cooldown apart.                       *)
THEOREM CooldownHolds == ASSUME ExpectAhead = 0 PROVE Spec => ReactivationsSpaced
<1>1. IInv /\ [Next]_vars => [Spaced]_vars
  <2> SUFFICES ASSUME IInv, Next PROVE Spaced
    OBVIOUS
  <2>0. log \in Seq(DomainEvent) /\ Len(log) \in Nat
    BY DEF IInv, TypeOK
  <2>1. CASE UNCHANGED store
    <3>1. Len(log') = Len(log)
      BY <2>1 DEF store
    <3> QED BY <2>0, <3>1 DEF Spaced
  <2>2. ASSUME NEW t \in Texts, Create(t) PROVE Spaced
    <3>1. log' = <<Emit("EVENT_CREATED", None, t)>>
      BY <2>2 DEF Create
    <3>2. log'[Len(log')].type = "EVENT_CREATED"
      BY <3>1, Zenon DEF Emit
    <3> QED BY <3>2, Zenon DEF Spaced
  <2>3. ASSUME NEW u \in Users, Commit(u) PROVE Spaced
    <3>1. PICK o \in Outcomes(u) : Good(Agg(u), req[u].cmd, o) /\ log' = Append(log, o.event)
      BY <2>3, CommitWrites, Zenon
    <3>2. log'[Len(log')] = o.event
      <4>1. log' = Append(log, o.event) /\ o.event \in DomainEvent
        BY <3>1 DEF Good
      <4>2. Len(log') = Len(log) + 1 /\ log'[Len(log) + 1] = o.event
        BY <2>0, <4>1, Appended, SMTT(60)
      <4> QED BY <4>2, ZenonT(60)
    <3>3. o.event.type = "EVENT_REACTIVATED" => req[u].cmd.verb = "reactivate"
      BY <3>1 DEF Good
    <3>4. seen[u].version = row.version /\ pc[u] = "checked"
      <4>1. pc[u] = "checked"
        BY <2>3 DEF Commit
      <4> QED BY <2>3, <4>1, CommitIsFresh, ZenonT(60)
    <3> QED BY <3>2, <3>3, <3>4, Zenon DEF IInv, Fresh, Spaced
  <2> QED BY <2>1, <2>2, <2>3, StoreMoves, Zenon
<1> QED BY InitIInv, NextIInv, <1>1, PTL DEF Spec, ReactivationsSpaced

(* An archived event is frozen until it is reactivated, which the cooldown   *)
(* spaces: of what the event shows only the status can change, and only to   *)
(* opened.                                                                   *)
THEOREM ArchiveFrozen == ASSUME ExpectAhead = 0 PROVE Spec => ArchiveIsRespected
<1> DEFINE Frozen == row # None /\ row.status = "archived" /\ row' # row =>
                       row'.status = "opened" /\ row'.text = row.text /\ active' = active
<1>1. IInv /\ [Next]_vars => [Frozen]_vars
  <2> SUFFICES ASSUME IInv, Next PROVE Frozen
    OBVIOUS
  <2>1. CASE UNCHANGED store
    BY <2>1 DEF store
  <2>2. ASSUME NEW t \in Texts, Create(t) PROVE Frozen
    BY <2>2, Zenon DEF Create
  <2>3. ASSUME NEW u \in Users, Commit(u) PROVE Frozen
    <3>1. PICK o \in Outcomes(u) :
            /\ Good(State, req[u].cmd, o)
            /\ row'.status = o.agg.status /\ row'.text = o.agg.text
            /\ active' = ReconcileAssignment(o.event)
      BY <2>3, FreshCommit, Zenon
    <3>2. State.status = row.status /\ State.text = row.text
      BY DEF State
    <3> QED BY <3>1, <3>2, Zenon DEF Good, ReconcileAssignment
  <2> HIDE DEF Frozen
  <2> QED BY <2>1, <2>2, <2>3, StoreMoves, Zenon
<1>2. [Frozen]_vars /\ [Spaced]_vars => [Frozen /\ Spaced]_vars
  OBVIOUS
<1>3. Spec => [][Frozen]_vars
  BY InitIInv, NextIInv, <1>1, PTL DEF Spec
<1>4. Spec => [][Spaced]_vars
  BY CooldownHolds, Zenon DEF ReactivationsSpaced
<1> QED BY <1>2, <1>3, <1>4, PTL DEF ArchiveIsRespected

-----------------------------------------------------------------------------
(* The three claims of RecordsTellTruth; the history has an entry as soon as *)
(* the event exists, which makes its last entry one.                         *)
AuditTrue ==
  \A i \in 1..Len(audit) : \E verb \in AuditedVerbs :
    LET v == audit[i].version
    IN /\ v \in 2..Len(past)
       /\ audit[i].before = Snapshot(past[v - 1], verb)
       /\ audit[i].after = Snapshot(past[v], verb)
HistoryTrue ==
  /\ \A i \in 2..Len(history) : history[i][1] = history[i - 1][2]
  /\ row # None => Len(history) >= 1 /\ history[Len(history)][2] = row.status
NoticesTrue ==
  notified = {<<v, past[v - 1].owner>> :
                v \in {i \in 2..Len(log) : log[i].type = "EVENT_TAKEN_OVER"}}

(* A commit's audit row compares the entry it writes with the one before.    *)
LEMMA AuditKept ==
  ASSUME ExpectAhead = 0, IInv, AuditTrue, NEW u \in Users, Commit(u)
  PROVE  AuditTrue'
<1>1. PICK o \in Outcomes(u) :
        /\ Good(State, req[u].cmd, o)
        /\ log' = Append(log, o.event) /\ past' = Append(past, o.agg) /\ audit' = AuditWith(u, o)
  BY FreshCommit, Zenon
<1>2. row # None /\ o.event \in DomainEvent /\ o.agg \in Aggregate
  BY <1>1, FreshCommit, Zenon DEF Good
<1>3. /\ Len(log) \in Nat /\ Len(log) >= 1 /\ Len(past) = Len(log) /\ Len(past') = Len(log) + 1
      /\ past'[Len(log) + 1] = o.agg /\ past'[Len(log)] = State
      /\ \A i \in 1..Len(log) : past'[i] = past[i]
      /\ row.version = Len(log)
  BY <1>1, <1>2, CommitGrows, Zenon
<1> DEFINE verb == req[u].cmd.verb
           x == [version |-> Len(log) + 1, before |-> Snapshot(State, verb), after |-> Snapshot(o.agg, verb)]
           Tells(a, w, p, n) == /\ a.version \in 2..n
                                /\ a.before = Snapshot(p[a.version - 1], w)
                                /\ a.after = Snapshot(p[a.version], w)
<1>4. ASSUME NEW a, NEW w, Tells(a, w, past, Len(past)) PROVE Tells(a, w, past', Len(past'))
  <2>1. a.version \in 1..Len(log) /\ a.version - 1 \in 1..Len(log)
    BY <1>3, <1>4, SMTT(60)
  <2>2. a.version \in 2..Len(past')
    BY <1>3, <1>4
  <2>3. past'[a.version - 1] = past[a.version - 1] /\ past'[a.version] = past[a.version]
    BY <1>3, <2>1, ZenonT(60)
  <2> QED BY <1>4, <2>2, <2>3, ZenonT(60)
<1>5. Tells(x, verb, past', Len(past'))
  BY <1>3
<1>6. audit' = IF verb \in AuditedVerbs THEN Append(audit, x) ELSE audit
  <2>1. Agg(u) = State /\ req[u].expected = Len(log)
    BY <1>3, FreshCommit, Zenon
  <2> QED BY <1>1, <2>1, Zenon DEF AuditWith
<1>7. audit \in Seq(Audits) /\ Len(audit) \in Nat
  BY DEF IInv, TypeOK
<1>8. \A i \in 1..Len(audit) : \E w \in AuditedVerbs : Tells(audit[i], w, past, Len(past))
  BY Zenon DEF AuditTrue
<1> HIDE DEF Tells, x, verb
<1>9. \A i \in 1..Len(audit) : \E w \in AuditedVerbs : Tells(audit[i], w, past', Len(past'))
  BY <1>4, <1>8, Zenon
<1>10. \A i \in 1..Len(audit') : \E w \in AuditedVerbs : Tells(audit'[i], w, past', Len(past'))
  <2>1. CASE verb \notin AuditedVerbs
    BY <1>6, <1>9, <2>1
  <2>2. CASE verb \in AuditedVerbs
    <3>1. /\ Len(audit') = Len(audit) + 1 /\ audit'[Len(audit) + 1] = x
          /\ \A i \in 1..Len(audit) : audit'[i] = audit[i]
      BY <1>6, <1>7, <2>2, SMTT(60)
    <3>2. ASSUME NEW i \in 1..Len(audit') PROVE i \in 1..Len(audit) \/ i = Len(audit) + 1
      BY <1>7, <3>1
    <3> QED BY <1>5, <1>9, <2>2, <3>1, <3>2, Zenon
  <2> QED BY <2>1, <2>2, Zenon
<1> QED BY <1>10 DEF Tells, AuditTrue

(* The status history gets an entry exactly when the status changes, and it  *)
(* starts where the one before ends.                                         *)
LEMMA HistoryKept ==
  ASSUME ExpectAhead = 0, IInv, HistoryTrue, NEW u \in Users, Commit(u)
  PROVE  HistoryTrue'
<1>1. PICK o \in Outcomes(u) :
        /\ Good(State, req[u].cmd, o)
        /\ row'.status = o.agg.status /\ history' = HistoryWith(o.event)
  BY FreshCommit, Zenon
<1>2. row # None /\ row' # None /\ State.status = row.status
  BY FreshCommit, Zenon DEF State
<1>3. history \in Seq(Pairs) /\ Len(history) \in Nat /\ Len(history) >= 1
  BY <1>2 DEF IInv, TypeOK, HistoryTrue
<1>r. /\ o.agg = Replay(State, o.event) /\ o.event \in DomainEvent
      /\ o.event.type \in StatusEvents => o.event.from = State.status
  BY <1>1, ZenonT(60) DEF Good
<1>4. CASE o.event.type \notin StatusEvents
  <2>1. o.agg.status = row.status /\ history' = history
    <3>1. Replay(State, o.event).status = State.status
      BY <1>4, SMTT(60) DEF Replay, WithOwner, WithText
    <3>2. history' = history
      BY <1>1, <1>4, ZenonT(60) DEF HistoryWith
    <3> QED BY <1>2, <1>r, <3>1, <3>2, Zenon
  <2> QED BY <1>1, <1>2, <2>1, ZenonT(60) DEF HistoryTrue
<1>5. CASE o.event.type \in StatusEvents
  <2>1. o.agg.status = o.event.to /\ o.event.from = row.status /\ o.event \in DomainEvent
    <3>1. Replay(State, o.event).status = o.event.to
      BY <1>5, SMTT(60) DEF Replay, WithStatus
    <3> QED BY <1>2, <1>5, <1>r, <3>1, Zenon
  <2>2. <<o.event.from, o.event.to>> \in Pairs
    BY <2>1 DEF DomainEvent, Pairs
  <2>3. history' = Append(history, <<o.event.from, o.event.to>>)
    BY <1>1, <1>5, ZenonT(60) DEF HistoryWith
  <2>4. /\ Len(history') = Len(history) + 1
        /\ history'[Len(history) + 1] = <<o.event.from, o.event.to>>
        /\ \A i \in 1..Len(history) : history'[i] = history[i]
    BY <1>3, <2>2, <2>3, Appended
  <2>5. ASSUME NEW i \in 2..Len(history') PROVE history'[i][1] = history'[i - 1][2]
    <3>1. CASE i = Len(history) + 1
      <4>1. history'[i - 1] = history[Len(history)]
        BY <1>3, <2>4, <3>1
      <4> QED BY <1>2, <2>1, <2>4, <3>1, <4>1, SMTT(60) DEF HistoryTrue
    <3>2. CASE i # Len(history) + 1
      <4>1. i \in 2..Len(history) /\ i \in 1..Len(history) /\ i - 1 \in 1..Len(history)
        BY <1>3, <2>4, <3>2, SMTT(60)
      <4> QED BY <2>4, <4>1, Zenon DEF HistoryTrue
    <3> QED BY <3>1, <3>2, ZenonT(60)
  <2>6. history'[Len(history')][2] = row'.status
    <3>1. history'[Len(history')] = <<o.event.from, row'.status>>
      BY <1>1, <2>1, <2>4, Zenon
    <3> QED BY <3>1
  <2>7. Len(history') >= 1
    BY <1>3, <2>4
  <2> QED BY <2>5, <2>6, <2>7, ZenonT(60) DEF HistoryTrue
<1> QED BY <1>4, <1>5, Zenon

(* A takeover notifies the owner of the entry before its own.                *)
LEMMA NoticesKept ==
  ASSUME ExpectAhead = 0, IInv, NoticesTrue, NEW u \in Users, Commit(u)
  PROVE  NoticesTrue'
<1>1. PICK o \in Outcomes(u) :
        Good(State, req[u].cmd, o) /\ log' = Append(log, o.event) /\ past' = Append(past, o.agg)
  BY FreshCommit, Zenon
<1>2. row # None /\ o.event \in DomainEvent /\ o.agg \in Aggregate
  BY <1>1, FreshCommit, ZenonT(60) DEF Good
<1>3. /\ Len(log) \in Nat /\ Len(log) >= 1 /\ Len(log') = Len(log) + 1
      /\ log'[Len(log) + 1] = o.event /\ past'[Len(log)] = State /\ row.version = Len(log)
      /\ \A i \in 1..Len(log) : log'[i] = log[i] /\ past'[i] = past[i]
  BY <1>1, <1>2, CommitGrows
<1>4. req[u].expected = Len(log) /\ seen[u].owner = State.owner
  <2>1. Agg(u) = State /\ req[u].expected = row.version
    BY FreshCommit, ZenonT(60)
  <2>2. Agg(u).owner = seen[u].owner
    BY Zenon DEF Agg
  <2> QED BY <1>3, <2>1, <2>2, ZenonT(60)
<1>5. o.event.type = "EVENT_TAKEN_OVER" <=> req[u].cmd.verb = "takeover"
  BY <1>1, Zenon DEF Good
<1> DEFINE n == Len(log) + 1
           Taken == {i \in 2..Len(log) : log[i].type = "EVENT_TAKEN_OVER"}
           TakenP == {i \in 2..Len(log') : log'[i].type = "EVENT_TAKEN_OVER"}
<1>6. \A v \in Taken : past'[v - 1].owner = past[v - 1].owner
  <2>1. ASSUME NEW v \in 2..Len(log) PROVE v - 1 \in 1..Len(log)
    BY <1>3
  <2> QED BY <1>3, <2>1, ZenonT(60)
<1>7. past'[n - 1].owner = State.owner
  BY <1>3, OneBack, Zenon
<1>8. TakenP = Taken \cup (IF req[u].cmd.verb = "takeover" THEN {n} ELSE {})
  <2>1. 2..Len(log') = (2..Len(log)) \cup {n} /\ 2..Len(log) \subseteq 1..Len(log)
    BY <1>3
  <2>2. n \notin 2..Len(log)
    BY <1>3
  <2> QED BY <1>3, <1>5, <2>1, <2>2, SMTT(60)
<1>9. notified' = notified \cup (IF req[u].cmd.verb = "takeover" THEN {<<n, State.owner>>} ELSE {})
  <2>1. notified' = NotifyLoser(u)
    BY Zenon DEF Commit
  <2> QED BY <1>4, <2>1, Zenon DEF NotifyLoser
<1>10. notified = {<<v, past[v - 1].owner>> : v \in Taken}
  BY DEF NoticesTrue
<1> HIDE DEF Taken, TakenP, n
<1>11. notified' = {<<v, past'[v - 1].owner>> : v \in TakenP}
  BY <1>6, <1>7, <1>8, <1>9, <1>10, ZenonT(60)
<1> QED BY <1>11, Zenon DEF TakenP, NoticesTrue

(* Audit, status history and takeover notices tell the truth about the       *)
(* event, although what they show was read before the row was locked.        *)
THEOREM RecordsAreTrue == ASSUME ExpectAhead = 0 PROVE Spec => []RecordsTellTruth
<1> DEFINE J == IInv /\ AuditTrue /\ HistoryTrue /\ NoticesTrue
<1>1. Init => J
  <2> SUFFICES ASSUME Init PROVE AuditTrue /\ HistoryTrue /\ NoticesTrue
    BY InitIInv
  <2>1. Len(audit) = 0 /\ Len(history) = 0 /\ Len(log) = 0 /\ row = None /\ notified = {}
    BY DEF Init
  <2> QED BY <2>1 DEF AuditTrue, HistoryTrue, NoticesTrue
<1>2. J /\ [Next]_vars => J'
  <2> SUFFICES ASSUME J, [Next]_vars PROVE J'
    OBVIOUS
  <2>1. IInv'
    BY NextIInv, ZenonT(60)
  <2>2. CASE UNCHANGED store
    BY <2>1, <2>2 DEF store, AuditTrue, HistoryTrue, NoticesTrue
  <2>3. ASSUME NEW t \in Texts, Create(t) PROVE J'
    <3>1. /\ row = None /\ row' = [status |-> "new", text |-> t, version |-> 1]
          /\ history' = <<<<None, "new">>>> /\ log' = <<Emit("EVENT_CREATED", None, t)>>
          /\ audit' = audit /\ notified' = notified
      BY <2>3, Zenon DEF Create
    <3>2. log = <<>> /\ past = <<>>
      BY <3>1 DEF IInv, Aligned
    <3>3. Len(log) = 0 /\ Len(past) = 0 /\ Len(log') = 1 /\ Len(history') = 1
      BY <3>1, <3>2, ZenonT(60)
    <3>4. AuditTrue'
      <4>1. Len(audit) \in Nat
        BY DEF IInv, TypeOK
      <4>2. \A i \in 1..Len(audit) : FALSE
        BY <3>3, SMTT(60) DEF AuditTrue
      <4> QED BY <3>1, <4>2, SMTT(60) DEF AuditTrue
    <3>5. HistoryTrue'
      BY <3>1, <3>3, SMTT(60) DEF HistoryTrue
    <3>6. NoticesTrue'
      BY <3>1, <3>3 DEF NoticesTrue
    <3> QED BY <2>1, <3>4, <3>5, <3>6, Zenon
  <2>4. ASSUME NEW u \in Users, Commit(u) PROVE J'
    BY <2>1, <2>4, AuditKept, HistoryKept, NoticesKept, ZenonT(60)
  <2> HIDE DEF J
  <2> QED BY <2>2, <2>3, <2>4, StoreMoves, Zenon
<1>3. J => RecordsTellTruth
  BY DEF AuditTrue, HistoryTrue, NoticesTrue, RecordsTellTruth
<1> HIDE DEF J
<1> QED BY <1>1, <1>2, <1>3, PTL DEF Spec
=============================================================================
