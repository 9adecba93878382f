------------------------ MODULE CallLifecycleProofs -------------------------
(***************************************************************************)
(* What holds of the calls for any number of sessions, transactions and    *)
(* events, in any order: every stored event reaches the aggregate once; a  *)
(* call has no more rows than transactions may be open at a time; and when *)
(* they do not overlap, it has one row, an ended call stays ended and a    *)
(* hang-up leaves it documented or with an open obligation.                *)
(***************************************************************************)
EXTENDS CallLifecycle, FiniteSetTheorems, SequenceTheorems, TLAPS

(* A transaction writes a row that exists, or one it is about to create.     *)
RowsExist ==
  \A s \in Sessions :
    tx[s].op # "idle" => tx[s].row \in DOMAIN rows \/ (tx[s].op = "ingest" /\ tx[s].row = 0)

(* The dedupe key of an event that is being ingested is taken: it is in the  *)
(* inbox of nobody else yet, and no other transaction has inserted it.       *)
KeysHeld ==
  \A s \in Sessions : tx[s].op = "ingest" =>
    /\ tx[s].event \notin inbox
    /\ \A u \in Sessions : tx[u].op = "ingest" /\ tx[u].event = tx[s].event => u = s

(* The sessions that saw no row and will create one.                         *)
Creating == {s \in Sessions : tx[s].op = "ingest" /\ tx[s].row = 0}

(* Whoever will create a row was open when the first row was committed.      *)
RoomForRows ==
  /\ IsFiniteSet(Open) /\ Cardinality(Open) <= MaxOpen
  /\ Len(rows) + Cardinality(Creating) <= MaxOpen

CallInv == TypeOK /\ RowsExist /\ KeysHeld /\ RoomForRows /\ ProcessedOnce

(* With transactions that do not overlap, what one has read is still so when *)
(* it commits.                                                               *)
ReadsAreFresh ==
  /\ \A s, u \in Open : s = u
  /\ \A s \in Open :
       /\ tx[s].row = 0 => rows = <<>>
       /\ tx[s].row # 0 => tx[s].state = rows[tx[s].row].state
       /\ tx[s].op = "guard" => tx[s].done = (documented[tx[s].row] = "done")

-----------------------------------------------------------------------------
(* The states and events the actions name are states and events.             *)
LEMMA Vocabulary ==
  /\ "offered" \in States /\ Terminal \subseteq States /\ "DISCONNECTED" \in EventTypes
  /\ \A t \in EventTypes : Target[t] \in States
<1>1. "OFFERED" \in EventTypes /\ Target["OFFERED"] = "offered" /\ "DISCONNECTED" \in EventTypes
  BY DEF EventTypes, Target
<1>2. \A t \in EventTypes : Target[t] \in States
  BY Zenon DEF EventTypes, States, Range
<1> QED BY <1>1, <1>2, Zenon DEF States

(* A transaction adds at most one event of a kind to the log.                *)
LEMMA ShortLogs == <<>> \in Seq(Business) /\ \A b \in Business : <<b>> \in Seq(Business)
  OBVIOUS

(* apply_provider_event leaves the call in one of its states, and the write  *)
(* of a state leaves a row.                                                  *)
LEMMA StepTypes ==
  /\ \A st \in States, t \in EventTypes : Apply(st, t) \in States
  /\ \A r \in Rows, old, new \in States : Written(r, old, new) \in Rows
  /\ \A old, new \in States : BusinessEvent(old, new) \in Seq(Business)
<1>1. \A st \in States, t \in EventTypes : Apply(st, t) \in States
  BY Vocabulary, Zenon DEF Apply
<1>2. \A r \in Rows, old, new \in States : Written(r, old, new) \in Rows
  BY DEF Written, Rows
<1>3. "CALL_RINGING" \in Business /\ "CALL_ANSWERED" \in Business /\ "CALL_ENDED" \in Business
  BY DEF Business
<1>4. \A old, new \in States : BusinessEvent(old, new) \in Seq(Business)
  BY <1>3, ShortLogs, Zenon DEF BusinessEvent
<1> QED BY <1>1, <1>2, <1>4

(* What a request holds, by its kind.                                        *)
LEMMA RequestFields ==
  ASSUME NEW q \in Requests
  PROVE  /\ q.op \in {"idle", "ingest", "hangup", "guard", "document"}
         /\ q.op = "idle" <=> q = Idle
         /\ q.op = "ingest" => q.event \in EventTypes /\ q.row \in {0, 1} /\ q.state \in States
         /\ q.op \in {"hangup", "guard", "document"} => q.row \in 1 .. MaxRows
         /\ q.op \in {"guard", "document"} => q.state \in States
         /\ q.op = "guard" => q.done \in BOOLEAN
         /\ q.op = "document" => q.category \in BOOLEAN /\ q.doc \in Documentation
  BY DEF Requests, Idle

-----------------------------------------------------------------------------
InTransaction == {"ingest", "guard", "document"}
Creates(q) == q.op = "ingest" /\ q.row = 0

(* How the sets of open and of creating sessions follow a change of one      *)
(* session's request.                                                        *)
LEMMA OpenStep ==
  ASSUME tx \in [Sessions -> Requests], NEW s \in Sessions, NEW q,
         tx' = [tx EXCEPT ![s] = q]
  PROVE  /\ q.op \in InTransaction => Open' = Open \cup {s}
         /\ q.op \notin InTransaction => Open' = Open \ {s}
         /\ Creates(q) => Creating' = Creating \cup {s}
         /\ ~Creates(q) => Creating' = Creating \ {s}
  BY DEF Open, Creating, Creates, InTransaction

(* A creating session is open.                                               *)
LEMMA CreatingIsOpen == Creating \subseteq Open /\ (Creating \subseteq Open)'
  BY DEF Creating, Open

(* A session that leaves its transaction makes room: for the row it created, *)
(* if it created one.                                                        *)
LEMMA Leaving ==
  ASSUME tx \in [Sessions -> Requests], RoomForRows, NEW s \in Sessions, NEW q,
         tx' = [tx EXCEPT ![s] = q], q.op \notin InTransaction,
         Len(rows) \in Nat, MaxOpen \in Nat,
         Len(rows') = Len(rows) \/ (Len(rows') = Len(rows) + 1 /\ s \in Creating)
  PROVE  RoomForRows'
<1>1. Open' = Open \ {s} /\ Creating' = Creating \ {s}
  <2>1. ~Creates(q)
    BY DEF Creates, InTransaction
  <2> QED BY <2>1, OpenStep, Zenon
<1>2. IsFiniteSet(Open) /\ IsFiniteSet(Creating)
  BY CreatingIsOpen, FS_Subset DEF RoomForRows
<1>3. /\ Cardinality(Open) \in Nat /\ Cardinality(Creating) \in Nat
      /\ IsFiniteSet(Open') /\ Cardinality(Open') <= Cardinality(Open)
      /\ Cardinality(Creating') = IF s \in Creating THEN Cardinality(Creating) - 1
                                                    ELSE Cardinality(Creating)
  <2>1. /\ IsFiniteSet(Open \ {s})
        /\ Cardinality(Open \ {s}) = IF s \in Open THEN Cardinality(Open) - 1
                                                   ELSE Cardinality(Open)
        /\ Cardinality(Creating \ {s}) = IF s \in Creating THEN Cardinality(Creating) - 1
                                                           ELSE Cardinality(Creating)
    BY <1>2, FS_RemoveElement, Zenon
  <2>2. Cardinality(Open) \in Nat /\ Cardinality(Creating) \in Nat
    BY <1>2, FS_CardinalityType, Zenon
  <2> QED BY <1>1, <2>1, <2>2
<1>4. Cardinality(Open') \in Nat
  BY <1>3, FS_CardinalityType
<1> QED BY <1>3, <1>4 DEF RoomForRows

(* A session that opens a transaction does so within the bound, and sees no  *)
(* row only while there is none.                                             *)
LEMMA Opening ==
  ASSUME tx \in [Sessions -> Requests], RoomForRows, NEW s \in Sessions, NEW q,
         tx' = [tx EXCEPT ![s] = q], q.op \in InTransaction,
         tx[s].op \notin InTransaction, CanOpen(s), rows' = rows,
         Creates(q) => rows = <<>>, Len(rows) \in Nat, MaxOpen \in Nat
  PROVE  RoomForRows'
<1>1. s \notin Open /\ s \notin Creating
  BY DEF Open, InTransaction, Creating
<1>2. Open' = Open \cup {s} /\ Open \ {s} = Open
  BY <1>1, OpenStep, ZenonT(60), ZenonT(60)
<1>3. /\ IsFiniteSet(Open') /\ Cardinality(Open') = Cardinality(Open) + 1
      /\ Cardinality(Open) \in Nat
  <2>1. IsFiniteSet(Open)
    BY DEF RoomForRows
  <2>2. /\ IsFiniteSet(Open \cup {s})
        /\ Cardinality(Open \cup {s}) = IF s \in Open THEN Cardinality(Open)
                                                      ELSE Cardinality(Open) + 1
    BY <2>1, FS_AddElement, Zenon
  <2>3. Cardinality(Open) \in Nat
    BY <2>1, FS_CardinalityType, Zenon
  <2> QED BY <1>1, <1>2, <2>2, <2>3
<1>4. Cardinality(Open') <= MaxOpen
  <2>1. Cardinality(Open) < MaxOpen
    BY <1>2, Zenon DEF CanOpen
  <2> QED BY <1>3, <2>1
<1>5. CASE Creates(q)
  <2>1. rows' = <<>>
    BY <1>5
  <2>2. Cardinality(Creating') <= Cardinality(Open')
    BY <1>3, CreatingIsOpen, FS_Subset
  <2>3. Cardinality(Creating') \in Nat /\ Cardinality(Open') \in Nat
    <3>1. IsFiniteSet(Creating')
      BY <1>3, CreatingIsOpen, FS_Subset
    <3> QED BY <1>3, <3>1, FS_CardinalityType, Zenon
  <2> QED BY <1>3, <1>4, <2>1, <2>2, <2>3 DEF RoomForRows
<1>6. CASE ~Creates(q)
  <2>1. Creating' = Creating
    <3>1. Creating' = Creating \ {s}
      BY <1>6, OpenStep, Zenon
    <3> QED BY <1>1, <3>1
  <2> QED BY <1>3, <1>4, <2>1 DEF RoomForRows
<1> QED BY <1>5, <1>6

(* Rows are never deleted, so a request keeps the row it works on.           *)
LEMMA RowsKept ==
  ASSUME tx \in [Sessions -> Requests], RowsExist, NEW s \in Sessions, NEW q,
         tx' = [tx EXCEPT ![s] = q], DOMAIN rows \subseteq DOMAIN rows',
         q.op # "idle" => q.row \in DOMAIN rows' \/ Creates(q)
  PROVE  RowsExist'
<1> SUFFICES ASSUME NEW u \in Sessions, tx'[u].op # "idle"
             PROVE  tx'[u].row \in DOMAIN rows' \/ (tx'[u].op = "ingest" /\ tx'[u].row = 0)
  BY DEF RowsExist
<1>1. CASE u = s
  BY <1>1 DEF Creates
<1>2. CASE u # s
  <2>1. tx'[u] = tx[u]
    BY <1>2
  <2> QED BY <2>1 DEF RowsExist
<1> QED BY <1>1, <1>2

(* A session that stops ingesting gives up its key, or stores it; the others *)
(* hold other keys.                                                          *)
LEMMA KeysKept ==
  ASSUME tx \in [Sessions -> Requests], KeysHeld, NEW s \in Sessions, NEW q,
         tx' = [tx EXCEPT ![s] = q], q.op # "ingest",
         inbox' = inbox \/ (tx[s].op = "ingest" /\ inbox' = inbox \cup {tx[s].event})
  PROVE  KeysHeld'
<1>1. \A u \in Sessions : tx'[u].op = "ingest" => u # s /\ tx'[u] = tx[u]
  OBVIOUS
<1>2. ASSUME NEW u \in Sessions, tx'[u].op = "ingest" PROVE tx'[u].event \notin inbox'
  <2>1. u # s /\ tx[u].op = "ingest" /\ tx'[u].event = tx[u].event
    BY <1>1, <1>2, Zenon
  <2>2. tx[u].event \notin inbox /\ (tx[s].op = "ingest" => tx[u].event # tx[s].event)
    BY <2>1, Zenon DEF KeysHeld
  <2> QED BY <2>1, <2>2, Zenon
<1>3. ASSUME NEW u \in Sessions, tx'[u].op = "ingest",
             NEW w \in Sessions, tx'[w].op = "ingest", tx'[w].event = tx'[u].event
      PROVE  w = u
  <2>1. tx'[u] = tx[u] /\ tx'[w] = tx[w]
    BY <1>1, <1>3, Zenon
  <2> QED BY <1>3, <2>1, Zenon DEF KeysHeld
<1> QED BY <1>2, <1>3, Zenon DEF KeysHeld

-----------------------------------------------------------------------------
(* The provider reports an event.                                            *)
LEMMA ReportStep ==
  ASSUME CallInv, NEW t \in EventTypes, Report(t)
  PROVE  CallInv'
<1>1. TypeOK'
  BY Vocabulary, CallAssumption DEF CallInv, TypeOK, Report
<1>2. rows' = rows /\ tx' = tx /\ inbox' = inbox /\ dispatched' = dispatched
  BY DEF Report
<1>3. Open' = Open /\ Creating' = Creating
  BY <1>2 DEF Open, Creating
<1>4. RowsExist' /\ KeysHeld' /\ RoomForRows' /\ ProcessedOnce'
  BY <1>2, <1>3, Zenon DEF CallInv, RowsExist, KeysHeld, RoomForRows, ProcessedOnce
<1> QED BY <1>1, <1>4 DEF CallInv

(* A session reads, or gives up: only its request changes.                   *)
LEMMA RequestStep ==
  ASSUME CallInv, NEW s \in Sessions, NEW q \in Requests,
         tx' = [tx EXCEPT ![s] = q], TypeOK',
         UNCHANGED <<inbox, dispatched, rows>>,
         q.op # "idle" => q.row \in DOMAIN rows \/ Creates(q),
         q.op = "ingest" => IsNew(q.event),
         q.op \in InTransaction => tx[s].op \notin InTransaction /\ CanOpen(s),
         Creates(q) => rows = <<>>
  PROVE  CallInv'
<1>1. tx \in [Sessions -> Requests] /\ Len(rows) \in Nat /\ MaxOpen \in Nat
  BY CallAssumption DEF CallInv, TypeOK
<1>2. RowsExist'
  BY <1>1, RowsKept, ZenonT(60) DEF CallInv
<1>3. RoomForRows'
  <2>1. CASE q.op \in InTransaction
    BY <1>1, <2>1, Opening, ZenonT(60) DEF CallInv
  <2>2. CASE q.op \notin InTransaction
    BY <1>1, <2>2, Leaving, ZenonT(60) DEF CallInv
  <2> QED BY <2>1, <2>2
<1>4. KeysHeld'
  <2>1. CASE q.op # "ingest"
    BY <1>1, <2>1, KeysKept, ZenonT(60) DEF CallInv
  <2>2. CASE q.op = "ingest"
    <3>1. tx'[s] = q /\ \A u \in Sessions : u # s => tx'[u] = tx[u]
      BY <1>1
    <3>2. /\ q.event \notin inbox
          /\ \A u \in Sessions : tx[u].op = "ingest" => tx[u].event # q.event
      BY <2>2, Zenon DEF IsNew
    <3>3. KeysHeld /\ inbox' = inbox
      BY DEF CallInv
    <3>4. \A u \in Sessions : tx'[u].op = "ingest" => tx'[u].event \notin inbox'
      BY <3>1, <3>2, <3>3, Zenon DEF KeysHeld
    <3>5. \A u, w \in Sessions : tx'[u].op = "ingest" /\ tx'[w].op = "ingest"
                                /\ tx'[w].event = tx'[u].event => w = u
      BY <3>1, <3>2, <3>3, ZenonT(60), ZenonT(60) DEF KeysHeld
    <3> QED BY <3>4, <3>5, Zenon DEF KeysHeld
  <2> QED BY <2>1, <2>2
<1>5. ProcessedOnce'
  BY Zenon DEF CallInv, ProcessedOnce
<1> QED BY <1>2, <1>3, <1>4, <1>5 DEF CallInv

(* The steps that only change a session's request.                           *)
LEMMA ReadingSteps ==
  ASSUME CallInv, NEW s \in Sessions,
         \/ \E t \in EventTypes : BeginIngest(s, t)
         \/ \E r \in DOMAIN rows : InvokeHangup(s, r) \/ \E c \in BOOLEAN : BeginDocument(s, r, c)
         \/ BeginGuard(s) \/ Abort(s)
  PROVE  CallInv'
<1>0. /\ tx \in [Sessions -> Requests] /\ tx[s] \in Requests /\ rows \in Seq(Rows)
      /\ Len(rows) \in Nat /\ Len(rows) <= MaxRows /\ MaxRows \in Nat \ {0}
      /\ DOMAIN rows = 1 .. Len(rows) /\ DOMAIN rows \subseteq 1 .. MaxRows
      /\ documented \in [1 .. MaxRows -> Documentation]
  <2>1. /\ tx \in [Sessions -> Requests] /\ rows \in Seq(Rows) /\ Len(rows) <= MaxRows
        /\ documented \in [1 .. MaxRows -> Documentation]
    BY DEF CallInv, TypeOK
  <2>2. MaxRows \in Nat \ {0}
    BY CallAssumption DEF MaxRows
  <2>3. Len(rows) \in Nat /\ DOMAIN rows = 1 .. Len(rows) /\ tx[s] \in Requests
    BY <2>1
  <2> QED BY <2>1, <2>2, <2>3
<1>r. \A r \in DOMAIN rows : rows[r].state \in States
  <2>1. \A r \in DOMAIN rows : rows[r] \in Rows
    BY <1>0
  <2>2. \A x \in Rows : x.state \in States
    BY DEF Rows
  <2> QED BY <2>1, <2>2, Zenon
<1>i. tx[s] = Idle => tx[s].op \notin InTransaction
  BY DEF Idle, InTransaction
<1>t. ASSUME NEW q \in Requests, tx' = [tx EXCEPT ![s] = q],
             UNCHANGED <<inbox, dispatched, rows, documented, log>>,
             provider' \in States \cup {"none"}, emitted' \in Seq(EventTypes),
             Len(emitted') <= MaxEvents
      PROVE  TypeOK'
  BY <1>t DEF CallInv, TypeOK
<1>u. provider \in States \cup {"none"} /\ emitted \in Seq(EventTypes) /\ Len(emitted) <= MaxEvents
  BY DEF CallInv, TypeOK
<1>1. ASSUME NEW t \in EventTypes, BeginIngest(s, t) PROVE CallInv'
  <2> DEFINE q == [op |-> "ingest", event |-> t, row |-> Len(rows),
                   state |-> IF rows = <<>> THEN "offered" ELSE rows[1].state]
  <2>1. /\ tx' = [tx EXCEPT ![s] = q] /\ tx[s] = Idle /\ CanOpen(s) /\ t \in Arriving
        /\ UNCHANGED <<inbox, dispatched, rows, documented, log>>
        /\ provider' = provider /\ emitted' = emitted /\ Len(rows) <= 1
    BY <1>1 DEF BeginIngest
  <2>2. q.state \in States
    <3>1. CASE rows = <<>>
      BY <3>1, Vocabulary
    <3>2. CASE rows # <<>>
      BY <1>0, <1>r, <3>2
    <3> QED BY <3>1, <3>2
  <2>3. Len(rows) \in {0, 1} /\ (Len(rows) = 0 => rows = <<>>) /\ (Len(rows) = 1 => 1 \in DOMAIN rows)
    BY <1>0, <2>1
  <2>4. q \in Requests /\ q.op = "ingest" /\ q.event = t /\ q.row = Len(rows)
    BY <2>2, <2>3 DEF Requests
  <2>5. IsNew(t)
    BY <2>1, Zenon DEF Arriving, Waiting
  <2> HIDE DEF q
  <2>6. TypeOK'
    BY <1>t, <1>u, <2>1, <2>4, ZenonT(60)
  <2>7. q.row \in DOMAIN rows \/ Creates(q)
    BY <2>3, <2>4 DEF Creates
  <2>8. Creates(q) => rows = <<>>
    BY <2>3, <2>4 DEF Creates
  <2> QED BY <1>i, <2>1, <2>4, <2>5, <2>6, <2>7, <2>8, RequestStep, ZenonT(60)
<1>2. ASSUME NEW r \in DOMAIN rows, InvokeHangup(s, r) PROVE CallInv'
  <2> DEFINE q == [op |-> "hangup", row |-> r]
  <2>1. /\ tx' = [tx EXCEPT ![s] = q]
        /\ UNCHANGED <<inbox, dispatched, rows, documented, log>>
    BY <1>2 DEF InvokeHangup
  <2>2. /\ provider' \in States \cup {"none"} /\ emitted' \in Seq(EventTypes)
        /\ Len(emitted') <= MaxEvents
    <3>1. CASE UNCHANGED <<provider, emitted>>
      BY <1>u, <3>1
    <3>2. CASE /\ Len(emitted) < MaxEvents /\ provider' = "disconnected"
               /\ emitted' = Append(emitted, "DISCONNECTED")
      BY <1>u, <3>2, Vocabulary, CallAssumption, SMTT(60) DEF Terminal
    <3> QED BY <1>2, <3>1, <3>2 DEF InvokeHangup
  <2>3. q \in Requests /\ q.op = "hangup" /\ q.row = r
    BY <1>0 DEF Requests
  <2> HIDE DEF q
  <2>4. TypeOK'
    BY <1>t, <2>1, <2>2, <2>3, ZenonT(60)
  <2> QED BY <2>1, <2>3, <2>4, RequestStep, ZenonT(60) DEF InTransaction, Creates
<1>3. ASSUME BeginGuard(s) PROVE CallInv'
  <2> DEFINE q == [op |-> "guard", row |-> tx[s].row, state |-> rows[tx[s].row].state,
                   done |-> documented[tx[s].row] = "done"]
  <2>1. /\ tx' = [tx EXCEPT ![s] = q] /\ tx[s].op = "hangup" /\ CanOpen(s)
        /\ UNCHANGED <<inbox, dispatched, rows, documented, log>>
        /\ provider' = provider /\ emitted' = emitted
    BY <1>3 DEF BeginGuard
  <2>2. tx[s].row \in DOMAIN rows
    BY <2>1, SMTT(60) DEF CallInv, RowsExist
  <2>3. q \in Requests /\ q.op = "guard" /\ q.row = tx[s].row
    BY <1>0, <1>r, <2>2 DEF Requests
  <2> HIDE DEF q
  <2>4. TypeOK'
    BY <1>t, <1>u, <2>1, <2>3, ZenonT(60)
  <2> QED BY <2>1, <2>2, <2>3, <2>4, RequestStep, ZenonT(60) DEF InTransaction, Creates
<1>4. ASSUME NEW r \in DOMAIN rows, NEW c \in BOOLEAN, BeginDocument(s, r, c) PROVE CallInv'
  <2> DEFINE q == [op |-> "document", row |-> r, state |-> rows[r].state,
                   category |-> c, doc |-> documented[r]]
  <2>1. /\ tx' = [tx EXCEPT ![s] = q] /\ tx[s] = Idle /\ CanOpen(s)
        /\ UNCHANGED <<inbox, dispatched, rows, documented, log>>
        /\ provider' = provider /\ emitted' = emitted
    BY <1>4, ZenonT(60) DEF BeginDocument
  <2>3. q \in Requests /\ q.op = "document" /\ q.row = r
    BY <1>0, <1>r, ZenonT(60) DEF Requests
  <2> HIDE DEF q
  <2>4. TypeOK'
    BY <1>t, <1>u, <2>1, <2>3, ZenonT(60)
  <2> QED BY <1>i, <2>1, <2>3, <2>4, RequestStep, ZenonT(60) DEF InTransaction, Creates
<1>5. ASSUME Abort(s) PROVE CallInv'
  <2>1. /\ tx' = [tx EXCEPT ![s] = Idle]
        /\ UNCHANGED <<inbox, dispatched, rows, documented, log>>
        /\ provider' = provider /\ emitted' = emitted
    BY <1>5 DEF Abort
  <2>2. Idle \in Requests /\ Idle.op = "idle"
    BY DEF Requests, Idle
  <2>3. TypeOK'
    BY <1>t, <1>u, <2>1, <2>2, ZenonT(60)
  <2> QED BY <2>1, <2>2, <2>3, RequestStep, ZenonT(60) DEF InTransaction, Creates
<1> QED BY <1>1, <1>2, <1>3, <1>4, <1>5

(* An event is stored: with its key, its effect on the row and its signal.   *)
LEMMA IngestStep ==
  ASSUME CallInv, NEW s \in Sessions, CommitIngest(s)
  PROVE  CallInv'
<1> DEFINE r == tx[s].row
           old == tx[s].state
           e == tx[s].event
           new == Apply(old, e)
           at == IF r = 0 THEN Len(rows) + 1 ELSE r
           fresh == Written([state |-> "offered", ended |-> FALSE], old, new)
<1>0. /\ tx \in [Sessions -> Requests] /\ tx[s] \in Requests /\ rows \in Seq(Rows)
      /\ Len(rows) \in Nat /\ MaxOpen \in Nat /\ inbox \subseteq EventTypes
      /\ dispatched \in [EventTypes -> Nat] /\ log \in [1 .. MaxRows -> Seq(Business)]
  BY CallAssumption DEF CallInv, TypeOK
<1>1. /\ tx[s].op = "ingest" /\ tx' = [tx EXCEPT ![s] = Idle]
      /\ inbox' = inbox \cup {e} /\ dispatched' = [dispatched EXCEPT ![e] = @ + 1]
      /\ log' = [log EXCEPT ![at] = @ \o BusinessEvent(old, new)]
      /\ UNCHANGED <<provider, emitted, documented>>
      /\ rows' = IF r = 0 THEN Append(rows, fresh) ELSE [rows EXCEPT ![r] = Written(@, old, new)]
  BY ZenonT(60) DEF CommitIngest
<1>2. e \in EventTypes /\ r \in {0, 1} /\ old \in States /\ new \in States
  BY <1>0, <1>1, RequestFields, StepTypes, ZenonT(60)
<1>3. r # 0 => r \in DOMAIN rows
  BY <1>1, ZenonT(60) DEF CallInv, RowsExist
<1>4. fresh \in Rows
  <2>1. [state |-> "offered", ended |-> FALSE] \in Rows
    BY Vocabulary DEF Rows
  <2> QED BY <1>2, <2>1, StepTypes, Zenon
<1>5. BusinessEvent(old, new) \in Seq(Business)
  BY <1>2, StepTypes, Zenon
<1>6. Idle \in Requests /\ Idle.op = "idle"
  BY SMTT(60) DEF Requests, Idle
<1>7. r = 0 => s \in Creating
  BY <1>1 DEF Creating
<1> HIDE DEF fresh, new, old, e, r
<1>8. /\ rows' \in Seq(Rows) /\ DOMAIN rows \subseteq DOMAIN rows'
      /\ \/ Len(rows') = Len(rows)
         \/ Len(rows') = Len(rows) + 1 /\ s \in Creating
  <2>1. CASE r = 0
    BY <1>0, <1>1, <1>4, <1>7, <2>1, SMTT(60)
  <2>2. CASE r # 0
    <3>1. rows' = [rows EXCEPT ![r] = Written(rows[r], old, new)] /\ r \in 1 .. Len(rows)
      BY <1>0, <1>1, <1>3, <2>2, SMTT(60)
    <3>2. rows[r] \in Rows
      BY <1>0, <3>1
    <3>3. Written(rows[r], old, new) \in Rows
      BY <1>2, <3>2, StepTypes, Zenon
    <3> QED BY <1>0, <3>1, <3>3, SMTT(60)
  <2> QED BY <2>1, <2>2
<1>9. RoomForRows'
  BY <1>0, <1>1, <1>6, <1>8, Leaving, ZenonT(60) DEF CallInv, InTransaction
<1>10. RowsExist'
  BY <1>0, <1>1, <1>6, <1>8, RowsKept, ZenonT(60) DEF CallInv
<1>11. KeysHeld'
  BY <1>0, <1>1, <1>6, KeysKept, ZenonT(60) DEF CallInv, e
<1>12. ProcessedOnce'
  <2>1. e \notin inbox
    BY <1>1 DEF CallInv, KeysHeld, e
  <2>2. ProcessedOnce
    BY DEF CallInv
  <2>3. ASSUME NEW t \in EventTypes PROVE dispatched'[t] = IF t \in inbox' THEN 1 ELSE 0
    <3>1. dispatched'[t] = IF t = e THEN dispatched[t] + 1 ELSE dispatched[t]
      BY <1>0, <1>1, <1>2
    <3>2. dispatched[t] = IF t \in inbox THEN 1 ELSE 0
      BY <2>2 DEF ProcessedOnce
    <3> QED BY <1>1, <2>1, <3>1, <3>2
  <2> QED BY <2>3 DEF ProcessedOnce
<1>13. Len(rows') <= MaxRows
  <2>1. Len(rows') \in Nat /\ Cardinality(Creating') \in Nat
    <3>1. IsFiniteSet(Creating')
      BY <1>9, CreatingIsOpen, FS_Subset DEF RoomForRows
    <3> QED BY <1>8, <3>1, FS_CardinalityType
  <2> QED BY <1>0, <1>9, <2>1 DEF RoomForRows, MaxRows
<1>14. TypeOK'
  <2>1. log' \in [1 .. MaxRows -> Seq(Business)]
    <3>1. \A l \in Seq(Business) : l \o BusinessEvent(old, new) \in Seq(Business)
      BY <1>5, ConcatProperties
    <3> HIDE DEF at
    <3> QED BY <1>0, <1>1, <3>1, ZenonT(60)
  <2>2. dispatched' \in [EventTypes -> Nat] /\ inbox' \subseteq EventTypes
    BY <1>0, <1>1, <1>2
  <2>3. tx' \in [Sessions -> Requests]
    BY <1>0, <1>1, <1>6
  <2>4. /\ provider' \in States \cup {"none"} /\ emitted' \in Seq(EventTypes)
        /\ Len(emitted') <= MaxEvents /\ documented' \in [1 .. MaxRows -> Documentation]
    BY <1>1 DEF CallInv, TypeOK
  <2> QED BY <1>8, <1>13, <2>1, <2>2, <2>3, <2>4, SMTT(60) DEF TypeOK
<1> QED BY <1>9, <1>10, <1>11, <1>12, <1>14, SMTT(60) DEF CallInv

(* A session that writes a row, its log and its documentation, and commits.  *)
LEMMA WriteStep ==
  ASSUME CallInv, NEW s \in Sessions, tx' = [tx EXCEPT ![s] = Idle],
         NEW r \in DOMAIN rows, NEW x \in Rows, rows' = [rows EXCEPT ![r] = x],
         NEW l \in Seq(Business), log' = [log EXCEPT ![r] = l],
         documented' \in [1 .. MaxRows -> Documentation],
         UNCHANGED <<provider, emitted, inbox, dispatched>>
  PROVE  CallInv'
<1>0. /\ tx \in [Sessions -> Requests] /\ rows \in Seq(Rows) /\ Len(rows) <= MaxRows
      /\ Len(rows) \in Nat /\ MaxOpen \in Nat /\ log \in [1 .. MaxRows -> Seq(Business)]
  BY CallAssumption DEF CallInv, TypeOK
<1>1. Idle \in Requests /\ Idle.op = "idle"
  BY DEF Requests, Idle
<1>2. rows' \in Seq(Rows) /\ DOMAIN rows' = DOMAIN rows /\ Len(rows') = Len(rows)
  BY <1>0, SMTT(60)
<1>3. RoomForRows'
  BY <1>0, <1>1, <1>2, Leaving, ZenonT(60) DEF CallInv, InTransaction
<1>4. RowsExist'
  BY <1>0, <1>1, <1>2, RowsKept, ZenonT(60) DEF CallInv
<1>5. KeysHeld'
  BY <1>0, <1>1, KeysKept, ZenonT(60) DEF CallInv
<1>6. ProcessedOnce'
  BY DEF CallInv, ProcessedOnce
<1>7. TypeOK'
  <2>1. log' \in [1 .. MaxRows -> Seq(Business)] /\ tx' \in [Sessions -> Requests]
    BY <1>0, <1>1, ZenonT(60)
  <2>2. Len(rows') <= MaxRows
    BY <1>0, <1>2
  <2> QED BY <1>2, <2>1, <2>2, SMTT(60) DEF CallInv, TypeOK
<1> QED BY <1>3, <1>4, <1>5, <1>6, <1>7 DEF CallInv

(* What a guard or a documentation works on.                                 *)
LEMMA WritesWhat ==
  ASSUME CallInv, NEW s \in Sessions, tx[s].op \in {"guard", "document"}
  PROVE  /\ tx[s].row \in DOMAIN rows /\ tx[s].row \in 1 .. MaxRows
         /\ rows[tx[s].row] \in Rows /\ tx[s].state \in States
         /\ log[tx[s].row] \in Seq(Business)
         /\ documented \in [1 .. MaxRows -> Documentation]
         /\ tx[s].op = "document" => tx[s].category \in BOOLEAN
<1>1. /\ tx[s] \in Requests /\ rows \in Seq(Rows) /\ log \in [1 .. MaxRows -> Seq(Business)]
      /\ documented \in [1 .. MaxRows -> Documentation]
  BY DEF CallInv, TypeOK
<1>2. tx[s].row \in DOMAIN rows
  BY DEF CallInv, RowsExist
<1>3. /\ tx[s].row \in 1 .. MaxRows /\ tx[s].state \in States
      /\ tx[s].op = "document" => tx[s].category \in BOOLEAN
  BY <1>1, RequestFields
<1> QED BY <1>1, <1>2, <1>3

(* The hang-up guard closes the call or leaves it pending.                   *)
LEMMA GuardStep ==
  ASSUME CallInv, NEW s \in Sessions, CommitGuard(s)
  PROVE  CallInv'
<1> DEFINE r == tx[s].row
           old == tx[s].state
           close == Closes(tx[s].done)
           new == IF ~close THEN "ended_pending_documentation"
                  ELSE IF Finalizes(old) THEN "disconnected" ELSE old
           x == Written(rows[r], old, new)
           l == IF close /\ Finalizes(old) THEN Append(log[r], "CALL_ENDED") ELSE log[r]
<1>1. /\ tx[s].op = "guard" /\ tx' = [tx EXCEPT ![s] = Idle]
      /\ rows' = [rows EXCEPT ![r] = x] /\ log' = [log EXCEPT ![r] = l]
      /\ UNCHANGED <<provider, emitted, inbox, dispatched>> /\ documented' = documented
  BY DEF CommitGuard
<1>2. /\ r \in DOMAIN rows /\ rows[r] \in Rows /\ old \in States /\ log[r] \in Seq(Business)
      /\ documented \in [1 .. MaxRows -> Documentation]
  BY <1>1, WritesWhat
<1>3. new \in States
  BY <1>2, Vocabulary DEF Terminal
<1>4. x \in Rows
  BY <1>2, <1>3, StepTypes, Zenon
<1>5. l \in Seq(Business)
  BY <1>2 DEF Business
<1> HIDE DEF x, l, r
<1> QED BY <1>1, <1>2, <1>4, <1>5, WriteStep, ZenonT(60)

(* The documentation is saved; a category closes a call that waited for it.  *)
LEMMA DocumentStep ==
  ASSUME CallInv, NEW s \in Sessions, CommitDocument(s)
  PROVE  CallInv'
<1> DEFINE r == tx[s].row
           old == tx[s].state
           doc == IF tx[s].category THEN "done" ELSE "draft"
           closes == ClosesPending(tx[s].category, old)
           x == IF closes THEN Written(rows[r], old, "disconnected") ELSE rows[r]
           l1 == IF tx[s].category THEN <<"CALL_DOCUMENTED">> ELSE <<>>
           l2 == IF closes THEN <<"CALL_ENDED">> ELSE <<>>
           l == log[r] \o l1 \o l2
<1>1. /\ tx[s].op = "document" /\ tx' = [tx EXCEPT ![s] = Idle]
      /\ rows' = [rows EXCEPT ![r] = x] /\ log' = [log EXCEPT ![r] = l]
      /\ UNCHANGED <<provider, emitted, inbox, dispatched>>
      /\ documented' = [documented EXCEPT ![r] = IF doc = tx[s].doc THEN @ ELSE doc]
  BY DEF CommitDocument
<1>2. /\ r \in DOMAIN rows /\ r \in 1 .. MaxRows /\ rows[r] \in Rows /\ old \in States
      /\ log[r] \in Seq(Business) /\ documented \in [1 .. MaxRows -> Documentation]
  BY <1>1, WritesWhat
<1>3. x \in Rows
  <2>1. "disconnected" \in States
    BY Vocabulary DEF Terminal
  <2> QED BY <1>2, <2>1, StepTypes, Zenon
<1>4. l \in Seq(Business)
  <2>1. l1 \in Seq(Business) /\ l2 \in Seq(Business)
    <3>1. "CALL_DOCUMENTED" \in Business /\ "CALL_ENDED" \in Business
      BY SMTT(60) DEF Business
    <3> QED BY <3>1, ShortLogs, Zenon
  <2> HIDE DEF l1, l2
  <2> QED BY <1>2, <2>1, ConcatProperties
<1>5. documented' \in [1 .. MaxRows -> Documentation]
  BY <1>1, <1>2 DEF Documentation
<1> HIDE DEF x, l, r
<1> QED BY <1>1, <1>2, <1>3, <1>4, <1>5, WriteStep, ZenonT(60)

-----------------------------------------------------------------------------
LEMMA CallInitial == Init => CallInv
<1> SUFFICES ASSUME Init PROVE CallInv
  OBVIOUS
<1>1. Idle \in Requests /\ Idle.op = "idle" /\ \A s \in Sessions : tx[s] = Idle
  BY DEF Requests, Idle, Init
<1>2. TypeOK
  BY <1>1, CallAssumption DEF Init, TypeOK, MaxRows, Documentation
<1>3. Open = {} /\ Creating = {} /\ rows = <<>>
  BY <1>1 DEF Open, Creating, Init
<1>4. RoomForRows
  BY <1>3, FS_EmptySet, CallAssumption DEF RoomForRows
<1>5. RowsExist /\ KeysHeld
  BY <1>1 DEF RowsExist, KeysHeld
<1>6. ProcessedOnce
  BY DEF Init, ProcessedOnce
<1> QED BY <1>2, <1>4, <1>5, <1>6 DEF CallInv

LEMMA CallStep == CallInv /\ [Next]_vars => CallInv'
<1> SUFFICES ASSUME CallInv, [Next]_vars PROVE CallInv'
  OBVIOUS
<1>1. CASE UNCHANGED vars
  <2>1. /\ tx' = tx /\ rows' = rows /\ inbox' = inbox /\ dispatched' = dispatched
        /\ provider' = provider /\ emitted' = emitted /\ documented' = documented /\ log' = log
    BY <1>1 DEF vars
  <2> QED BY <2>1, Zenon DEF CallInv, TypeOK, RowsExist, KeysHeld, RoomForRows, Open, Creating,
             ProcessedOnce
<1>2. ASSUME NEW t \in EventTypes, Report(t) PROVE CallInv'
  BY <1>2, ReportStep
<1>3. ASSUME NEW s \in Sessions, CommitIngest(s) \/ CommitGuard(s) \/ CommitDocument(s)
      PROVE  CallInv'
  BY <1>3, IngestStep, GuardStep, DocumentStep
<1> QED BY <1>1, <1>2, <1>3, ReadingSteps, Zenon DEF Next

(* Every reachable state is well typed; in particular a call has at most as  *)
(* many rows as transactions of it may be open at a time.                    *)
THEOREM CallTypes == Spec => []TypeOK
<1>1. CallInv => TypeOK
  BY DEF CallInv
<1> QED BY <1>1, CallInitial, CallStep, PTL DEF Spec

(* An event that is in the inbox has reached the call aggregate exactly      *)
(* once, and one that is not there has not: however often, by however many   *)
(* sessions and in whatever order the events arrive, and whatever aborts.    *)
THEOREM EachEventOnce == Spec => []ProcessedOnce
<1>1. CallInv => ProcessedOnce
  BY DEF CallInv
<1> QED BY <1>1, CallInitial, CallStep, PTL DEF Spec

-----------------------------------------------------------------------------
(* Transactions that do not overlap: MaxOpen = 1.                            *)

(* A session that may open a transaction is then alone.                      *)
LEMMA OpensAlone ==
  ASSUME MaxOpen = 1, IsFiniteSet(Open), NEW s \in Sessions, CanOpen(s)
  PROVE  Open \ {s} = {}
<1>1. IsFiniteSet(Open \ {s})
  BY FS_RemoveElement, Zenon
<1>2. Cardinality(Open \ {s}) \in Nat /\ Cardinality(Open \ {s}) < 1
  BY <1>1, FS_CardinalityType, Zenon DEF CanOpen
<1>3. Cardinality(Open \ {s}) = 0
  BY <1>2
<1> QED BY <1>1, <1>3, FS_EmptySet, Zenon

(* What it reads is fresh.                                                   *)
LEMMA FreshOpening ==
  ASSUME MaxOpen = 1, CallInv, NEW s \in Sessions, NEW q, tx' = [tx EXCEPT ![s] = q],
         q.op \in InTransaction, CanOpen(s), rows' = rows, documented' = documented,
         q.row = 0 => rows = <<>>,
         q.row # 0 => q.state = rows[q.row].state,
         q.op = "guard" => q.done = (documented[q.row] = "done")
  PROVE  ReadsAreFresh'
<1>1. tx \in [Sessions -> Requests] /\ IsFiniteSet(Open)
  BY DEF CallInv, TypeOK, RoomForRows
<1>2. Open' = {s}
  <2>1. Open' = Open \cup {s}
    BY <1>1, OpenStep, Zenon
  <2>2. Open \ {s} = {}
    BY <1>1, OpensAlone, Zenon
  <2> QED BY <2>1, <2>2
<1>3. tx'[s] = q
  BY <1>1
<1> QED BY <1>2, <1>3, Zenon DEF ReadsAreFresh

(* What a transaction has read stays so while it is open, since nobody else  *)
(* writes.                                                                   *)
LEMMA FreshStep ==
  ASSUME MaxOpen = 1, CallInv, ReadsAreFresh, [Next]_vars
  PROVE  ReadsAreFresh'
<1>0. /\ tx \in [Sessions -> Requests] /\ rows \in Seq(Rows)
      /\ Idle.op = "idle" /\ Idle.op \notin InTransaction
  BY DEF CallInv, TypeOK, Idle, InTransaction
<1>1. ASSUME rows' = rows, documented' = documented,
             \A s \in Open' : s \in Open /\ tx'[s] = tx[s]
      PROVE  ReadsAreFresh'
  BY <1>1, ZenonT(60) DEF ReadsAreFresh
<1>2. ASSUME NEW s \in Sessions, NEW q, tx' = [tx EXCEPT ![s] = q], q.op \notin InTransaction
      PROVE  Open' = Open \ {s} /\ \A u \in Open' : u \in Open /\ tx'[u] = tx[u]
  <2>1. Open' = Open \ {s}
    BY <1>0, <1>2, OpenStep, Zenon
  <2> QED BY <1>0, <1>2, <2>1 DEF Open
<1>3. CASE UNCHANGED vars
  <2>1. tx' = tx /\ rows' = rows /\ documented' = documented
    BY <1>3 DEF vars
  <2> QED BY <1>1, <2>1 DEF Open
<1>4. ASSUME NEW t \in EventTypes, Report(t) PROVE ReadsAreFresh'
  <2>1. tx' = tx /\ rows' = rows /\ documented' = documented
    BY <1>4 DEF Report
  <2> QED BY <1>1, <2>1 DEF Open
<1>5. ASSUME NEW s \in Sessions, NEW t \in EventTypes, BeginIngest(s, t) PROVE ReadsAreFresh'
  <2> DEFINE q == [op |-> "ingest", event |-> t, row |-> Len(rows),
                   state |-> IF rows = <<>> THEN "offered" ELSE rows[1].state]
  <2>1. /\ tx' = [tx EXCEPT ![s] = q] /\ CanOpen(s) /\ Len(rows) <= 1
        /\ rows' = rows /\ documented' = documented
    BY <1>5 DEF BeginIngest
  <2>2. /\ q.op = "ingest" /\ q.row = Len(rows)
        /\ q.state = IF rows = <<>> THEN "offered" ELSE rows[1].state
    OBVIOUS
  <2>3. Len(rows) = 0 \/ Len(rows) = 1
    BY <1>0, <2>1, SMTT(60)
  <2>4. (q.row = 0 => rows = <<>>) /\ (q.row # 0 => q.state = rows[q.row].state)
    BY <1>0, <2>2, <2>3
  <2> HIDE DEF q
  <2>5. q.op \in InTransaction /\ q.op # "guard"
    BY <2>2 DEF InTransaction
  <2> QED BY <2>1, <2>4, <2>5, FreshOpening, Zenon
<1>6. ASSUME NEW s \in Sessions, NEW r \in DOMAIN rows, InvokeHangup(s, r) PROVE ReadsAreFresh'
  <2> DEFINE q == [op |-> "hangup", row |-> r]
  <2>1. tx' = [tx EXCEPT ![s] = q] /\ rows' = rows /\ documented' = documented
    BY <1>6 DEF InvokeHangup
  <2>2. q.op \notin InTransaction
    BY DEF InTransaction
  <2> HIDE DEF q
  <2> QED BY <1>1, <1>2, <2>1, <2>2, Zenon
<1>7. ASSUME NEW s \in Sessions, BeginGuard(s) PROVE ReadsAreFresh'
  <2> DEFINE q == [op |-> "guard", row |-> tx[s].row, state |-> rows[tx[s].row].state,
                   done |-> documented[tx[s].row] = "done"]
  <2>1. /\ tx' = [tx EXCEPT ![s] = q] /\ tx[s].op = "hangup" /\ CanOpen(s)
        /\ rows' = rows /\ documented' = documented
    BY <1>7 DEF BeginGuard
  <2>2. tx[s].row # 0
    BY <1>0, <2>1, RequestFields, SMTT(60)
  <2>3. /\ q.op \in InTransaction /\ q.row # 0 /\ q.state = rows[q.row].state
        /\ q.done = (documented[q.row] = "done")
    BY <2>2 DEF InTransaction
  <2> HIDE DEF q
  <2> QED BY <2>1, <2>3, FreshOpening, Zenon
<1>8. ASSUME NEW s \in Sessions, NEW r \in DOMAIN rows, NEW c \in BOOLEAN, BeginDocument(s, r, c)
      PROVE  ReadsAreFresh'
  <2> DEFINE q == [op |-> "document", row |-> r, state |-> rows[r].state,
                   category |-> c, doc |-> documented[r]]
  <2>1. /\ tx' = [tx EXCEPT ![s] = q] /\ CanOpen(s)
        /\ rows' = rows /\ documented' = documented
    BY <1>8 DEF BeginDocument
  <2>2. r # 0
    BY <1>0
  <2>3. q.op \in InTransaction /\ q.op # "guard" /\ q.row # 0 /\ q.state = rows[q.row].state
    BY <2>2 DEF InTransaction
  <2> HIDE DEF q
  <2> QED BY <2>1, <2>3, FreshOpening, ZenonT(60)
<1>9. ASSUME NEW s \in Sessions, CommitIngest(s) \/ CommitGuard(s) \/ CommitDocument(s)
      PROVE  ReadsAreFresh'
  <2>1. tx' = [tx EXCEPT ![s] = Idle] /\ s \in Open
    BY <1>9, ZenonT(60) DEF CommitIngest, CommitGuard, CommitDocument, Open
  <2>2. Open' = Open \ {s}
    BY <1>0, <1>2, <2>1, Zenon
  <2>3. Open' = {}
    BY <2>1, <2>2, Zenon DEF ReadsAreFresh
  <2> QED BY <2>3, ZenonT(60) DEF ReadsAreFresh
<1>10. ASSUME NEW s \in Sessions, Abort(s) PROVE ReadsAreFresh'
  <2>1. tx' = [tx EXCEPT ![s] = Idle] /\ rows' = rows /\ documented' = documented
    BY <1>10 DEF Abort
  <2> QED BY <1>0, <1>1, <1>2, <2>1, Zenon
<1> QED BY <1>3, <1>4, <1>5, <1>6, <1>7, <1>8, <1>9, <1>10, ZenonT(60) DEF Next

(* The write of a terminal state, or of nothing over a terminal state, leaves*)
(* a terminal state.                                                         *)
LEMMA TerminalWritten ==
  ASSUME NEW x \in Rows, NEW new \in States, x.state \in Terminal => new \in Terminal
  PROVE  x.state \in Terminal => Written(x, x.state, new).state \in Terminal
  BY DEF Written

(* A commit of a fresh read keeps a terminal call terminal.                  *)
LEMMA TerminalStep ==
  ASSUME CallInv, ReadsAreFresh, [Next]_vars
  PROVE  StaysTerminal
<1>0. /\ tx \in [Sessions -> Requests] /\ rows \in Seq(Rows)
      /\ \A k \in DOMAIN rows : rows[k] \in Rows
  BY DEF CallInv, TypeOK
<1> SUFFICES ASSUME NEW k \in DOMAIN rows, rows[k].state \in Terminal
             PROVE  rows'[k].state \in Terminal
  BY DEF StaysTerminal
<1>1. CASE rows' = rows
  BY <1>1
<1>2. ASSUME NEW s \in Sessions, NEW new \in States, tx[s].row \in DOMAIN rows, s \in Open,
             tx[s].row # 0, tx[s].state \in Terminal => new \in Terminal,
             rows' = [rows EXCEPT ![tx[s].row] = Written(rows[tx[s].row], tx[s].state, new)]
      PROVE  rows'[k].state \in Terminal
  <2>1. tx[s].state = rows[tx[s].row].state
    BY <1>2, Zenon DEF ReadsAreFresh
  <2>2. CASE k = tx[s].row
    <3>1. rows'[k] = Written(rows[k], rows[k].state, new)
      BY <1>2, <2>1, <2>2, SMTT(60)
    <3>2. rows[k] \in Rows /\ new \in Terminal
      BY <1>0, <1>2, <2>1, <2>2, SMTT(60)
    <3> QED BY <3>1, <3>2, TerminalWritten, SMTT(60)
  <2>3. CASE k # tx[s].row
    BY <1>2, <2>3
  <2> QED BY <2>2, <2>3
<1>3. ASSUME NEW s \in Sessions, CommitIngest(s) PROVE rows'[k].state \in Terminal
  <2>1. /\ tx[s].op = "ingest" /\ tx[s].event \in EventTypes /\ tx[s].row \in {0, 1}
        /\ tx[s].state \in States /\ s \in Open
    BY <1>0, <1>3, RequestFields, SMTT(60) DEF CommitIngest, Open
  <2>2. CASE tx[s].row = 0
    <3>1. rows = <<>>
      BY <2>1, <2>2, Zenon DEF ReadsAreFresh
    <3> QED BY <3>1
  <2>3. CASE tx[s].row # 0
    <3> DEFINE new == Apply(tx[s].state, tx[s].event)
    <3>1. new \in States /\ (tx[s].state \in Terminal => new \in Terminal)
      BY <2>1, StepTypes, Zenon DEF Apply
    <3>2. rows' = [rows EXCEPT ![tx[s].row] = Written(rows[tx[s].row], tx[s].state, new)]
      BY <1>3, <2>3 DEF CommitIngest
    <3>3. tx[s].row \in DOMAIN rows
      BY <2>1, <2>3, SMTT(60) DEF CallInv, RowsExist
    <3> HIDE DEF new
    <3> QED BY <1>2, <2>1, <2>3, <3>1, <3>2, <3>3, ZenonT(60)
  <2> QED BY <2>2, <2>3, SMTT(60)
<1>4. ASSUME NEW s \in Sessions, CommitGuard(s) PROVE rows'[k].state \in Terminal
  <2> DEFINE new == IF ~Closes(tx[s].done) THEN "ended_pending_documentation"
                    ELSE IF Finalizes(tx[s].state) THEN "disconnected" ELSE tx[s].state
  <2>1. /\ tx[s].op = "guard" /\ s \in Open
        /\ rows' = [rows EXCEPT ![tx[s].row] = Written(rows[tx[s].row], tx[s].state, new)]
    BY <1>4, SMTT(60) DEF CommitGuard, Open
  <2>2. tx[s].row \in DOMAIN rows /\ tx[s].row \in 1 .. MaxRows
    BY <2>1, WritesWhat
  <2>3. new \in Terminal /\ new \in States
    BY Vocabulary DEF Terminal, Finalizes, Final
  <2> HIDE DEF new
  <2>4. tx[s].row # 0
    BY <2>2, CallAssumption, SMTT(60) DEF MaxRows
  <2> QED BY <1>2, <2>1, <2>2, <2>3, <2>4, ZenonT(60)
<1>5. ASSUME NEW s \in Sessions, CommitDocument(s) PROVE rows'[k].state \in Terminal
  <2>1. tx[s].op = "document" /\ s \in Open
    BY <1>5 DEF CommitDocument, Open
  <2>2. tx[s].row \in DOMAIN rows /\ tx[s].row \in 1 .. MaxRows
    BY <2>1, WritesWhat, SMTT(60)
  <2>3. CASE ClosesPending(tx[s].category, tx[s].state)
    <3>1. rows' = [rows EXCEPT ![tx[s].row] =
                     Written(rows[tx[s].row], tx[s].state, "disconnected")]
      BY <1>5, <2>3 DEF CommitDocument
    <3>2. "disconnected" \in Terminal /\ "disconnected" \in States
      BY Vocabulary DEF Terminal
    <3>3. tx[s].row # 0
      BY <2>2, CallAssumption DEF MaxRows
    <3> QED BY <1>2, <2>1, <2>2, <3>1, <3>2, <3>3, ZenonT(60)
  <2>4. CASE ~ClosesPending(tx[s].category, tx[s].state)
    <3>1. rows' = [rows EXCEPT ![tx[s].row] = rows[tx[s].row]]
      BY <1>5, <2>4, SMTT(60) DEF CommitDocument
    <3> QED BY <1>0, <3>1, SMTT(60)
  <2> QED BY <2>3, <2>4, SMTT(60)
<1>6. ASSUME \/ UNCHANGED vars \/ \E t \in EventTypes : Report(t)
             \/ \E s \in Sessions :
                  \/ \E t \in EventTypes : BeginIngest(s, t)
                  \/ \E r \in DOMAIN rows :
                       InvokeHangup(s, r) \/ \E c \in BOOLEAN : BeginDocument(s, r, c)
                  \/ BeginGuard(s) \/ Abort(s)
      PROVE  rows' = rows
  BY <1>6, SMTT(60) DEF vars, Report, BeginIngest, InvokeHangup, BeginDocument, BeginGuard, Abort
<1> QED BY <1>1, <1>3, <1>4, <1>5, <1>6, Zenon DEF Next

(* A guard that reads and writes without an overlap leaves the call closed   *)
(* and documented, or pending.                                               *)
LEMMA ObligationStep ==
  ASSUME CallInv, ReadsAreFresh
  PROVE  LeavesObligation
<1> SUFFICES ASSUME NEW s \in Sessions, CommitGuard(s)
             PROVE  \/ rows'[tx[s].row].state = "ended_pending_documentation"
                    \/ rows'[tx[s].row].state \in Final /\ documented[tx[s].row] = "done"
  BY DEF LeavesObligation
<1> DEFINE r == tx[s].row
           old == tx[s].state
           new == IF ~Closes(tx[s].done) THEN "ended_pending_documentation"
                  ELSE IF Finalizes(old) THEN "disconnected" ELSE old
<1>1. /\ tx[s].op = "guard" /\ s \in Open
      /\ rows' = [rows EXCEPT ![r] = Written(rows[r], old, new)]
  BY SMTT(60) DEF CommitGuard, Open
<1>2. /\ r \in DOMAIN rows /\ r \in 1 .. MaxRows /\ rows[r] \in Rows
  BY <1>1, WritesWhat
<1>3. r # 0
  BY <1>2, CallAssumption DEF MaxRows
<1>4. old = rows[r].state /\ tx[s].done = (documented[r] = "done")
  BY <1>1, <1>3, ZenonT(60) DEF ReadsAreFresh
<1>5. rows'[r].state = new
  <2> HIDE DEF new, r, old
  <2>1. rows'[r] = Written(rows[r], old, new)
    BY <1>1, <1>2, SMTT(60)
  <2> QED BY <1>4, <2>1 DEF Written
<1>6. CASE ~Closes(tx[s].done)
  BY <1>5, <1>6, SMTT(60)
<1>7. CASE Closes(tx[s].done)
  <2>1. documented[r] = "done"
    BY <1>4, <1>7, Zenon DEF Closes
  <2>2. new \in Final
    BY <1>7 DEF Finalizes, Final
  <2> QED BY <1>5, <2>1, <2>2
<1> QED BY <1>6, <1>7, SMTT(60)

LEMMA FreshInitial == Init => ReadsAreFresh
<1> SUFFICES ASSUME Init PROVE ReadsAreFresh
  OBVIOUS
<1>1. Open = {}
  BY DEF Init, Open, Idle
<1> QED BY <1>1, Zenon DEF ReadsAreFresh

(* call_lifecycle.py: the row of a call is created "on first sight". That it *)
(* is created once needs transactions that do not overlap: with two at a time*)
(* the run call_rows shows two rows.                                         *)
THEOREM OneRow ==
  ASSUME MaxOpen = 1
  PROVE  Spec => []OneRowPerCall
<1>1. TypeOK => OneRowPerCall
  BY DEF TypeOK, OneRowPerCall, MaxRows
<1> QED BY <1>1, CallTypes, PTL

(* call.py: "the call already ended - ignore a late / replayed event", and   *)
(* hangup_call: "only closed once it has a documentation category": as long  *)
(* as the transactions of a call do not overlap, a terminal call stays so,   *)
(* and whoever hangs up leaves it documented or with an open obligation.     *)
THEOREM EndedStays ==
  ASSUME MaxOpen = 1
  PROVE  Spec => [][StaysTerminal /\ LeavesObligation]_vars
<1>1. CallInv /\ ReadsAreFresh /\ [Next]_vars => (CallInv /\ ReadsAreFresh)'
  BY CallStep, FreshStep
<1>2. CallInv /\ ReadsAreFresh /\ [Next]_vars => [StaysTerminal /\ LeavesObligation]_vars
  BY TerminalStep, ObligationStep
<1> QED BY <1>1, <1>2, CallInitial, FreshInitial, PTL DEF Spec
=============================================================================
