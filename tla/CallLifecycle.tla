---------------------------- MODULE CallLifecycle ---------------------------
(***************************************************************************)
(* One telephone call: the provider that reports it, the ingestion of its  *)
(* events (infra/telephony_ingest.py), the call aggregate                  *)
(* (domain/telephony), its persistence (infra/repositories/                *)
(* call_lifecycle.py) and the operator's hangup and documentation          *)
(* (api/v1/calls.py).                                                      *)
(*                                                                         *)
(* A handler is one READ COMMITTED transaction in two steps: it reads the  *)
(* row, then writes the attributes it has changed and commits. No row is   *)
(* locked or versioned between the two.                                    *)
(***************************************************************************)
EXTENDS Naturals, Sequences, FiniteSets, Functions

CONSTANTS
  Sessions,    \* webhook requests, the telephony worker and operators' requests
  MaxOpen,     \* bound: transactions open at the same time
  MaxEvents,   \* bound: events the provider reports
  MaxDocuments,\* bound: CALL_DOCUMENTED events of a call
  Reordered    \* TRUE: events may overtake each other on their way to the server

ASSUME CallAssumption == MaxOpen \in Nat \ {0} /\ MaxEvents \in Nat /\ MaxDocuments \in Nat /\ Reordered \in BOOLEAN

(* _PROVIDER_TARGET: the state an event drives the call to.                  *)
Target ==
  [OFFERED |-> "offered", RINGING |-> "ringing", ANSWERED |-> "connected",
   CONNECTED |-> "connected", HELD |-> "held", RESUMED |-> "connected",
   TRANSFER_INITIATED |-> "transferring", TRANSFERRED |-> "connected",
   CONFERENCED |-> "connected", DISCONNECTED |-> "disconnected", FAILED |-> "failed"]
EventTypes == DOMAIN Target
Terminal == {"disconnected", "failed", "ended_pending_documentation"}
Final == {"disconnected", "failed"}
States == Range(Target) \cup Terminal

VARIABLES
  provider,    \* the call's state at the provider
  emitted,     \* the events the provider has reported, in order
  inbox,       \* the dedupe keys in the provider inbox
  dispatched,  \* dispatched[t]: how often an event of type t reached the aggregate
  rows,        \* the rows of this call in calls
  documented,  \* documented[r]: the documentation of row r; "done" with a category
  log,         \* log[r]: the business events of row r in the domain log
  tx           \* tx[s]: the request session s is working on

vars == <<provider, emitted, inbox, dispatched, rows, documented, log, tx>>

(* A row is created by a transaction that saw none: at most one by each that   *)
(* was open when the first committed.                                        *)
MaxRows == MaxOpen
Documentation == {"none", "draft", "done"}
Idle == [op |-> "idle"]
Business == {"CALL_RINGING", "CALL_ANSWERED", "CALL_ENDED", "CALL_DOCUMENTED"}
Rows == [state : States, ended : BOOLEAN]
Requests ==
  {Idle} \cup [op : {"ingest"}, event : EventTypes, row : {0, 1}, state : States]
  \cup [op : {"hangup"}, row : 1 .. MaxRows]
  \cup [op : {"guard"}, row : 1 .. MaxRows, state : States, done : BOOLEAN]
  \cup [op : {"document"}, row : 1 .. MaxRows, state : States, category : BOOLEAN,
        doc : Documentation]

TypeOK ==
  /\ provider \in States \cup {"none"}
  /\ emitted \in Seq(EventTypes) /\ Len(emitted) <= MaxEvents
  /\ inbox \subseteq EventTypes /\ dispatched \in [EventTypes -> Nat]
  /\ rows \in Seq(Rows) /\ Len(rows) <= MaxRows
  /\ documented \in [1 .. MaxRows -> Documentation]
  /\ log \in [1 .. MaxRows -> Seq(Business)]
  /\ tx \in [Sessions -> Requests]

Init ==
  /\ provider = "none" /\ emitted = <<>> /\ inbox = {}
  /\ dispatched = [t \in EventTypes |-> 0]
  /\ rows = <<>> /\ documented = [r \in 1 .. MaxRows |-> "none"]
  /\ log = [r \in 1 .. MaxRows |-> <<>>]
  /\ tx = [s \in Sessions |-> Idle]

-----------------------------------------------------------------------------
(* The provider and the other party: what it may report next.                *)
NextReports(p) ==
  {t \in EventTypes :
     \/ t \in {"OFFERED", "RINGING"} /\ p = "none"
     \/ t = "RINGING" /\ p = "offered"
     \/ t = "ANSWERED" /\ p = "ringing"
     \/ t \in {"CONNECTED", "CONFERENCED", "HELD", "TRANSFER_INITIATED"} /\ p = "connected"
     \/ t = "RESUMED" /\ p = "held"
     \/ t = "TRANSFERRED" /\ p = "transferring"
     \/ t = "DISCONNECTED" /\ p \notin {"none"} \cup Terminal
     \/ t = "FAILED" /\ p \in {"offered", "ringing"}}

Report(t) ==
  /\ t \in NextReports(provider) /\ Len(emitted) < MaxEvents
  /\ provider' = Target[t] /\ emitted' = Append(emitted, t)
  /\ UNCHANGED <<inbox, dispatched, rows, documented, log, tx>>

-----------------------------------------------------------------------------
Open == {s \in Sessions : tx[s].op \in {"ingest", "guard", "document"}}
CanOpen(s) == Cardinality(Open \ {s}) < MaxOpen

(* telephony_dedupe_key: one key per call and event type. An insert of a key *)
(* another open transaction has inserted waits for it.                       *)
NoDedupe(t) == TRUE                                                  \* mutant
IsNew(t) == t \notin inbox /\ \A s \in Sessions : tx[s].op = "ingest" => tx[s].event # t

(* The events that can arrive: with Reordered any event reported so far,     *)
(* otherwise the first one that has not been stored. A stored one may arrive *)
(* again; it is a duplicate and changes nothing.                             *)
Waiting == {i \in DOMAIN emitted : IsNew(emitted[i])}
Arriving == {emitted[i] : i \in {k \in Waiting : Reordered \/ \A j \in Waiting : k <= j}}

(* CallAggregate.apply_provider_event.                                       *)
ApplyAlways(state, t) == Target[t]                                   \* mutant
Apply(state, t) == IF state \in Terminal THEN state ELSE Target[t]

(* business_event_for.                                                       *)
BusinessEvent(old, new) ==
  IF old = new THEN <<>>
  ELSE IF new = "ringing" /\ old = "offered" THEN <<"CALL_RINGING">>
  ELSE IF new = "connected" /\ old \in {"offered", "ringing"} THEN <<"CALL_ANSWERED">>
  ELSE IF new \in Terminal /\ old \notin Terminal THEN <<"CALL_ENDED">>
  ELSE <<>>

(* on_provider_event up to its reads: the row of the call, or none yet. With *)
(* more than one row the query raises and the event is not stored.           *)
BeginIngest(s, t) ==
  /\ tx[s] = Idle /\ CanOpen(s) /\ t \in Arriving /\ Len(rows) <= 1
  /\ tx' = [tx EXCEPT ![s] =
             [op |-> "ingest", event |-> t, row |-> Len(rows),
              state |-> IF rows = <<>> THEN "offered" ELSE rows[1].state]]
  /\ UNCHANGED <<provider, emitted, inbox, dispatched, rows, documented, log>>

(* The write of an attribute that differs from what was read.                *)
Written(row, old, new) ==
  IF new = old THEN row ELSE [state |-> new, ended |-> row.ended \/ new \in Terminal]

(* ... and its writes, together with the inbox row and the signal.           *)
CommitIngest(s) ==
  LET r == tx[s].row
      old == tx[s].state
      new == Apply(old, tx[s].event)
      at == IF r = 0 THEN Len(rows) + 1 ELSE r
  IN /\ tx[s].op = "ingest"
     /\ rows' = IF r = 0
                THEN Append(rows, Written([state |-> "offered", ended |-> FALSE], old, new))
                ELSE [rows EXCEPT ![r] = Written(@, old, new)]
     /\ log' = [log EXCEPT ![at] = @ \o BusinessEvent(old, new)]
     /\ inbox' = inbox \cup {tx[s].event}
     /\ dispatched' = [dispatched EXCEPT ![tx[s].event] = @ + 1]
     /\ tx' = [tx EXCEPT ![s] = Idle]
     /\ UNCHANGED <<provider, emitted, documented>>

-----------------------------------------------------------------------------
(* hangup_call: the provider is told to hang up; it reports the end of the   *)
(* call, or refuses. The guard runs either way ...                           *)
InvokeHangup(s, r) ==
  /\ tx[s] = Idle /\ r \in DOMAIN rows
  /\ \/ UNCHANGED <<provider, emitted>>
     \/ /\ provider \notin Terminal /\ Len(emitted) < MaxEvents
        /\ provider' = "disconnected" /\ emitted' = Append(emitted, "DISCONNECTED")
  /\ tx' = [tx EXCEPT ![s] = [op |-> "hangup", row |-> r]]
  /\ UNCHANGED <<inbox, dispatched, rows, documented, log>>

(* ... and _guard reads the call and its documentation ...                   *)
BeginGuard(s) ==
  /\ tx[s].op = "hangup" /\ CanOpen(s)
  /\ tx' = [tx EXCEPT ![s] = [op |-> "guard", row |-> @.row, state |-> rows[@.row].state,
                              done |-> documented[@.row] = "done"]]
  /\ UNCHANGED <<provider, emitted, inbox, dispatched, rows, documented, log>>

(* _finalize_ended: nothing for a final call.                                *)
Finalizes(state) == state \notin Final

(* ... and closes the call or leaves it pending.                             *)
Closes(done) == done

CommitGuard(s) ==
  LET r == tx[s].row
      old == tx[s].state
      close == Closes(tx[s].done)
      new == IF ~close THEN "ended_pending_documentation"
             ELSE IF Finalizes(old) THEN "disconnected" ELSE old
  IN /\ tx[s].op = "guard"
     /\ rows' = [rows EXCEPT ![r] = Written(@, old, new)]
     /\ log' = [log EXCEPT ![r] = IF close /\ Finalizes(old) THEN Append(@, "CALL_ENDED") ELSE @]
     /\ tx' = [tx EXCEPT ![s] = Idle]
     /\ UNCHANGED <<provider, emitted, inbox, dispatched, documented>>

Count(r, e) == Len(SelectSeq(log[r], LAMBDA x : x = e))

(* put_documentation, with or without a category.                            *)
BeginDocument(s, r, category) ==
  /\ tx[s] = Idle /\ CanOpen(s) /\ r \in DOMAIN rows
  /\ Count(r, "CALL_DOCUMENTED") < MaxDocuments
  /\ tx' = [tx EXCEPT ![s] = [op |-> "document", row |-> r, state |-> rows[r].state,
                              category |-> category, doc |-> documented[r]]]
  /\ UNCHANGED <<provider, emitted, inbox, dispatched, rows, documented, log>>

(* A category closes a call that was only waiting for it.                    *)
ClosesPending(category, state) == category /\ state = "ended_pending_documentation"

CommitDocument(s) ==
  LET r == tx[s].row
      old == tx[s].state
      doc == IF tx[s].category THEN "done" ELSE "draft"
      closes == ClosesPending(tx[s].category, old)
  IN /\ tx[s].op = "document"
     /\ tx[s].doc = "none" => documented[r] = "none"     \* the row's primary key
     /\ documented' = [documented EXCEPT ![r] = IF doc = tx[s].doc THEN @ ELSE doc]
     /\ rows' = [rows EXCEPT ![r] = IF closes THEN Written(@, old, "disconnected") ELSE @]
     /\ log' = [log EXCEPT ![r] = @ \o (IF tx[s].category THEN <<"CALL_DOCUMENTED">> ELSE <<>>)
                                    \o (IF closes THEN <<"CALL_ENDED">> ELSE <<>>)]
     /\ tx' = [tx EXCEPT ![s] = Idle]
     /\ UNCHANGED <<provider, emitted, inbox, dispatched>>

(* The node dies or the request is cancelled: nothing is written.            *)
Abort(s) ==
  /\ tx[s] # Idle
  /\ tx' = [tx EXCEPT ![s] = Idle]
  /\ UNCHANGED <<provider, emitted, inbox, dispatched, rows, documented, log>>

Next ==
  \/ \E t \in EventTypes : Report(t)
  \/ \E s \in Sessions :
       \/ \E t \in EventTypes : BeginIngest(s, t)
       \/ \E r \in DOMAIN rows : InvokeHangup(s, r) \/ \E c \in BOOLEAN : BeginDocument(s, r, c)
       \/ CommitIngest(s) \/ BeginGuard(s) \/ CommitGuard(s) \/ CommitDocument(s) \/ Abort(s)

Spec == Init /\ [][Next]_vars

-----------------------------------------------------------------------------
AtRest == \A s \in Sessions : tx[s] = Idle

(* telephony_ingest.py: an event replayed after a reconnect, or seen by both *)
(* nodes, is processed "exactly once", and never lost once it is stored.     *)
ProcessedOnce == \A t \in EventTypes : dispatched[t] = IF t \in inbox THEN 1 ELSE 0

(* call.py: "the call already ended - ignore a late / replayed event".       *)
StaysTerminal ==
  \A r \in DOMAIN rows : rows[r].state \in Terminal => rows'[r].state \in Terminal

(* hangup_call: a call the operator has hung up "is only closed once it has  *)
(* a documentation category": whoever hangs up leaves it closed and          *)
(* documented, or in the list of open obligations.                           *)
LeavesObligation ==
  \A s \in Sessions : CommitGuard(s) =>
    LET r == tx[s].row
    IN \/ rows'[r].state = "ended_pending_documentation"
       \/ rows'[r].state \in Final /\ documented[r] = "done"

(* call_lifecycle.py: the row of a call is created "on first sight".         *)
OneRowPerCall == Len(rows) <= 1

=============================================================================
