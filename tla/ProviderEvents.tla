--------------------------- MODULE ProviderEvents ---------------------------
(* How what a provider reports reaches the database. The telephony provider   *)
(* keeps its events in a buffer in memory; whoever drains it holds the events *)
(* and stores them one transaction at a time (telephony_ingest.py). A real    *)
(* provider is drained by the telephony-events worker, the mock provider by   *)
(* the requests that made it emit (calls.py::_control). An alarm provider     *)
(* hands over alarm by alarm and replays what it delivered after a reconnect  *)
(* (alarm_ingest.py). The provider inbox keeps one row per dedupe key.        *)
EXTENDS Naturals, Sequences, FiniteSets, SequencesExt

CONSTANTS
  Calls,     \* calls of the telephony provider
  Doors,     \* the calls that come from a door station
  Lines,     \* telephone lines
  Requests,  \* API requests
  Worker,    \* the telephony-events worker: one at a time, its lease sees to it
  MaxEvents, \* bound: events emitted, alarms raised
  Limit,     \* drain_events: events per drain
  Alarms     \* kinds of alarms: [id, fields], id 0 when the provider has none

Holders == Requests \cup {Worker}

VARIABLES
  mock,      \* the telephony provider is the mock
  live,      \* calls the provider knows
  emitted,   \* every event so far, in order
  buffer,    \* indices of emitted that wait in the provider
  hold,      \* hold[h]: what a request or a worker pass is doing
  inbox,     \* dedupe keys of provider_event_inbox
  row,       \* row[c]: the state of the call's row; the state of a line's row
  lost,      \* auxiliary: events whose holder failed
  crossed,   \* auxiliary: calls with events in two hands at once
  alarm      \* the alarm provider: pending, delivered, and what is in hand

evVars == <<mock, live, emitted, buffer, hold, inbox, row, lost, crossed, alarm>>

Target == [CALL_OFFERED |-> "offered", CALL_RINGING |-> "ringing", CALL_ANSWERED |-> "connected",
           CALL_HELD |-> "held", CALL_RESUMED |-> "connected", CALL_TRANSFER_INITIATED |-> "transferring",
           CALL_TRANSFERRED |-> "connected", CALL_DISCONNECTED |-> "disconnected"]
LineTarget == [LINE_IN_SERVICE |-> "in_service", LINE_OUT_OF_SERVICE |-> "out_of_service"]
Terminal == {"disconnected", "ended_pending_documentation"}
Rest == [at |-> "rest", events |-> <<>>]
Event(about, type) == [about |-> about, type |-> type]
About(x) == {i \in DOMAIN emitted : emitted[i].about = x}

ProviderTypeOK ==
  /\ live \subseteq Calls /\ crossed \subseteq Calls \cup Lines
  /\ Len(emitted) <= MaxEvents /\ lost \subseteq DOMAIN emitted
  /\ \A h \in Holders : hold[h].at \in {"rest", "drain", "store", "guard"}
  /\ \A x \in Calls : row[x] \in {"none"} \cup Range(Target) \cup Terminal
  /\ \A x \in Lines : row[x] \in {"none"} \cup Range(LineTarget)

ProviderInit ==
  /\ mock \in BOOLEAN /\ live = {} /\ emitted = <<>> /\ buffer = <<>>
  /\ hold = [h \in Holders |-> Rest]
  /\ inbox = {} /\ row = [x \in Calls \cup Lines |-> "none"]
  /\ lost = {} /\ crossed = {}
  /\ alarm = [pending |-> <<>>, delivered |-> <<>>, hand |-> <<>>]

-----------------------------------------------------------------------------
(* The provider.                                                             *)
Emit(events) ==
  /\ Len(emitted) + Len(events) <= MaxEvents
  /\ emitted' = emitted \o events
Indices(events) == [i \in DOMAIN events |-> Len(emitted) + i]
Buffer(events) == Emit(events) /\ buffer' = buffer \o Indices(events)
Said(c, types) == [i \in DOMAIN types |-> Event(c, types[i])]

(* drain_events hands out up to Limit events and forgets them; a call that   *)
(* has events in another hand already is crossed.                            *)
DrainAll(waiting) ==                                                 \* mutant
  LET n == IF Len(waiting) < Limit THEN Len(waiting) ELSE Limit
  IN  [out |-> SubSeq(waiting, 1, n), left |-> <<>>]
DrainEvents(waiting) ==
  LET n == IF Len(waiting) < Limit THEN Len(waiting) ELSE Limit
  IN  [out |-> SubSeq(waiting, 1, n), left |-> SubSeq(waiting, n + 1, Len(waiting))]
Held(except) == UNION {{emitted[i].about : i \in Range(hold[g].events)} : g \in Holders \ except}
Takes(h, waiting) ==
  LET d == DrainEvents(waiting) IN
  /\ buffer' = d.left
  /\ hold' = [hold EXCEPT ![h] = IF d.out = <<>> THEN Rest ELSE [at |-> "store", events |-> d.out]]
  /\ crossed' = crossed \cup ({emitted'[i].about : i \in Range(d.out)} \cap Held({h}))

(* The commands of the mock. All but hangup need a call it knows; none looks *)
(* at the state of the call.                                                 *)
Require(c) == c \in live
Answer(c) == Require(c) /\ Buffer(Said(c, <<"CALL_ANSWERED">>))
HoldOn(c) == Require(c) /\ Buffer(Said(c, <<"CALL_HELD">>))
Resume(c) == Require(c) /\ Buffer(Said(c, <<"CALL_RESUMED">>))
Transfer(c) == Require(c) /\ Buffer(Said(c, <<"CALL_TRANSFER_INITIATED", "CALL_TRANSFERRED">>))
Hangup(c) ==
  /\ IF c \in live THEN Buffer(Said(c, <<"CALL_DISCONNECTED">>)) ELSE UNCHANGED <<emitted, buffer>>
  /\ live' = live \ {c}
Ring(c) == About(c) = {} /\ live' = live \cup {c} /\ Buffer(Said(c, <<"CALL_RINGING">>))

(* _control up to the provider's answer, for a command without a finalizer.  *)
Control(h, c, command) ==
  /\ mock /\ hold[h] = Rest /\ row[c] # "none"
  /\ command
  /\ hold' = [hold EXCEPT ![h].at = "drain"]
  /\ UNCHANGED <<mock, live, inbox, row, lost, crossed, alarm>>

AnswerCall(h, c) == Control(h, c, Answer(c))
HoldCall(h, c) == Control(h, c, HoldOn(c))
ResumeCall(h, c) == Control(h, c, Resume(c))
TransferCall(h, c) == Control(h, c, Transfer(c))

(* ... and on: the mock is drained, whatever call its events are about.      *)
ControlDrain(h) ==
  /\ hold[h].at = "drain"
  /\ UNCHANGED <<mock, live, emitted, inbox, row, lost, alarm>>
  /\ Takes(h, buffer)

(* hangup_call: the mock drops a call it knows; nothing is drained. _guard   *)
(* ends the row, or leaves it waiting for its documentation.                 *)
HangupCall(h, c) ==
  /\ mock /\ hold[h] = Rest /\ row[c] # "none"
  /\ Hangup(c)
  /\ hold' = [hold EXCEPT ![h] = [at |-> "guard", events |-> <<>>, call |-> c]]
  /\ UNCHANGED <<mock, inbox, row, lost, crossed, alarm>>
Guard(h) ==
  /\ hold[h].at = "guard"
  /\ \E s \in Terminal : row' = [row EXCEPT ![hold[h].call] = s]
  /\ hold' = [hold EXCEPT ![h] = Rest]
  /\ UNCHANGED <<mock, live, emitted, buffer, inbox, lost, crossed, alarm>>

(* dial leaves its event in the buffer.                                      *)
Dial(h, c) ==
  /\ mock /\ hold[h] = Rest
  /\ Ring(c)
  /\ UNCHANGED <<mock, hold, inbox, row, lost, crossed, alarm>>

(* POST /telephony/_mock/simulate-incoming: emitted and drained at once.     *)
SimulateIncoming(c) == Said(c, <<"CALL_OFFERED", "CALL_RINGING">>)
SimulateIncomingCall(h, c) ==
  /\ mock /\ hold[h] = Rest /\ About(c) = {}
  /\ live' = live \cup {c}
  /\ Emit(SimulateIncoming(c))
  /\ Takes(h, buffer \o Indices(SimulateIncoming(c)))
  /\ UNCHANGED <<mock, inbox, row, lost, alarm>>

(* A real provider reports its lines and the progress of its calls.          *)
Talking == {"CALL_HELD", "CALL_TRANSFER_INITIATED", "CALL_DISCONNECTED"}
After == [CALL_OFFERED |-> {"CALL_RINGING", "CALL_DISCONNECTED"},
          CALL_RINGING |-> {"CALL_ANSWERED", "CALL_DISCONNECTED"},
          CALL_ANSWERED |-> Talking, CALL_RESUMED |-> Talking, CALL_TRANSFERRED |-> Talking,
          CALL_HELD |-> {"CALL_RESUMED", "CALL_DISCONNECTED"},
          CALL_TRANSFER_INITIATED |-> {"CALL_TRANSFERRED", "CALL_DISCONNECTED"},
          CALL_DISCONNECTED |-> {}]
MayReport(x) ==
  IF x \in Lines THEN DOMAIN LineTarget
  ELSE IF About(x) = {} THEN {"CALL_OFFERED", "CALL_RINGING"} ELSE After[emitted[Max(About(x))].type]
Report(x, type) ==
  /\ ~mock
  /\ Buffer(<<Event(x, type)>>)
  /\ UNCHANGED <<mock, live, hold, inbox, row, lost, crossed, alarm>>

Backlog == SelectSeq([i \in DOMAIN emitted |-> i], LAMBDA i : emitted[i].about # "alarm")
(* replay_backlog: a reconnect delivers everything again. Bound: only when   *)
(* nothing waits and nothing is in hand.                                     *)
Still == buffer = <<>> /\ \A h \in Holders : hold[h] = Rest
ReplayBacklog ==
  /\ Still /\ Backlog # <<>>
  /\ buffer' = Backlog
  /\ UNCHANGED <<mock, live, emitted, hold, inbox, row, lost, crossed, alarm>>

(* A pass of the telephony-events worker.                                    *)
TelephonyEventsTick ==
  /\ ~mock /\ hold[Worker] = Rest /\ buffer # <<>>
  /\ UNCHANGED <<mock, live, emitted, inbox, row, lost, alarm>>
  /\ Takes(Worker, buffer)

(* POST /telephony/events: a gateway hands over one event.                   *)
IngestEvent(h, x, type) ==
  /\ ~mock /\ hold[h] = Rest
  /\ Emit(<<Event(x, type)>>)
  /\ hold' = [hold EXCEPT ![h] = [at |-> "store", events |-> <<Len(emitted) + 1>>]]
  /\ crossed' = crossed \cup ({x} \cap (Held({h}) \cup {emitted[i].about : i \in Range(buffer)}))
  /\ UNCHANGED <<mock, live, buffer, inbox, row, lost, alarm>>

-----------------------------------------------------------------------------
(* telephony_dedupe_key: one key for a call and a type, else the event's own.*)
TelephonyDedupeKey(i) ==
  IF emitted[i].about \in Calls THEN <<emitted[i].about, emitted[i].type>> ELSE <<"evt", i>>

(* from_telephony_event: the signal of an event, or none. _resolve_doorbell: *)
(* the ring of a door station has a type of its own.                         *)
FromTelephonyEvent(e) ==
  CASE e.type \in {"CALL_OFFERED", "CALL_RINGING"} -> {"CALL_RINGING"}
    [] e.type = "CALL_ANSWERED" -> {"CALL_ANSWERED"}
    [] e.type = "CALL_DISCONNECTED" -> {"CALL_ENDED"}
    [] OTHER -> {}
ResolveDoorbell(e, s) == IF s = "CALL_RINGING" /\ e.about \in Doors THEN "DOORBELL_RINGING" ELSE s
Signal(key, type) == <<"signal", key, type>>

(* on_provider_event and on_line_event.                                      *)
OnCallEvent(state, type) == IF state \in Terminal THEN state ELSE Target[type]
OnLineEvent(type) == LineTarget[type]

(* ingest_telephony_event of the first event in hand, in a transaction of    *)
(* its own: a duplicate changes nothing, a new one reaches the call or the   *)
(* line and queues its signal.                                               *)
IngestTelephonyEvent(h) ==
  LET i == Head(hold[h].events)
      e == emitted[i]
      key == TelephonyDedupeKey(i)
      rest == Tail(hold[h].events) IN
  /\ hold[h].at = "store"
  /\ IF key \in inbox THEN UNCHANGED <<inbox, row>>
     ELSE /\ inbox' = inbox \cup {key} \cup {Signal(key, ResolveDoorbell(e, s)) : s \in FromTelephonyEvent(e)}
          /\ row' = [row EXCEPT ![e.about] =
                       IF e.about \in Calls THEN OnCallEvent(@, e.type) ELSE OnLineEvent(e.type)]
  /\ hold' = [hold EXCEPT ![h] = IF rest = <<>> THEN Rest ELSE [at |-> "store", events |-> rest]]
  /\ UNCHANGED <<mock, live, emitted, buffer, lost, crossed, alarm>>

(* The request is cancelled, the node dies, the database is away: what is in *)
(* hand is nowhere else.                                                     *)
HolderFails(h) ==
  /\ hold[h].at \in {"drain", "store"}
  /\ lost' = lost \cup Range(hold[h].events)
  /\ hold' = [hold EXCEPT ![h] = Rest]
  /\ UNCHANGED <<mock, live, emitted, buffer, inbox, row, crossed, alarm>>

TelephonyNext ==
  \/ \E h \in Requests, c \in Calls :
       \/ HangupCall(h, c) \/ Dial(h, c) \/ SimulateIncomingCall(h, c)
       \/ AnswerCall(h, c) \/ HoldCall(h, c) \/ ResumeCall(h, c) \/ TransferCall(h, c)
  \/ \E x \in Calls \cup Lines : \E type \in MayReport(x) :
       Report(x, type) \/ \E h \in Requests : IngestEvent(h, x, type)
  \/ \E h \in Requests : ControlDrain(h) \/ Guard(h)
  \/ \E h \in Holders : IngestTelephonyEvent(h) \/ HolderFails(h)
  \/ ReplayBacklog \/ TelephonyEventsTick

-----------------------------------------------------------------------------
(* The alarm provider.                                                       *)
Ingested == UNCHANGED <<mock, live, buffer, hold, row, lost, crossed>>

SimulateAlarm(a) ==
  /\ Emit(<<Event("alarm", a)>>)
  /\ alarm' = [alarm EXCEPT !.pending = @ \o Indices(<<a>>)]
  /\ UNCHANGED inbox /\ Ingested

(* subscribe_alarms: an alarm counts as delivered when it is handed over.    *)
SubscribeAlarms ==
  /\ alarm.pending # <<>> /\ alarm.hand = <<>>
  /\ alarm' = [pending |-> Tail(alarm.pending), hand |-> <<Head(alarm.pending)>>,
               delivered |-> Append(alarm.delivered, Head(alarm.pending))]
  /\ UNCHANGED <<emitted, inbox>> /\ Ingested

(* The key of an alarm: the provider's id, or one derived from the fields.   *)
DerivedEventId(a) == <<"derived", a.fields>>
NormalizeAlarmEvent(a) == IF a.id # 0 THEN <<"id", a.id>> ELSE DerivedEventId(a)
AlarmEventDedupeKey(i) == NormalizeAlarmEvent(emitted[i].type)

(* from_incoming_alarm                                                       *)
FromIncomingAlarm(a) == IF a.fields = "panic" THEN "PANIC_ALARM_RAISED" ELSE "TECHNICAL_ALARM_RAISED"

(* record_inbound_signal: the signal has a key of its own.                   *)
RecordInboundSignal(key, s) == inbox \cup {key, Signal(key, s)}

IngestAlarmEvent ==
  /\ alarm.hand # <<>>
  /\ LET i == Head(alarm.hand)
         key == AlarmEventDedupeKey(i)
     IN  inbox' = IF key \in inbox THEN inbox ELSE RecordInboundSignal(key, FromIncomingAlarm(emitted[i].type))
  /\ alarm' = [alarm EXCEPT !.hand = <<>>]
  /\ UNCHANGED emitted /\ Ingested

(* The transaction fails, or the subscriber is gone.                         *)
IngestFails ==
  /\ alarm.hand # <<>>
  /\ alarm' = [alarm EXCEPT !.hand = <<>>]
  /\ UNCHANGED <<emitted, inbox>> /\ Ingested

(* reconnect: what was delivered comes again, first.                         *)
Reconnect ==
  /\ alarm.delivered # <<>> /\ alarm.hand = <<>>
  /\ alarm' = [alarm EXCEPT !.pending = alarm.delivered \o @, !.delivered = <<>>]
  /\ UNCHANGED <<emitted, inbox>> /\ Ingested

AlarmsNext ==
  \/ \E a \in Alarms : SimulateAlarm(a)
  \/ SubscribeAlarms \/ IngestAlarmEvent \/ IngestFails \/ Reconnect

ProviderNext == TelephonyNext \/ AlarmsNext

-----------------------------------------------------------------------------
(* Nothing a provider reports disappears. A telephony event waits in the      *)
(* buffer, is in a hand, or is in the inbox under its key: it is lost only     *)
(* with a failing holder. An alarm can always be delivered again, and however  *)
(* often it is, once it is in the inbox it has one signal.                     *)
AlarmIsAccounted(i) ==
  /\ i \in Range(alarm.pending \o alarm.delivered)
  /\ LET key == AlarmEventDedupeKey(i) IN
     Cardinality({s \in inbox : s[1] = "signal" /\ s[2] = key}) = IF key \in inbox THEN 1 ELSE 0
EventIsAccounted(i) ==
  \/ i \in Range(buffer) \cup UNION {Range(hold[h].events) : h \in Holders} \cup lost
  \/ TelephonyDedupeKey(i) \in inbox
EventsAreAccounted ==
  \A i \in DOMAIN emitted : IF emitted[i].about = "alarm" THEN AlarmIsAccounted(i) ELSE EventIsAccounted(i)

(* When nothing waits and nothing is in hand, the row of a call or a line    *)
(* has the state of the last event about it ...                              *)
Undisturbed(x) == About(x) # {} /\ x \notin crossed /\ About(x) \cap lost = {}
Tells(x) ==
  LET last == emitted[Max(About(x))].type
  IN  IF x \in Lines THEN row[x] = LineTarget[last]
      ELSE IF Target[last] \in Terminal THEN row[x] \in Terminal ELSE row[x] = Target[last]
Repeats(x) == \E i, j \in About(x) : i # j /\ emitted[i].type = emitted[j].type

(* ... unless a holder failed, two requests held events of the call at once, *)
(* or the call reported one type twice: the key of the inbox does not tell   *)
(* the second from a replay of the first.                                    *)
RowsFollowProvider ==
  Still => \A x \in Calls \cup Lines :
             Undisturbed(x) /\ (x \in Calls => ~Repeats(x)) => Tells(x)
=============================================================================
