----------------------------- MODULE SipAdapter -----------------------------
(* The telephony_sip adapter (adapter.py) against Asterisk: commands, each a *)
(* coroutine that awaits ARI, and the pump that takes the event stream one   *)
(* event at a time. A call and its trunk channel are one; the operator's     *)
(* WebRTC leg of a call has the number of the bridge it is to join. Left out *)
(* are the events that touch no state of the adapter (devices, a remote      *)
(* hold, the StasisStart of a dialled call, which only repeats RINGING),     *)
(* conferences, and which kind of hold resume has to end.                    *)
EXTENDS Naturals, Sequences, FiniteSets

CONSTANTS
  Inbound, Outbound,   \* calls
  Musical,             \* calls whose line has a ring and a hold class
  Keys,                \* command ids
  Handlers,            \* API requests that run a command
  Legs,                \* numbers of bridges and operator legs
  MaxStream            \* bound on the events under way

VARIABLES
  chan,      \* Asterisk: chan[c] is "free", "ring", "up", "ending" or "gone"
  leg,       \* Asterisk: leg[b] is "free", "calling", "stasis", "joined" or "gone"
  bridge,    \* Asterisk: bridge[b] is "free", "open" or "closed"
  stream,    \* events sent and not yet pumped
  know,      \* what the adapter remembers
  job,       \* job[e]: what a handler, or the pump, is in the middle of
  out,       \* the RINGING and ANSWERED events put into the buffer so far
  sent,      \* auxiliary: sent[k] counts the effects of command k
  fault      \* auxiliary: what overlapped, failed or was lost

sipVars == <<chan, leg, bridge, stream, know, job, out, sent, fault>>

Calls == Inbound \cup Outbound
Pump == "pump"
Runners == Handlers \cup {Pump}
Free == [st |-> "idle"]
NoBridge == 0

(* map_ari_event, of the kinds that end up in a call's life.                 *)
Ends == {"ChannelHangupRequest", "ChannelDestroyed"}
MapAriEvent(kind) ==
  CASE kind = "StasisStart" -> "ringing"
    [] kind = "ChannelStateChange" -> "answered"
    [] kind \in Ends -> "disconnected"

SipTypeOK ==
  /\ chan \in [Calls -> {"free", "ring", "up", "ending", "gone"}]
  /\ leg \in [Legs -> {"free", "calling", "stasis", "joined", "gone"}]
  /\ bridge \in [Legs -> {"free", "open", "closed"}]
  /\ know.channels \subseteq Calls \cup Legs
  /\ know.bridges \in [Calls -> Legs \cup {NoBridge}]
  /\ know.operators \subseteq Legs /\ know.pending \subseteq Legs
  /\ know.seen \in [Keys -> {"none", "ok", "refused"}]

SipInit ==
  /\ chan = [c \in Calls |-> "free"]
  /\ leg = [b \in Legs |-> "free"]
  /\ bridge = [b \in Legs |-> "free"]
  /\ stream = <<>>
  /\ know = [channels |-> {}, ringMoh |-> {}, dialOperator |-> {},
             bridges |-> [c \in Calls |-> NoBridge], operators |-> {}, pending |-> {},
             seen |-> [k \in Keys |-> "none"]]
  /\ job = [e \in Runners |-> Free]
  /\ out = {}
  /\ sent = [k \in Keys |-> 0]
  /\ fault = [twice |-> {}, bridges |-> {}, picked |-> {}, refused |-> {}, lost |-> FALSE]

Task(st, c) == [st |-> st, c |-> c, b |-> NoBridge]
Command(st, c, k, v, was, op) ==
  [st |-> st, c |-> c, b |-> NoBridge, k |-> k, v |-> v, was |-> was, op |-> op]

Idle(e) == job[e].st = "idle"
At(e, st) == job[e].st = st
Set(e, j) == job' = [job EXCEPT ![e] = j]
Live(c) == chan[c] \in {"ring", "up"}
Emit(ev) == Len(stream) < MaxStream /\ stream' = Append(stream, ev)
Acked(kn, k, ok) == [kn EXCEPT !.seen[k] = IF ok THEN "ok" ELSE "refused"]
Report(what, x) == out' = out \cup {<<what, x>>}
Count(k) == sent' = [sent EXCEPT ![k] = @ + 1]
Fresh == {b \in Legs : bridge[b] = "free"}

-----------------------------------------------------------------------------
(* Asterisk                                                                  *)
Incoming(c) ==
  /\ c \in Inbound /\ chan[c] = "free"
  /\ chan' = [chan EXCEPT ![c] = "ring"]
  /\ Emit(<<"StasisStart", c>>)
  /\ UNCHANGED <<leg, bridge, know, job, out, sent, fault>>

(* The far end of a dialled call answers.                                    *)
FarAnswer(c) ==
  /\ c \in Outbound /\ chan[c] = "ring"
  /\ chan' = [chan EXCEPT ![c] = "up"]
  /\ Emit(<<"ChannelStateChange", c>>)
  /\ UNCHANGED <<leg, bridge, know, job, out, sent, fault>>

(* A channel ends with more than one event: ChannelHangupRequest, and later  *)
(* StasisEnd and ChannelDestroyed.                                           *)
FarHangup(c) ==
  /\ Live(c)
  /\ chan' = [chan EXCEPT ![c] = "ending"]
  /\ Emit(<<"ChannelHangupRequest", c>>)
  /\ UNCHANGED <<leg, bridge, know, job, out, sent, fault>>

Destroyed(c) ==
  /\ chan[c] = "ending"
  /\ chan' = [chan EXCEPT ![c] = "gone"]
  /\ Emit(<<"ChannelDestroyed", c>>)
  /\ UNCHANGED <<leg, bridge, know, job, out, sent, fault>>

LegAnswer(b) ==
  /\ leg[b] = "calling"
  /\ leg' = [leg EXCEPT ![b] = "stasis"]
  /\ Emit(<<"StasisStart", b>>)
  /\ UNCHANGED <<chan, bridge, know, job, out, sent, fault>>

LegHangup(b) ==
  /\ leg[b] \in {"calling", "stasis", "joined"}
  /\ leg' = [leg EXCEPT ![b] = "gone"]
  /\ Emit(<<"ChannelDestroyed", b>>)
  /\ UNCHANGED <<chan, bridge, know, job, out, sent, fault>>

(* AriClient.events: the socket drops and is opened again; what was sent in  *)
(* between is gone.                                                          *)
Reconnect ==
  /\ stream # <<>> /\ ~fault.lost
  /\ stream' = <<>>
  /\ fault' = [fault EXCEPT !.lost = TRUE]
  /\ UNCHANGED <<chan, leg, bridge, know, job, out, sent>>

-----------------------------------------------------------------------------
(* The pump. Head(stream) is taken when its last event is dealt with.        *)
Takes(type, x) ==
  Idle(Pump) /\ stream # <<>> /\ MapAriEvent(Head(stream)[1]) = type /\ Head(stream)[2] = x
Taken == stream' = Tail(stream)

(* StasisStart of a call: RINGING, and ring music where the line has some.   *)
PumpStart(c) ==
  /\ Takes("ringing", c) /\ Taken
  /\ IF c \in Musical /\ c \notin know.ringMoh
     THEN /\ know' = [know EXCEPT !.channels = @ \cup {c}, !.ringMoh = @ \cup {c}]
          /\ Set(Pump, Task("music", c))
          /\ UNCHANGED out
     ELSE /\ know' = [know EXCEPT !.channels = @ \cup {c}]
          /\ Report("ringing", c)
          /\ UNCHANGED job
  /\ UNCHANGED <<chan, leg, bridge, sent, fault>>

(* start_moh answers the channel; an error is suppressed.                    *)
StartMoh ==
  LET c == job[Pump].c IN
  /\ At(Pump, "music")
  /\ \/ chan[c] = "ring" /\ chan' = [chan EXCEPT ![c] = "up"] /\ Emit(<<"ChannelStateChange", c>>)
     \/ UNCHANGED <<chan, stream>>
  /\ Report("ringing", c)
  /\ Set(Pump, Free)
  /\ UNCHANGED <<leg, bridge, know, sent, fault>>

PumpUpHeard(c) ==                                                 \* mutant
  /\ Takes("answered", c) /\ Taken
  /\ know' = [know EXCEPT !.channels = @ \cup {c}]
  /\ Report("answered", c)
  /\ UNCHANGED <<chan, leg, bridge, job, sent, fault>>

(* CALL_ANSWERED: swallowed while ring music plays; of a dialled call, first *)
(* the operator's leg is bridged.                                            *)
PumpUp(c) ==
  /\ Takes("answered", c) /\ Taken
  /\ know' = [know EXCEPT !.channels = @ \cup {c},
                          !.dialOperator = IF c \in know.ringMoh THEN @ ELSE @ \ {c}]
  /\ IF c \in know.dialOperator \ know.ringMoh
     THEN Set(Pump, Task("bridge", c)) ELSE UNCHANGED job
  /\ IF c \in know.dialOperator \cup know.ringMoh THEN UNCHANGED out ELSE Report("answered", c)
  /\ UNCHANGED <<chan, leg, bridge, sent, fault>>

SettingUp(c) == {job[e].b : e \in {r \in Runners : job[r].st = "leg" /\ job[r].c = c}}

(* CALL_DISCONNECTED: the call is forgotten, _teardown_bridge.               *)
PumpEnd(c) ==
  LET b == know.bridges[c] IN
  /\ Takes("disconnected", c) /\ Taken
  /\ know' = [know EXCEPT !.channels = @ \ {c}, !.ringMoh = @ \ {c}, !.dialOperator = @ \ {c},
                          !.bridges[c] = NoBridge, !.operators = @ \ {b}, !.pending = @ \ {b}]
  /\ \E destroyed \in BOOLEAN :
       /\ b = NoBridge => destroyed
       /\ bridge' = IF destroyed /\ b # NoBridge THEN [bridge EXCEPT ![b] = "closed"] ELSE bridge
       /\ fault' = [fault EXCEPT !.bridges = @ \cup SettingUp(c) \cup (IF destroyed THEN {} ELSE {b})]
  /\ leg' = IF b # NoBridge /\ leg[b] = "joined" THEN [leg EXCEPT ![b] = "stasis"] ELSE leg
  /\ UNCHANGED <<chan, job, out, sent>>

(* _handle_operator_leg                                                      *)
HandleOperatorLeg(b) ==
  /\ b \in know.operators
  /\ \/ /\ Takes("ringing", b) /\ Taken
        /\ know' = [know EXCEPT !.pending = @ \ {b}]
        /\ leg' = IF b \in know.pending /\ bridge[b] = "open" /\ leg[b] = "stasis"
                  THEN [leg EXCEPT ![b] = "joined"] ELSE leg
     \/ /\ Takes("disconnected", b) /\ Taken
        /\ know' = [know EXCEPT !.operators = @ \ {b}, !.pending = @ \ {b}]
        /\ UNCHANGED leg
  /\ UNCHANGED <<chan, bridge, job, out, sent, fault>>

(* A leg the adapter does not know (any more) is mapped like a call.         *)
UnknownLeg(b) ==
  /\ b \notin know.operators
  /\ \/ /\ Takes("ringing", b) /\ Taken
        /\ know' = [know EXCEPT !.channels = @ \cup {b}]
        /\ Report("ringing", b)
     \/ /\ Takes("disconnected", b) /\ Taken
        /\ know' = [know EXCEPT !.channels = @ \ {b}]
        /\ UNCHANGED out
  /\ UNCHANGED <<chan, leg, bridge, job, sent, fault>>

-----------------------------------------------------------------------------
(* _bridge_operator, of the answer command and of the pump. After it the     *)
(* pump buffers the event that it holds.                                     *)
Done(e) ==
  /\ Set(e, Free)
  /\ IF e = Pump THEN Report("answered", job[e].c) ELSE UNCHANGED out

CreateBridge(e) ==
  LET c == job[e].c IN
  /\ At(e, "bridge")
  /\ \/ /\ c \notin know.channels \/ know.bridges[c] # NoBridge
        /\ Done(e) /\ UNCHANGED <<bridge, fault>>
     \/ /\ c \in know.channels /\ know.bridges[c] = NoBridge
        /\ \/ Done(e) /\ UNCHANGED <<bridge, fault>>                     \* no bridge
           \/ \E b \in Fresh :
                /\ \A d \in Fresh : b <= d
                /\ bridge' = [bridge EXCEPT ![b] = "open"]
                /\ \/ Done(e) /\ fault' = [fault EXCEPT !.bridges = @ \cup {b}] \* not added
                   \/ /\ Live(c)
                      /\ Set(e, [job[e] EXCEPT !.st = "leg", !.b = b])
                      /\ fault' = [fault EXCEPT !.bridges =
                                    IF SettingUp(c) = {} THEN @ ELSE @ \cup SettingUp(c) \cup {b}]
                      /\ UNCHANGED out
  /\ UNCHANGED <<chan, leg, stream, know, sent>>

OriginateLeg(e) ==
  LET b == job[e].b IN
  /\ At(e, "leg")
  /\ \/ /\ leg' = [leg EXCEPT ![b] = "calling"]
        /\ know' = [know EXCEPT !.operators = @ \cup {b}, !.pending = @ \cup {b},
                                !.bridges[job[e].c] = b]
        /\ UNCHANGED fault
     \/ fault' = [fault EXCEPT !.bridges = @ \cup {b}] /\ UNCHANGED <<leg, know>>
  /\ Done(e)
  /\ UNCHANGED <<chan, bridge, stream, sent>>

-----------------------------------------------------------------------------
(* The commands. One whose id was acknowledged before returns that           *)
(* acknowledgement and does nothing.                                         *)
Repeats(k) == \E h \in Handlers : ~Idle(h) /\ job[h].k = k

(* h takes up command k, which is another go at any command of that id that  *)
(* is under way.                                                             *)
TakesUp(h, k, v, c) ==
  /\ Idle(h) /\ know.seen[k] = "none"
  /\ \A g \in Handlers : ~Idle(g) /\ job[g].k = k => job[g].v = v /\ job[g].c = c
Starting(k) == [fault EXCEPT !.twice = IF Repeats(k) THEN @ \cup {k} ELSE @]

(* What an accepted answer still does: it reports the CALL_ANSWERED that the *)
(* pump swallowed, and bridges the operator.                                 *)
Proceed(h, j, ok) ==
  /\ Set(h, IF ok /\ j.op THEN [j EXCEPT !.st = "bridge"] ELSE Free)
  /\ IF ok /\ j.was THEN Report("answered", j.c) ELSE UNCHANGED out

(* _on_channel up to its request: an id acknowledged by now, a call that is  *)
(* not tracked, or the request.                                              *)
ToChannel(h, j, kn) ==
  \/ kn.seen[j.k] # "none" /\ know' = kn /\ Proceed(h, j, kn.seen[j.k] = "ok")
  \/ /\ kn.seen[j.k] = "none"
     /\ IF j.c \in kn.channels
        THEN know' = kn /\ Set(h, [j EXCEPT !.st = "request"]) /\ UNCHANGED out
        ELSE know' = Acked(kn, j.k, FALSE) /\ Proceed(h, j, FALSE)

(* answer of a call that hears queue music stops that first.                 *)
Answer(h, k, c, op) ==
  LET was == c \in know.ringMoh
      j == Command("stop_moh", c, k, "answer", was, op)
      kn == [know EXCEPT !.ringMoh = @ \ {c}] IN
  /\ TakesUp(h, k, "answer", c) /\ c \in Inbound
  /\ IF was THEN know' = kn /\ Set(h, j) /\ UNCHANGED out ELSE ToChannel(h, j, kn)
  /\ fault' = [Starting(k) EXCEPT !.picked = IF c \in know.channels THEN @ \cup {c} ELSE @]
  /\ UNCHANGED <<chan, leg, bridge, stream, sent>>

StopMoh(h) ==
  /\ At(h, "stop_moh")
  /\ ToChannel(h, job[h], know)
  /\ UNCHANGED <<chan, leg, bridge, stream, sent, fault>>

(* The other commands, by what they do to the channel: hangup and transfer   *)
(* take it from the application, hold, resume and send_dtmf leave it there.  *)
Control(h, k, v, c) ==
  /\ TakesUp(h, k, v, c)
  /\ ToChannel(h, Command("request", c, k, v, FALSE, FALSE), know)
  /\ fault' = Starting(k)
  /\ UNCHANGED <<chan, leg, bridge, stream, sent>>

Hangup(h, k, c) == Control(h, k, "release", c)
Transfer(h, k, c) == Control(h, k, "release", c)
Hold(h, k, c) == Control(h, k, "signal", c)
Resume(h, k, c) == Control(h, k, "signal", c)
SendDtmf(h, k, c) == Control(h, k, "signal", c)

Effect(v, c) ==
  CASE v = "answer" /\ chan[c] = "ring" ->
         chan' = [chan EXCEPT ![c] = "up"] /\ Emit(<<"ChannelStateChange", c>>)
    [] v = "release" ->
         chan' = [chan EXCEPT ![c] = "ending"] /\ Emit(<<"ChannelHangupRequest", c>>)
    [] OTHER -> UNCHANGED <<chan, stream>>

(* The reply: success, or an AriError after the effect or instead of it.     *)
OnChannel(h, ok, done) ==
  LET j == job[h] IN
  /\ At(h, "request")
  /\ ok => done
  /\ done => Live(j.c)
  /\ IF done THEN Effect(j.v, j.c) /\ Count(j.k) ELSE UNCHANGED <<chan, stream, sent>>
  /\ know' = Acked(know, j.k, ok)
  /\ Proceed(h, j, ok)
  /\ fault' = IF ok \/ j.v # "answer" THEN fault ELSE [fault EXCEPT !.refused = @ \cup {j.c}]
  /\ UNCHANGED <<leg, bridge>>

(* dial: the call is tracked once the reply to originate is there.           *)
Dial(h, k, op) ==
  /\ \E c \in Outbound : TakesUp(h, k, "dial", c) /\ Set(h, Command("originate", c, k, "dial", FALSE, op))
  /\ fault' = Starting(k)
  /\ UNCHANGED <<chan, leg, bridge, stream, know, out, sent>>

Originate(h) ==
  LET j == job[h] IN
  /\ At(h, "originate")
  /\ \/ /\ chan[j.c] = "free"
        /\ chan' = [chan EXCEPT ![j.c] = "ring"]
        /\ Count(j.k)
        /\ Set(h, [j EXCEPT !.st = "dialled"])
        /\ UNCHANGED know
     \/ know' = Acked(know, j.k, FALSE) /\ Set(h, Free) /\ UNCHANGED <<chan, sent>>
  /\ UNCHANGED <<leg, bridge, stream, out, fault>>

Dialled(h) ==
  LET j == job[h] IN
  /\ At(h, "dialled")
  /\ know' = [Acked(know, j.k, TRUE) EXCEPT !.channels = @ \cup {j.c},
                !.dialOperator = IF j.op THEN @ \cup {j.c} ELSE @]
  /\ Set(h, Free)
  /\ UNCHANGED <<chan, leg, bridge, stream, out, sent, fault>>

SipNext ==
  \/ Reconnect \/ StartMoh
  \/ \E c \in Calls : \/ Incoming(c) \/ FarAnswer(c) \/ FarHangup(c) \/ Destroyed(c)
                      \/ PumpStart(c) \/ PumpUp(c) \/ PumpEnd(c)
  \/ \E b \in Legs : LegAnswer(b) \/ LegHangup(b) \/ HandleOperatorLeg(b) \/ UnknownLeg(b)
  \/ \E e \in Runners : CreateBridge(e) \/ OriginateLeg(e)
  \/ \E h \in Handlers :
       \/ \E k \in Keys : \/ \E c \in Calls, op \in BOOLEAN : Answer(h, k, c, op)
                          \/ \E c \in Calls : \/ Hangup(h, k, c) \/ Transfer(h, k, c)
                                              \/ Hold(h, k, c) \/ Resume(h, k, c) \/ SendDtmf(h, k, c)
                          \/ \E op \in BOOLEAN : Dial(h, k, op)
       \/ StopMoh(h) \/ Originate(h) \/ Dialled(h)
       \/ \E ok, done \in BOOLEAN : OnChannel(h, ok, done)

SipSpec == SipInit /\ [][SipNext]_sipVars

-----------------------------------------------------------------------------
Quiet == stream = <<>> /\ \A e \in Runners : Idle(e)

(* A call that hears queue music is up for Asterisk before anyone took it.   *)
(* It is reported as answered only after an operator's answer began; an      *)
(* answer that was accepted is reported once everything is at rest, unless   *)
(* an earlier answer of the call failed or the socket dropped; and a command *)
(* takes effect twice only if its id came in twice at once.                  *)
AnswersMatch ==
  /\ \A c \in Inbound :
       /\ c \in Musical /\ <<"answered", c>> \in out => c \in fault.picked
       /\ Quiet /\ ~fault.lost /\ chan[c] = "up" /\ c \in fault.picked \ fault.refused
            => <<"answered", c>> \in out
  /\ \A k \in Keys : sent[k] > 1 => k \in fault.twice

(* _teardown_bridge: at rest, an operator's bridge that is still open        *)
(* belongs to a live call, unless a request about it failed, it was being    *)
(* set up when the call ended or a second time, or the socket dropped.       *)
BridgesReaped ==
  Quiet /\ ~fault.lost =>
    \A b \in Legs \ fault.bridges : bridge[b] = "open" => \E c \in Calls : know.bridges[c] = b /\ Live(c)
=============================================================================
