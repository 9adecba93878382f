------------------------------ MODULE DoorOpen ------------------------------
(***************************************************************************)
(* One door-open command (infra/repositories/door_open.py): an operator's  *)
(* X-Command-Id, sent once or several times, to one node or the other. An  *)
(* attempt claims the idempotency slot (infra/idempotency.py) and the      *)
(* command's door_open_commands row, drives the telephony provider and     *)
(* records the outcome. Every database step is a transaction of its own,   *)
(* and every call of the provider happens between two of them.             *)
(***************************************************************************)
EXTENDS Naturals, FiniteSets

CONSTANTS
  Attempts,   \* sendings of the command that can be in flight
  Nodes,      \* the nodes that serve them, each with its provider instance
  MaxSends,   \* bound: how often the client sends
  MaxFaults,  \* bound: node crashes and cancelled requests
  None        \* no row, no outcome, no node

Outcomes == {"opened", "caller_gone", "media_timeout", "no_dtmf_capability", "no_profile",
             "provider_error", "telephony_unavailable", "answer_forbidden"}
Flow == {"requested", "answering", "connecting", "dtmf_sent", "completing"}
States == Flow \cup {"done", "failed", "timed_out"}

VARIABLES
  slot,      \* the commands row: "free", "pending", or the stored outcome
  row,       \* the door_open_commands row
  call,      \* the doorbell call at the provider
  seen,      \* seen[n]: the DTMF command is acknowledged in node n's provider
  opens,     \* how often the DTMF sequence has gone out
  audits,    \* <<DOOR_OPEN_REQUESTED, DOOR_OPEN_RESULT>> rows
  answers,   \* the outcomes the client has been answered
  pc, node, outcome,   \* of an attempt
  sends, faults

vars == <<slot, row, call, seen, opens, audits, answers, pc, node, outcome, sends, faults>>
provider == <<call, seen, opens>>
store == <<slot, row, audits>>
budget == <<sends, faults>>

Steps == {"idle", "claim", "row", "drive", "answer", "await", "check", "send", "mark",
          "cleanup", "finish", "complete"}

TypeOK ==
  /\ slot \in {"free", "pending"} \cup Outcomes
  /\ row \in [state : States, outcome : Outcomes \cup {None}, sent : BOOLEAN] \cup {None}
  /\ call \in {"ringing", "connected", "ended"}
  /\ seen \in [Nodes -> BOOLEAN] /\ opens \in Nat
  /\ audits \in Nat \X Nat /\ answers \subseteq Outcomes
  /\ pc \in [Attempts -> Steps]
  /\ node \in [Attempts -> Nodes \cup {None}]
  /\ outcome \in [Attempts -> Outcomes \cup {None}]
  /\ sends \in 0 .. MaxSends /\ faults \in 0 .. MaxFaults

Init ==
  /\ slot = "free" /\ row = None /\ call = "ringing"
  /\ seen = [n \in Nodes |-> FALSE] /\ opens = 0
  /\ audits = <<0, 0>> /\ answers = {}
  /\ pc = [a \in Attempts |-> "idle"] /\ node = [a \in Attempts |-> None]
  /\ outcome = [a \in Attempts |-> None]
  /\ sends = 0 /\ faults = 0

-----------------------------------------------------------------------------
Goto(a, step) == pc' = [pc EXCEPT ![a] = step] /\ UNCHANGED <<node, outcome>>
Decide(a, o) ==
  pc' = [pc EXCEPT ![a] = "finish"] /\ outcome' = [outcome EXCEPT ![a] = o] /\ UNCHANGED node
Leave(a) ==
  /\ pc' = [pc EXCEPT ![a] = "idle"] /\ node' = [node EXCEPT ![a] = None]
  /\ outcome' = [outcome EXCEPT ![a] = None]

(* open_door: the client sends the command, to any node.                     *)
Send(a, n) ==
  /\ pc[a] = "idle" /\ sends < MaxSends
  /\ sends' = sends + 1 /\ pc' = [pc EXCEPT ![a] = "claim"] /\ node' = [node EXCEPT ![a] = n]
  /\ UNCHANGED <<provider, store, answers, outcome, faults>>

(* IdempotencyStore.claim: run, replay the stored result, or 409.            *)
ClaimPending(s) == s \in {"free", "pending"}                         \* mutant
CanClaim(s) == s = "free"

Claim(a) ==
  /\ pc[a] = "claim"
  /\ \/ CanClaim(slot) /\ slot' = "pending" /\ Goto(a, "row") /\ UNCHANGED answers
     \/ ~CanClaim(slot) /\ Leave(a) /\ UNCHANGED slot
        /\ answers' = answers \cup ({slot} \cap Outcomes)
  /\ UNCHANGED <<provider, row, audits, budget>>

(* The endpoint is not (or no longer) a door station, or the key is missing: *)
(* the slot is given up.                                                     *)
Reject(a) ==
  /\ pc[a] = "row" /\ slot' = "free" /\ Leave(a)
  /\ UNCHANGED <<provider, row, audits, answers, budget>>

(* The claim of the row: created and audited, resumed, or finished already.  *)
(* Without a usable profile there is no sequence to send.                    *)
Requested == [state |-> "requested", outcome |-> None, sent |-> FALSE]
ClaimRow(a, profile) ==
  /\ pc[a] = "row"
  /\ IF row = None
     THEN row' = Requested /\ audits' = <<audits[1] + 1, audits[2]>>
     ELSE UNCHANGED <<row, audits>>
  /\ IF row # None /\ row.outcome # None
     THEN /\ pc' = [pc EXCEPT ![a] = "complete"]
          /\ outcome' = [outcome EXCEPT ![a] = row.outcome] /\ UNCHANGED node
     ELSE IF profile THEN Goto(a, "drive") ELSE Decide(a, "no_profile")
  /\ UNCHANGED <<provider, slot, answers, budget>>

SetState(s) == row' = [row EXCEPT !.state = s]

(* _drive: no provider, or one that cannot send DTMF.                        *)
Unavailable(a) ==
  /\ pc[a] = "drive" /\ \E o \in {"telephony_unavailable", "no_dtmf_capability"} : Decide(a, o)
  /\ UNCHANGED <<provider, store, answers, budget>>

(* _snapshot of the call, and the answer when it still rings.                *)
Snapshot(a, mayAnswer) ==
  /\ pc[a] = "drive"
  /\ \/ call = "ended" /\ Decide(a, "caller_gone") /\ UNCHANGED row
     \/ call = "ringing" /\ ~mayAnswer /\ Decide(a, "answer_forbidden") /\ UNCHANGED row
     \/ call = "ringing" /\ mayAnswer /\ SetState("answering") /\ Goto(a, "answer")
     \/ call = "connected" /\ SetState("connecting") /\ Goto(a, "await")
  /\ UNCHANGED <<provider, slot, audits, answers, budget>>

(* provider.answer: media may come up now, later or never.                   *)
Answer(a) ==
  /\ pc[a] = "answer" /\ SetState("connecting") /\ Goto(a, "await")
  /\ call' \in IF call = "ringing" THEN {"ringing", "connected"} ELSE {call}
  /\ UNCHANGED <<seen, opens, slot, audits, answers, budget>>

(* _await_connected: one poll that ends the wait; the deadline may come in    *)
(* any state that is neither connected nor ended.                            *)
NoDeadline(c) == FALSE                                               \* mutant
TimesOut(c) == c = "ringing"

Await(a) ==
  /\ pc[a] = "await"
  /\ \/ call = "connected" /\ Goto(a, "check")
     \/ call = "ended" /\ Decide(a, "caller_gone")
     \/ TimesOut(call) /\ Decide(a, "media_timeout")
  /\ UNCHANGED <<provider, store, answers, budget>>

(* Already sent by an earlier attempt?                                       *)
AlreadySent(r) == r.sent

Check(a) ==
  /\ pc[a] = "check" /\ Goto(a, IF AlreadySent(row) THEN "cleanup" ELSE "send")
  /\ UNCHANGED <<provider, store, answers, budget>>

(* provider.send_dtmf: a command id this instance has acknowledged is not    *)
(* emitted again. A refusal is acknowledged too, and not looked at.          *)
SendDtmf(a) ==
  /\ pc[a] = "send" /\ Goto(a, "mark")
  /\ seen' = [seen EXCEPT ![node[a]] = TRUE]
  /\ opens' \in IF seen[node[a]] THEN {opens} ELSE {opens, opens + 1}
  /\ UNCHANGED <<call, store, answers, budget>>

(* Any exception up to here, from the provider or from the database, is      *)
(* taken for a fault before the DTMF.                                        *)
Fault(a) ==
  /\ pc[a] \in {"drive", "answer", "await", "check", "send", "mark"}
  /\ Decide(a, "provider_error")
  /\ UNCHANGED <<provider, store, answers, budget>>

MarkSent(r) == [state |-> "dtmf_sent", outcome |-> r.outcome, sent |-> TRUE]

Mark(a) ==
  /\ pc[a] = "mark" /\ row' = MarkSent(row) /\ Goto(a, "cleanup")
  /\ UNCHANGED <<provider, slot, audits, answers, budget>>

(* The delay and the hangup, which may fail; the outcome is settled.         *)
Cleanup(a, autoHangup) ==
  /\ pc[a] = "cleanup" /\ Decide(a, "opened")
  /\ IF autoHangup
     THEN row' \in {row, [row EXCEPT !.state = "completing"]} /\ call' \in {call, "ended"}
     ELSE UNCHANGED <<row, call>>
  /\ UNCHANGED <<seen, opens, slot, audits, answers, budget>>

(* _TERMINAL_STATE, and the transaction that records and audits the outcome. *)
TerminalState(o) ==
  IF o = "opened" THEN "done" ELSE IF o = "media_timeout" THEN "timed_out" ELSE "failed"

Finish(a) ==
  /\ pc[a] = "finish" /\ Goto(a, "complete")
  /\ row' = [state |-> TerminalState(outcome[a]), outcome |-> outcome[a], sent |-> row.sent]
  /\ audits' = <<audits[1], audits[2] + 1>>
  /\ UNCHANGED <<provider, slot, answers, budget>>

(* IdempotencyStore.complete and the answer.                                 *)
Complete(a) ==
  /\ pc[a] = "complete" /\ slot' = outcome[a] /\ answers' = answers \cup {outcome[a]} /\ Leave(a)
  /\ UNCHANGED <<provider, row, audits, budget>>

-----------------------------------------------------------------------------
Working(a) == pc[a] \notin {"idle", "claim"}

(* A request that is cancelled, or whose database fails it outside _drive,   *)
(* abandons its slot on the way out; a send under way may have reached the   *)
(* gateway without being acknowledged.                                       *)
Cancel(a) ==
  /\ Working(a) /\ faults < MaxFaults
  /\ faults' = faults + 1 /\ slot' = "free" /\ Leave(a)
  /\ opens' \in IF pc[a] = "send" /\ ~seen[node[a]] THEN {opens, opens + 1} ELSE {opens}
  /\ UNCHANGED <<call, seen, row, audits, answers, sends>>

(* A node dies with its attempts and its provider's memory; their slot stays *)
(* pending.                                                                  *)
Crash(n) ==
  LET gone == {a \in Attempts : node[a] = n}
  IN /\ gone # {} /\ faults < MaxFaults
     /\ faults' = faults + 1
     /\ seen' = [seen EXCEPT ![n] = FALSE]
     /\ pc' = [a \in Attempts |-> IF a \in gone THEN "idle" ELSE pc[a]]
     /\ node' = [a \in Attempts |-> IF a \in gone THEN None ELSE node[a]]
     /\ outcome' = [a \in Attempts |-> IF a \in gone THEN None ELSE outcome[a]]
     /\ UNCHANGED <<call, opens, store, answers, sends>>

(* purge_stale of a pending slot no attempt works under any more.            *)
Purge ==
  /\ slot = "pending" /\ \A a \in Attempts : ~Working(a)
  /\ slot' = "free"
  /\ UNCHANGED <<provider, row, audits, answers, pc, node, outcome, budget>>

(* The visitor leaves, or media comes up after the answer.                   *)
CallMoves ==
  /\ \/ call # "ended" /\ call' = "ended"
     \/ call = "ringing" /\ row # None /\ row.state # "requested" /\ call' = "connected"
  /\ UNCHANGED <<seen, opens, store, answers, pc, node, outcome, budget>>

Work(a) ==
  \/ Claim(a) \/ Reject(a) \/ Unavailable(a) \/ Answer(a) \/ Await(a) \/ Check(a)
  \/ SendDtmf(a) \/ Mark(a) \/ Finish(a) \/ Complete(a)
  \/ \E b \in BOOLEAN : ClaimRow(a, b) \/ Snapshot(a, b) \/ Cleanup(a, b)

Next ==
  \/ \E a \in Attempts : Work(a) \/ Fault(a) \/ Cancel(a) \/ \E n \in Nodes : Send(a, n)
  \/ \E n \in Nodes : Crash(n)
  \/ Purge \/ CallMoves

Spec == Init /\ [][Next]_vars
FairSpec == Spec /\ \A a \in Attempts : WF_vars(Work(a))

-----------------------------------------------------------------------------
(* The idempotency slot admits one attempt to the row and the provider.      *)
OneAttemptWorks == \A a, b \in Attempts : Working(a) /\ Working(b) => a = b

(* Only a node that dies, or a request that is cancelled, can cost a second  *)
(* sequence, and each costs at most one.                                     *)
OpensBounded == opens <= 1 + faults

(* One sending of the command drives the door at a time, and the number of   *)
(* openings is accounted for.                                                *)
OneDriver == OneAttemptWorks /\ OpensBounded

(* The wait for media is bounded, so every request is answered.              *)
RequestsEnd == \A a \in Attempts : pc[a] # "idle" ~> pc[a] = "idle"
=============================================================================
