--------------------------- MODULE OutboxContract ---------------------------
(***************************************************************************)
(* What the outbox promises its callers, without dispatchers, locks or     *)
(* attempts: an action is accepted once, is sent only while it is pending, *)
(* and is reported dispatched only after it was really sent at least once. *)
(* That is at-least-once delivery with a final verdict.                    *)
(***************************************************************************)
EXTENDS Naturals

CONSTANT Keys

VARIABLES
  phase,  \* absent, pending, dispatched or failed
  sent    \* how often the action reached the outside world

vars == <<phase, sent>>

Init ==
  /\ phase = [k \in Keys |-> "absent"]
  /\ sent = [k \in Keys |-> 0]

Accept(k) ==
  /\ phase[k] = "absent"
  /\ phase' = [phase EXCEPT ![k] = "pending"]
  /\ UNCHANGED sent

Send(k) ==
  /\ phase[k] = "pending"
  /\ sent' = [sent EXCEPT ![k] = @ + 1]
  /\ UNCHANGED phase

Dispatch(k) ==
  /\ phase[k] = "pending" /\ sent[k] > 0
  /\ phase' = [phase EXCEPT ![k] = "dispatched"]
  /\ UNCHANGED sent

GiveUp(k) ==
  /\ phase[k] = "pending"
  /\ phase' = [phase EXCEPT ![k] = "failed"]
  /\ UNCHANGED sent

Next == \E k \in Keys : Accept(k) \/ Send(k) \/ Dispatch(k) \/ GiveUp(k)

Spec == Init /\ [][Next]_vars
=============================================================================
