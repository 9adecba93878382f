------------------------------ MODULE MCOutbox ------------------------------
(* What the platform does outside its database, each thing at most once: the *)
(* outbox dispatcher and the door-open command. They share no state, so one  *)
(* moves while the other stays in its initial state; "part" is chosen at the *)
(* start. Two workers deliver three keys, one of them a camera action and    *)
(* one without a handler; one door command is sent up to MaxSends times.     *)
EXTENDS Outbox

CONSTANTS k1, k2, k3, w1, w2, Attempts, Nodes, MaxSends, MaxFaults

VARIABLES part, slot, command, call, seen, opens, audits, answers, step, node, outcome,
          sends, faults

AllKeys == {k1, k2, k3}
TwoWorkers == {w1, w2}
CameraKeys == {k1}
UnknownKeys == {k3}

Door == INSTANCE DoorOpen WITH row <- command, pc <- step

doorVars == <<slot, command, call, seen, opens, audits, answers, step, node, outcome,
              sends, faults>>
allVars == <<part, vars, doorVars>>

MCInit == Init /\ Door!Init /\ part \in {"outbox", "door"}

MCNext ==
  /\ \/ part = "outbox" /\ Next /\ UNCHANGED doorVars
     \/ part = "door" /\ Door!Next /\ UNCHANGED vars
  /\ UNCHANGED part

OutboxStep(A) == part = "outbox" /\ A /\ UNCHANGED <<part, doorVars>>
DoorStep(A) == part = "door" /\ A /\ UNCHANGED <<part, vars>>

(* The fairness of Outbox and of DoorOpen: loops run, backoffs elapse, and a *)
(* request that is served takes its next step.                               *)
MCSpec ==
  /\ MCInit /\ [][MCNext]_allVars
  /\ \A k \in Keys : WF_allVars(OutboxStep(BecomeDue(k)))
  /\ \A w \in Workers : WF_allVars(OutboxStep(WorkerStep(w)))
  /\ \A a \in Attempts : WF_allVars(DoorStep(Door!Work(a)))

(* The idempotency slot of execute admits one attempt at a time to the row   *)
(* and the provider, so that only a node that dies or a request that is      *)
(* cancelled can cost a second DTMF sequence, and each at most one.          *)
OneDriver == Door!OneDriver /\ Door!OpensBounded

(* The wait for media is bounded: every door-open request is answered.       *)
RequestsEnd == Door!RequestsEnd
=============================================================================
