--------------------------- MODULE EventRegister ---------------------------
(***************************************************************************)
(* What the event repository promises to its clients: an event is one      *)
(* register. Every accepted command is applied, alone and at once, to the  *)
(* value the previous one left, and leaves exactly one entry in the log.   *)
(***************************************************************************)
EXTENDS EventAggregate, Sequences

VARIABLES state, log

Init == state = None /\ log = <<>>

Create ==
  /\ state = None
  /\ \E t \in Texts :
       /\ state' = Created(t)
       /\ log' = <<Emit("EVENT_CREATED", None, t)>>

Apply ==
  /\ state # None
  /\ log' # log            \* implied by the Append, and quick to refute
  /\ \E cmd \in Commands, actor \in Users : \E o \in Mutate(state, cmd, actor) :
       /\ state' = o.agg
       /\ log' = Append(log, o.event)

Next == Create \/ Apply
Spec == Init /\ [][Next]_<<state, log>>
=============================================================================
