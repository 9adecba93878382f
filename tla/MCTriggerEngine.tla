--------------------------- MODULE MCTriggerEngine --------------------------
(* A panic rule with the full action chain and one malformed action, and a   *)
(* door rule that breaks. "traffic" is chosen at the start: in "race" two    *)
(* nodes and the rule's author work on one alarm; in "drain" one node works  *)
(* off different signals while an operator starts workflows by hand.         *)
EXTENDS TriggerEngine

VARIABLE traffic

TwoRules == <<"panic", "door">>
TwoScripts == [r \in {"panic", "door"} |->
                 IF r = "panic" THEN <<"create_event", "malformed", "attach_workflow", "enqueue">>
                 ELSE <<"malformed", "popup", "broken">>]
TwoMatches == [r \in {"panic", "door"} |-> IF r = "panic" THEN {"alarm"} ELSE {"ring"}]

Race == INSTANCE TriggerEngine WITH Signals <- {"alarm"}, Rules <- <<"panic">>, Operators <- {}
Drain == INSTANCE TriggerEngine WITH Workers <- {"n1"}, MaxVersion <- 1

MCInit == Init /\ traffic \in {"race", "drain"}

MCNext ==
  /\ \/ traffic = "race" /\ Race!Next
     \/ traffic = "drain" /\ Drain!Next
  /\ UNCHANGED traffic

MCSpec ==
  /\ MCInit /\ [][MCNext]_<<vars, traffic>>
  /\ WF_<<vars, traffic>>(traffic = "drain" /\ Drain!WorkerStep("n1") /\ UNCHANGED traffic)

(* resume_unprocessed: every queued signal that no raising action holds up   *)
(* is processed in the end.                                                  *)
QueueIsDrained == traffic = "drain" => EverySignalProcessed
=============================================================================
