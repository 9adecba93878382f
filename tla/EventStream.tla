---------------------------- MODULE EventStream -----------------------------
(***************************************************************************)
(* The domain log as its readers see it: append_event                      *)
(* (infra/event_log.py), event_feed (infra/event_stream.py) behind the SSE *)
(* and WebSocket endpoints, and the client of                              *)
(* apps/web/src/composables/useEventStream.ts.                             *)
(*                                                                         *)
(* event_seq is an identity column: a transaction gets its number when it  *)
(* flushes and becomes visible when it commits, in whatever order          *)
(* concurrent transactions commit. Numbers of rolled-back transactions and *)
(* numbers lost in a failover stay unused.                                 *)
(***************************************************************************)
EXTENDS Naturals, Sequences, FiniteSets, FiniteSetsExt

CONSTANTS
  Txns,     \* write transactions, one event each
  Clients,  \* stream clients
  Batch,    \* _CATCHUP_BATCH (500 in the code)
  MaxGaps,  \* bound: identity values skipped by failovers
  MaxDrops  \* bound: connections that break

ASSUME StreamAssumption ==
  Batch \in Nat \ {0} /\ MaxGaps \in Nat /\ MaxDrops \in Nat

VARIABLES
  nextSeq,  \* the identity counter
  seq,      \* seq[t]: the event_seq of transaction t, 0 before the flush
  txn,      \* txn[t]: "new", "open", "committed" or "rolledback"
  conn,     \* conn[c]: where event_feed is: off, read, head or wait
  last,     \* the cursor of event_feed for c
  caughtUp, \* event_feed has sent its CatchUpComplete
  wire,     \* frames on their way to c
  lastSeq,  \* the client's own cursor
  got,      \* event_seqs the client has processed, oldest first
  claimed,  \* clients told of a head that they had not been sent
  late,     \* auxiliary: commits behind a higher one, or in the head window
  gaps, drops

writers == <<nextSeq, seq, txn, gaps, late>>
readers == <<conn, last, caughtUp, wire, lastSeq, got, claimed, drops>>
vars == <<writers, readers>>

Frame == [kind : {"event", "caught_up"}, seq : Nat]

TypeOK ==
  /\ nextSeq \in Nat
  /\ seq \in [Txns -> Nat]
  /\ txn \in [Txns -> {"new", "open", "committed", "rolledback"}]
  /\ conn \in [Clients -> {"off", "read", "head", "wait"}]
  /\ last \in [Clients -> Nat]
  /\ caughtUp \in [Clients -> BOOLEAN]
  /\ wire \in [Clients -> Seq(Frame)]
  /\ lastSeq \in [Clients -> Nat]
  /\ got \in [Clients -> Seq(Nat)]
  /\ claimed \in SUBSET Clients
  /\ late \in SUBSET Txns
  /\ gaps \in Nat /\ drops \in Nat

Init ==
  /\ nextSeq = 1
  /\ seq = [t \in Txns |-> 0] /\ txn = [t \in Txns |-> "new"]
  /\ conn = [c \in Clients |-> "off"] /\ last = [c \in Clients |-> 0]
  /\ caughtUp = [c \in Clients |-> FALSE] /\ wire = [c \in Clients |-> <<>>]
  /\ lastSeq = [c \in Clients |-> 0] /\ got = [c \in Clients |-> <<>>]
  /\ claimed = {}
  /\ late = {} /\ gaps = 0 /\ drops = 0

Committed == {t \in Txns : txn[t] = "committed"}
Visible == {seq[t] : t \in Committed}

-----------------------------------------------------------------------------
(* append_event: the flush assigns event_seq inside the open transaction.    *)
AppendEvent(t) ==
  /\ txn[t] = "new"
  /\ txn' = [txn EXCEPT ![t] = "open"]
  /\ seq' = [seq EXCEPT ![t] = nextSeq]
  /\ nextSeq' = nextSeq + 1
  /\ UNCHANGED <<gaps, late, readers>>

(* The commit makes the row visible; notify_event_appended wakes whichever   *)
(* waiting feeds of this node it reaches.                                    *)
Commit(t) ==
  /\ txn[t] = "open"
  /\ txn' = [txn EXCEPT ![t] = "committed"]
  /\ late' = IF (\E s \in Visible : s > seq[t]) \/ (\E c \in Clients : conn[c] = "head")
             THEN late \cup {t} ELSE late
  /\ \E S \in SUBSET {c \in Clients : conn[c] = "wait"} :
       conn' = [c \in Clients |-> IF c \in S THEN "read" ELSE conn[c]]
  /\ UNCHANGED <<nextSeq, seq, gaps, last, caughtUp, wire, lastSeq, got, claimed, drops>>

Rollback(t) ==
  /\ txn[t] = "open"
  /\ txn' = [txn EXCEPT ![t] = "rolledback"]
  /\ UNCHANGED <<nextSeq, seq, gaps, late, readers>>

(* A promoted node resumes numbering past unused values.                     *)
Failover ==
  /\ gaps < MaxGaps
  /\ gaps' = gaps + 1 /\ nextSeq' = nextSeq + 1
  /\ UNCHANGED <<seq, txn, late, readers>>

-----------------------------------------------------------------------------
(* read_since: WHERE event_seq > last ORDER BY event_seq LIMIT Batch. There  *)
(* is one such list of the rows behind the cursor.                           *)
Limited(behind) ==
  {rows \in UNION {[1 .. n -> behind] : n \in 0 .. Batch} :
     /\ \A i, j \in DOMAIN rows : i < j => rows[i] < rows[j]
     /\ \A i \in DOMAIN rows, s \in behind \ Range(rows) : rows[i] < s
     /\ Len(rows) = Batch \/ Range(rows) = behind}

RowsFrom(c) == Limited({s \in Visible : s >= last[c]})               \* mutant
ReadSince(c) == Limited({s \in Visible : s > last[c]})

(* head_seq: the highest visible event_seq, 0 on an empty log.               *)
HeadSeq == Max(Visible \cup {0})

EventFrames(rows) == [i \in DOMAIN rows |-> [kind |-> "event", seq |-> rows[i]]]

(* connect: the client asks for everything behind its own cursor.            *)
Connect(c) ==
  /\ conn[c] = "off"
  /\ conn' = [conn EXCEPT ![c] = "read"]
  /\ last' = [last EXCEPT ![c] = lastSeq[c]]
  /\ caughtUp' = [caughtUp EXCEPT ![c] = FALSE]
  /\ UNCHANGED <<writers, wire, lastSeq, got, claimed, drops>>

(* One turn of event_feed's loop up to read_since and the frames it yields;  *)
(* an empty result leads to head_seq once, later to the wait.                *)
Read(c) ==
  /\ conn[c] = "read"
  /\ \E rows \in ReadSince(c) :
       IF rows # <<>>
       THEN /\ wire' = [wire EXCEPT ![c] = @ \o EventFrames(rows)]
            /\ last' = [last EXCEPT ![c] = rows[Len(rows)]]
            /\ UNCHANGED conn
       ELSE /\ conn' = [conn EXCEPT ![c] = IF caughtUp[c] THEN "wait" ELSE "head"]
            /\ UNCHANGED <<wire, last>>
  /\ UNCHANGED <<writers, caughtUp, lastSeq, got, claimed, drops>>

(* The backlog was drained: head_seq, in a later statement than read_since,  *)
(* moves the cursor and becomes the CatchUpComplete frame.                   *)
CatchUp(c) ==
  /\ conn[c] = "head"
  /\ LET head == Max({last[c], HeadSeq})
     IN /\ last' = [last EXCEPT ![c] = head]
        /\ wire' = [wire EXCEPT ![c] = Append(@, [kind |-> "caught_up", seq |-> head])]
  /\ caughtUp' = [caughtUp EXCEPT ![c] = TRUE]
  /\ conn' = [conn EXCEPT ![c] = "wait"]
  /\ UNCHANGED <<writers, lastSeq, got, claimed, drops>>

(* broker.wait returns: at the latest after _POLL_SECONDS.                   *)
PollNever(c) == FALSE                                                \* mutant
PollTimeout(c) == conn[c] = "wait"

Wake(c) ==
  /\ PollTimeout(c)
  /\ conn' = [conn EXCEPT ![c] = "read"]
  /\ UNCHANGED <<writers, last, caughtUp, wire, lastSeq, got, claimed, drops>>

(* handleFrame: the client takes the next frame; events move its cursor, a   *)
(* caught_up only its status.                                                *)
CursorAfter(c, f) == Max({lastSeq[c], f.seq})

Receive(c) ==
  /\ wire[c] # <<>>
  /\ wire' = [wire EXCEPT ![c] = Tail(@)]
  /\ LET f == wire[c][1]
     IN IF f.kind = "event"
        THEN /\ got' = [got EXCEPT ![c] = Append(@, f.seq)]
             /\ lastSeq' = [lastSeq EXCEPT ![c] = CursorAfter(c, f)]
             /\ UNCHANGED claimed
        ELSE /\ claimed' = IF f.seq \in Range(got[c]) \cup {0} THEN claimed ELSE claimed \cup {c}
             /\ UNCHANGED <<got, lastSeq>>
  /\ UNCHANGED <<writers, conn, last, caughtUp, drops>>

(* onerror: the connection or its node is gone, with the frames in flight.   *)
Drop(c) ==
  /\ conn[c] # "off" /\ drops < MaxDrops
  /\ drops' = drops + 1
  /\ conn' = [conn EXCEPT ![c] = "off"]
  /\ wire' = [wire EXCEPT ![c] = <<>>]
  /\ UNCHANGED <<writers, last, caughtUp, lastSeq, got, claimed>>

Next ==
  \/ \E t \in Txns : AppendEvent(t) \/ Commit(t) \/ Rollback(t)
  \/ Failover
  \/ \E c \in Clients : Connect(c) \/ Read(c) \/ CatchUp(c) \/ Wake(c) \/ Receive(c) \/ Drop(c)

Spec == Init /\ [][Next]_vars

(* A client reconnects when its timer fires, a feed on a live node keeps     *)
(* running, and what is on an intact connection arrives.                     *)
Fairness ==
  \A c \in Clients : /\ WF_vars(Connect(c)) /\ WF_vars(Read(c)) /\ WF_vars(CatchUp(c))
                     /\ WF_vars(Wake(c)) /\ WF_vars(Receive(c))
FairSpec == Spec /\ Fairness

-----------------------------------------------------------------------------
(* Across reconnects, gaps and batches a client sees every event_seq at most *)
(* once and in order.                                                        *)
InOrderOnce ==
  \A c \in Clients : \A i, j \in 1..Len(got[c]) : i < j => got[c][i] < got[c][j]

(* An event a cursor has passed without sending it committed late: behind a  *)
(* higher event_seq, or between the empty read and head_seq. Every other     *)
(* committed event is with the client, on the wire, or still ahead.          *)
LossOnlyLate ==
  \A c \in Clients, t \in Committed \ late :
    \/ seq[t] \in Range(got[c])
    \/ \E i \in 1..Len(wire[c]) : wire[c][i] = [kind |-> "event", seq |-> seq[t]]
    \/ seq[t] > (IF conn[c] = "off" THEN lastSeq[c] ELSE last[c])

(* What a client has been given, in one piece: in order, once, and complete  *)
(* but for the events that committed late.                                   *)
DeliveryIsSound == InOrderOnce /\ LossOnlyLate

(* An event that did not commit late reaches every client, whatever drops    *)
(* and lost wake-ups happen (event_stream.py: "a missed notification is      *)
(* caught by the next poll").                                                *)
PromptArrives ==
  \A c \in Clients, t \in Txns :
    (txn[t] = "committed" /\ t \notin late) ~> (seq[t] \in Range(got[c]))

(* docs/client-catchup.md: every committed event is delivered.               *)
CommittedArrives ==
  \A c \in Clients, t \in Txns : (txn[t] = "committed") ~> (seq[t] \in Range(got[c]))

=============================================================================
