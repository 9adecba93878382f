------------------------------- MODULE Outbox -------------------------------
(***************************************************************************)
(* The transactional outbox and its dispatcher                             *)
(* (server/bbz_core/infra/outbox.py, workers/outbox_dispatcher.py).        *)
(*                                                                         *)
(* A row of external_action_outbox is keyed by its UNIQUE dedupe_key.      *)
(* Several dispatchers may run at once: SingletonLease shows that the      *)
(* lease does not exclude an overlap, so nothing here relies on it.        *)
(* PostgreSQL is READ COMMITTED; a transaction that is cut off (crash,     *)
(* cancellation, failed commit) rolls back and drops its row lock, but     *)
(* what its handler did outside the database stays done.                   *)
(***************************************************************************)
EXTENDS Naturals, FiniteSets, Sequences

CONSTANTS
  Keys,         \* dedupe keys that callers enqueue
  Workers,      \* dispatchers, one per application node
  NoHandler,    \* keys whose action_type has no registered handler
  Camera,       \* keys of camera actions that carry an event_id
  MaxAttempts,  \* MAX_ATTEMPTS (8 in the code)
  Limit,        \* the batch limit of run_once (20 in the code)
  MaxCrashes,   \* bound: transactions cut off between handler and commit
  None          \* no worker holds the row lock

ASSUME OutboxAssumption ==
  /\ NoHandler \subseteq Keys
  /\ Camera \subseteq Keys
  /\ MaxAttempts \in Nat \ {0}
  /\ Limit \in Nat \ {0}
  /\ MaxCrashes \in Nat
  /\ None \notin Workers

VARIABLES
  row,        \* row[k]: status ("absent" before enqueue), attempts, due
  lock,       \* the worker whose _process_one holds k FOR UPDATE
  pc,         \* where a worker is inside _process_one
  batch,      \* the ids run_once has claimed and not processed yet
  delivered,  \* how many handler runs for k returned normally
  audit,      \* audit actions written for k, oldest first
  note,       \* camera domain events appended for k
  crashes     \* how many transactions were cut off so far

vars == <<row, lock, pc, batch, delivered, audit, note, crashes>>

Statuses == {"absent", "pending", "dispatched", "failed"}
Terminal == {"dispatched", "failed"}
Row == [status : Statuses, attempts : Nat, due : BOOLEAN]

TypeOK ==
  /\ row \in [Keys -> Row]
  /\ lock \in [Keys -> Workers \cup {None}]
  /\ pc \in [Workers -> {"ready", "handling", "returned", "raised"}]
  /\ batch \in [Workers -> SUBSET Keys]
  /\ delivered \in [Keys -> Nat]
  /\ audit \in [Keys -> Seq({"DISPATCHED", "FAILED"})]
  /\ note \in [Keys -> SUBSET {"CAMERA_OPENED", "CAMERA_ACTION_FAILED"}]
  /\ crashes \in Nat

Init ==
  /\ row = [k \in Keys |-> [status |-> "absent", attempts |-> 0, due |-> FALSE]]
  /\ lock = [k \in Keys |-> None]
  /\ pc = [w \in Workers |-> "ready"]
  /\ batch = [w \in Workers |-> {}]
  /\ delivered = [k \in Keys |-> 0]
  /\ audit = [k \in Keys |-> <<>>]
  /\ note = [k \in Keys |-> {}]
  /\ crashes = 0

-----------------------------------------------------------------------------
(* enqueue: INSERT ... ON CONFLICT (dedupe_key) DO NOTHING in the caller's   *)
(* transaction; a second enqueue of the key changes nothing.                 *)
Enqueue(k) ==
  /\ row[k].status = "absent"
  /\ row' = [row EXCEPT ![k] = [status |-> "pending", attempts |-> 0, due |-> TRUE]]
  /\ UNCHANGED <<lock, pc, batch, delivered, audit, note, crashes>>

(* The backoff of mark_retry has elapsed: next_attempt_at <= now.            *)
BecomeDue(k) ==
  /\ row[k].status = "pending" /\ ~row[k].due
  /\ row' = [row EXCEPT ![k].due = TRUE]
  /\ UNCHANGED <<lock, pc, batch, delivered, audit, note, crashes>>

Due == {k \in Keys : row[k].status = "pending" /\ row[k].due /\ lock[k] = None}

(* claim_due: due pending rows that nobody has locked, at most Limit of      *)
(* them. The claiming transaction commits at once, so it keeps no lock.      *)
ClaimDue(w) ==
  /\ pc[w] = "ready" /\ batch[w] = {} /\ Due # {}
  /\ \E S \in SUBSET Due :
       /\ IF Cardinality(Due) <= Limit THEN S = Due ELSE Cardinality(S) = Limit
       /\ batch' = [batch EXCEPT ![w] = S]
  /\ UNCHANGED <<row, lock, pc, delivered, audit, note, crashes>>

MarkRetryUncounted(r) == [r EXCEPT !.due = FALSE]       \* mutant
AnyStatus(k) == TRUE                                    \* mutant
NoAudit(k, what) == audit' = audit                      \* mutant

MarkDispatched(r) == [status |-> "dispatched", attempts |-> r.attempts + 1, due |-> r.due]
MarkRetry(r) == [status |-> r.status, attempts |-> r.attempts + 1, due |-> FALSE]
MarkFailed(r) == [status |-> "failed", attempts |-> r.attempts + 1, due |-> r.due]

Exhausted(r) == r.attempts + 1 >= MaxAttempts
StillPending(k) == row[k].status = "pending"
CanLock(k) == lock[k] = None
Audit(k, what) == audit' = [audit EXCEPT ![k] = Append(@, what)]

(* _process_one up to the handler call: SELECT ... FOR UPDATE waits for the  *)
(* lock, then re-checks the status of the row it got.                        *)
ProcessOne(w, k) ==
  /\ pc[w] = "ready" /\ k \in batch[w] /\ CanLock(k)
  /\ batch' = [batch EXCEPT ![w] = @ \ {k}]
  /\ \/ /\ ~StillPending(k)
        /\ UNCHANGED <<row, lock, pc, audit>>
     \/ /\ StillPending(k) /\ k \in NoHandler
        /\ row' = [row EXCEPT ![k] = MarkFailed(@)]
        /\ Audit(k, "FAILED")
        /\ UNCHANGED <<lock, pc>>
     \/ /\ StillPending(k) /\ k \notin NoHandler
        /\ lock' = [lock EXCEPT ![k] = w]
        /\ pc' = [pc EXCEPT ![w] = "handling"]
        /\ UNCHANGED <<row, audit>>
  /\ UNCHANGED <<delivered, note, crashes>>

(* The handler returns: its side effect has happened.                        *)
HandlerReturns(w, k) ==
  /\ lock[k] = w /\ pc[w] = "handling"
  /\ pc' = [pc EXCEPT ![w] = "returned"]
  /\ delivered' = [delivered EXCEPT ![k] = @ + 1]
  /\ UNCHANGED <<row, lock, batch, audit, note, crashes>>

HandlerRaisesSwallowed(w, k) ==                        \* mutant
  /\ lock[k] = w /\ pc[w] = "handling"
  /\ pc' = [pc EXCEPT ![w] = "returned"]
  /\ UNCHANGED <<row, lock, batch, delivered, audit, note, crashes>>

(* The handler raises; a failure that reached the provider first is the same *)
(* as HandlerReturns followed by Crash for everything stated below.          *)
HandlerRaises(w, k) ==
  /\ lock[k] = w /\ pc[w] = "handling"
  /\ pc' = [pc EXCEPT ![w] = "raised"]
  /\ UNCHANGED <<row, lock, batch, delivered, audit, note, crashes>>

(* The transaction of _process_one commits and its row lock goes away.       *)
Release(w, k) ==
  /\ lock' = [lock EXCEPT ![k] = None]
  /\ pc' = [pc EXCEPT ![w] = "ready"]
  /\ UNCHANGED <<batch, delivered, crashes>>

(* _on_camera_dispatched and _on_terminal_failure are best effort: an        *)
(* append_event that raises is swallowed.                                    *)
CameraNote(k, what) ==
  \/ note' = note
  \/ k \in Camera /\ note' = [note EXCEPT ![k] = @ \cup {what}]

CommitDispatched(w, k) ==
  /\ lock[k] = w /\ pc[w] = "returned"
  /\ row' = [row EXCEPT ![k] = MarkDispatched(@)]
  /\ Audit(k, "DISPATCHED")
  /\ CameraNote(k, "CAMERA_OPENED")
  /\ Release(w, k)

CommitRaised(w, k) ==
  /\ lock[k] = w /\ pc[w] = "raised"
  /\ \/ /\ Exhausted(row[k])
        /\ row' = [row EXCEPT ![k] = MarkFailed(@)]
        /\ Audit(k, "FAILED")
        /\ CameraNote(k, "CAMERA_ACTION_FAILED")
     \/ /\ ~Exhausted(row[k])
        /\ row' = [row EXCEPT ![k] = MarkRetry(@)]
        /\ UNCHANGED <<audit, note>>
  /\ Release(w, k)

(* The worker dies, is cancelled by ClusterWorkers.stop, or its commit       *)
(* fails: the open transaction rolls back, the rest of the batch is dropped. *)
Crash(w) ==
  /\ crashes < MaxCrashes
  /\ pc[w] # "ready" \/ batch[w] # {}
  /\ lock' = [k \in Keys |-> IF lock[k] = w THEN None ELSE lock[k]]
  /\ pc' = [pc EXCEPT ![w] = "ready"]
  /\ batch' = [batch EXCEPT ![w] = {}]
  /\ crashes' = crashes + 1
  /\ UNCHANGED <<row, delivered, audit, note>>

-----------------------------------------------------------------------------
WorkerStep(w) ==
  \/ ClaimDue(w)
  \/ \E k \in Keys : \/ ProcessOne(w, k)
                     \/ HandlerReturns(w, k)
                     \/ HandlerRaises(w, k)
                     \/ CommitDispatched(w, k)
                     \/ CommitRaised(w, k)

Next ==
  \/ \E k \in Keys : Enqueue(k) \/ BecomeDue(k)
  \/ \E w \in Workers : WorkerStep(w) \/ Crash(w)

Spec == Init /\ [][Next]_vars

(* The singleton loop calls run_once again and again on some live node, a    *)
(* handler call ends (it returns or raises) and backoffs elapse. Callers     *)
(* need not enqueue, and nothing has to crash.                               *)
Fairness ==
  /\ \A k \in Keys : WF_vars(BecomeDue(k))
  /\ \A w \in Workers : WF_vars(WorkerStep(w))

FairSpec == Spec /\ Fairness

-----------------------------------------------------------------------------
(* A dispatcher inside a handler owns exactly one row, that row is still     *)
(* pending, and no other dispatcher owns it: the FOR UPDATE of _process_one  *)
(* serialises two nodes that claimed the same row in overlapping batches.    *)
OneHandlerPerRow ==
  \A w \in Workers : pc[w] # "ready" =>
    \E k \in Keys : /\ {j \in Keys : lock[j] = w} = {k}
                    /\ row[k].status = "pending"

(* The attempt counter stops at MAX_ATTEMPTS, and a row that has used them   *)
(* up is no longer pending, whatever mix of raises, crashes and workers.     *)
AttemptsBounded ==
  \A k \in Keys : /\ row[k].attempts <= MaxAttempts
                  /\ row[k].status \in {"absent", "pending"} => row[k].attempts < MaxAttempts

(* The status change and its audit row commit together: a settled row has    *)
(* exactly one audit entry of the matching kind, an unsettled one has none,  *)
(* and a camera note on the triggering event never contradicts the status.   *)
SettledOnceAudited ==
  \A k \in Keys :
    /\ audit[k] = CASE row[k].status = "dispatched" -> <<"DISPATCHED">>
                     [] row[k].status = "failed" -> <<"FAILED">>
                     [] OTHER -> <<>>
    /\ "CAMERA_OPENED" \in note[k] => row[k].status = "dispatched"
    /\ "CAMERA_ACTION_FAILED" \in note[k] => row[k].status = "failed"

(* Each extra delivery of an action is paid for by one transaction that was  *)
(* cut off after its handler ran: overlapping dispatchers, overlapping       *)
(* batches and retries alone never deliver twice.                            *)
DuplicatesOnlyByCrash ==
  \A k \in Keys :
    delivered[k] <= crashes + IF \/ row[k].status = "dispatched"
                                 \/ \E w \in Workers : lock[k] = w /\ pc[w] = "returned"
                              THEN 1 ELSE 0

(* A dispatched or failed row is final: no dispatcher that still has its id  *)
(* in a stale batch touches it again.                                        *)
SettledIsFinal ==
  [][\A k \in Keys : row[k].status \in Terminal => row'[k] = row[k]]_vars

(* Every enqueued action is settled in the end: dispatched, or failed after  *)
(* its attempts, in spite of retries and of crashes that stop happening.     *)
EverySettles ==
  \A k \in Keys : row[k].status = "pending" ~> row[k].status \in Terminal

(* What the rest of the platform may rely on (OutboxContract).               *)
Contract == INSTANCE OutboxContract
              WITH phase <- [k \in Keys |-> row[k].status], sent <- delivered
ImplementsContract == Contract!Spec
=============================================================================
