---------------------------- MODULE OutboxProofs ----------------------------
(***************************************************************************)
(* Proofs about Outbox for any sets of keys and dispatchers, any attempt   *)
(* limit, batch limit and number of crashes; and, where it runs beside the *)
(* dispatcher, about DoorOpen for any sendings, nodes and faults.          *)
(***************************************************************************)
EXTENDS MCOutbox, TLAPS

(* The lock discipline that makes the safety properties inductive: a held    *)
(* row lock belongs to a worker inside a handler, a worker holds at most     *)
(* one, the row under the lock is pending, and a handler that has returned   *)
(* has delivered.                                                            *)
LockInv ==
  /\ \A k \in Keys : lock[k] # None => pc[lock[k]] # "ready" /\ row[k].status = "pending"
  /\ \A j, k \in Keys : lock[j] = lock[k] /\ lock[k] # None => j = k
  /\ \A w \in Workers : pc[w] # "ready" => \E k \in Keys : lock[k] = w
  /\ \A k \in Keys, w \in Workers : lock[k] = w /\ pc[w] = "returned" => delivered[k] > 0

USE DEF CanLock, StillPending, Audit, Exhausted

(* The three outcomes of _process_one turn a row into a row.                 *)
LEMMA MarkedRow ==
  ASSUME NEW r \in Row
  PROVE  MarkDispatched(r) \in Row /\ MarkRetry(r) \in Row /\ MarkFailed(r) \in Row
  BY DEF Row, Statuses, MarkDispatched, MarkRetry, MarkFailed

(* Each kind of write keeps its table well typed.                            *)
LEMMA TypedNote ==
  ASSUME TypeOK, NEW k \in Keys, NEW what \in {"CAMERA_OPENED", "CAMERA_ACTION_FAILED"},
         CameraNote(k, what)
  PROVE  note' \in [Keys -> SUBSET {"CAMERA_OPENED", "CAMERA_ACTION_FAILED"}]
<1>1. CASE note' = note
  BY <1>1 DEF TypeOK
<1>2. CASE note' = [note EXCEPT ![k] = @ \cup {what}]
  BY <1>2 DEF TypeOK
<1> QED
  BY <1>1, <1>2 DEF CameraNote

(* A new row, with or without its audit entry, keeps the types.              *)
LEMMA TypedRowAudit ==
  ASSUME TypeOK, NEW k \in Keys, NEW r \in Row, row' = [row EXCEPT ![k] = r],
         NEW what \in {"DISPATCHED", "FAILED"}, audit' = audit \/ Audit(k, what)
  PROVE  row' \in [Keys -> Row] /\ audit' \in [Keys -> Seq({"DISPATCHED", "FAILED"})]
<1>1. row' \in [Keys -> Row]
  BY DEF TypeOK
<1>2. CASE audit' = audit
  BY <1>1, <1>2 DEF TypeOK
<1>3. CASE Audit(k, what)
  <2>1. Append(audit[k], what) \in Seq({"DISPATCHED", "FAILED"})
    BY DEF TypeOK
  <2> QED
    BY <1>1, <1>3, <2>1 DEF TypeOK
<1> QED
  BY <1>2, <1>3

(* Every reachable state is well typed.                                      *)
THEOREM TypeCorrect == Spec => []TypeOK
<1>1. Init => TypeOK
  BY OutboxAssumption DEF Init, TypeOK, Row, Statuses
<1>2. TypeOK /\ [Next]_vars => TypeOK'
  <2> SUFFICES ASSUME TypeOK, [Next]_vars PROVE TypeOK'
    OBVIOUS
  <2>1. ASSUME NEW k \in Keys, Enqueue(k) PROVE TypeOK'
    BY <2>1 DEF Enqueue, TypeOK, Row, Statuses
  <2>2. ASSUME NEW k \in Keys, BecomeDue(k) PROVE TypeOK'
    BY <2>2, ZenonT(60), ZenonT(60) DEF BecomeDue, TypeOK, Row, Statuses
  <2>3. ASSUME NEW w \in Workers, ClaimDue(w) PROVE TypeOK'
    BY <2>3 DEF ClaimDue, Due, TypeOK, Row, Statuses
  <2>4. ASSUME NEW w \in Workers, NEW k \in Keys, ProcessOne(w, k) PROVE TypeOK'
    <3>1. row[k] \in Row /\ MarkFailed(row[k]) \in Row
      BY MarkedRow DEF TypeOK
    <3>2. batch' \in [Workers -> SUBSET Keys]
      BY <2>4 DEF ProcessOne, TypeOK
    <3>3. CASE UNCHANGED <<row, audit>>
      <4>1. lock' \in [Keys -> Workers \cup {None}]
        BY <2>4, Zenon DEF ProcessOne, TypeOK
      <4>2. pc' \in [Workers -> {"ready", "handling", "returned", "raised"}]
        BY <2>4, Zenon DEF ProcessOne, TypeOK
      <4> QED
        BY <2>4, <3>2, <3>3, <4>1, <4>2 DEF ProcessOne, TypeOK
    <3>4. CASE row' = [row EXCEPT ![k] = MarkFailed(@)] /\ Audit(k, "FAILED")
               /\ UNCHANGED <<lock, pc>>
      BY <2>4, <3>1, <3>2, <3>4, TypedRowAudit DEF ProcessOne, TypeOK
    <3> QED
      BY <2>4, <3>3, <3>4 DEF ProcessOne
  <2>5. ASSUME NEW w \in Workers, NEW k \in Keys, HandlerReturns(w, k) PROVE TypeOK'
    BY <2>5 DEF HandlerReturns, TypeOK, Row, Statuses
  <2>6. ASSUME NEW w \in Workers, NEW k \in Keys, HandlerRaises(w, k) PROVE TypeOK'
    BY <2>6 DEF HandlerRaises, TypeOK, Row, Statuses
  <2>7. ASSUME NEW w \in Workers, NEW k \in Keys, CommitDispatched(w, k) PROVE TypeOK'
    <3>1. row[k] \in Row /\ MarkDispatched(row[k]) \in Row
      BY MarkedRow DEF TypeOK
    <3>2. row' \in [Keys -> Row] /\ audit' \in [Keys -> Seq({"DISPATCHED", "FAILED"})]
      BY <2>7, <3>1, TypedRowAudit, Zenon DEF CommitDispatched
    <3>3. note' \in [Keys -> SUBSET {"CAMERA_OPENED", "CAMERA_ACTION_FAILED"}]
      BY <2>7, TypedNote DEF CommitDispatched
    <3> QED
      BY <2>7, <3>2, <3>3 DEF CommitDispatched, Release, TypeOK
  <2>8. ASSUME NEW w \in Workers, NEW k \in Keys, CommitRaised(w, k) PROVE TypeOK'
    <3>1. row[k] \in Row /\ MarkRetry(row[k]) \in Row /\ MarkFailed(row[k]) \in Row
      BY MarkedRow DEF TypeOK
    <3>2. row' \in [Keys -> Row] /\ audit' \in [Keys -> Seq({"DISPATCHED", "FAILED"})]
      BY <2>8, <3>1, TypedRowAudit DEF CommitRaised
    <3>3. note' \in [Keys -> SUBSET {"CAMERA_OPENED", "CAMERA_ACTION_FAILED"}]
      <4>1. CASE UNCHANGED note
        BY <4>1 DEF TypeOK
      <4>2. CASE CameraNote(k, "CAMERA_ACTION_FAILED")
        BY <4>2, TypedNote
      <4> QED
        BY <2>8, <4>1, <4>2 DEF CommitRaised
    <3> QED
      BY <2>8, <3>2, <3>3 DEF CommitRaised, Release, TypeOK
  <2>9. ASSUME NEW w \in Workers, Crash(w) PROVE TypeOK'
    BY <2>9 DEF Crash, TypeOK, Row, Statuses
  <2>10. CASE UNCHANGED vars
    BY <2>10 DEF vars, TypeOK
  <2> QED
    BY <2>1, <2>2, <2>3, <2>4, <2>5, <2>6, <2>7, <2>8, <2>9, <2>10 DEF Next, WorkerStep
<1> QED
  BY <1>1, <1>2, PTL DEF Spec

-----------------------------------------------------------------------------
(* The lock discipline holds: FOR UPDATE gives a row to one dispatcher, and  *)
(* every way out of _process_one (commit, crash) gives it back.              *)
THEOREM LockDiscipline == Spec => []LockInv
<1>1. Init => LockInv
  BY OutboxAssumption DEF Init, LockInv
<1>2. TypeOK /\ LockInv /\ [Next]_vars => LockInv'
  <2> SUFFICES ASSUME TypeOK, LockInv, [Next]_vars PROVE LockInv'
    OBVIOUS
  <2> USE OutboxAssumption
  <2>1. ASSUME NEW k \in Keys, Enqueue(k) PROVE LockInv'
    BY <2>1 DEF Enqueue, TypeOK, LockInv
  <2>2. ASSUME NEW k \in Keys, BecomeDue(k) PROVE LockInv'
    BY <2>2 DEF BecomeDue, TypeOK, LockInv, Row
  <2>3. ASSUME NEW w \in Workers, ClaimDue(w) PROVE LockInv'
    BY <2>3 DEF ClaimDue, TypeOK, LockInv
  <2>4. ASSUME NEW w \in Workers, NEW k \in Keys, ProcessOne(w, k) PROVE LockInv'
    <3>1. CASE UNCHANGED <<row, lock, pc>>
      BY <2>4, <3>1 DEF ProcessOne, TypeOK, LockInv
    <3>2. CASE row' = [row EXCEPT ![k] = MarkFailed(@)] /\ UNCHANGED <<lock, pc>>
      BY <2>4, <3>2 DEF ProcessOne, TypeOK, LockInv
    <3>3. CASE /\ row[k].status = "pending" /\ row' = row
               /\ lock' = [lock EXCEPT ![k] = w]
               /\ pc' = [pc EXCEPT ![w] = "handling"]
      <4>1. \A j \in Keys : lock[j] # w
        BY <2>4 DEF ProcessOne, LockInv
      <4> QED
        BY <2>4, <3>3, <4>1 DEF ProcessOne, TypeOK, LockInv
    <3> QED
      BY <2>4, <3>1, <3>2, <3>3 DEF ProcessOne
  <2>5. ASSUME NEW w \in Workers, NEW k \in Keys, HandlerReturns(w, k) PROVE LockInv'
    BY <2>5 DEF HandlerReturns, TypeOK, LockInv
  <2>6. ASSUME NEW w \in Workers, NEW k \in Keys, HandlerRaises(w, k) PROVE LockInv'
    BY <2>6 DEF HandlerRaises, TypeOK, LockInv
  <2>7. ASSUME NEW w \in Workers, NEW k \in Keys, CommitDispatched(w, k) PROVE LockInv'
    BY <2>7 DEF CommitDispatched, Release, TypeOK, LockInv
  <2>8. ASSUME NEW w \in Workers, NEW k \in Keys, CommitRaised(w, k) PROVE LockInv'
    BY <2>8 DEF CommitRaised, Release, TypeOK, LockInv
  <2>9. ASSUME NEW w \in Workers, Crash(w) PROVE LockInv'
    BY <2>9 DEF Crash, TypeOK, LockInv
  <2>10. CASE UNCHANGED vars
    BY <2>10 DEF vars, LockInv
  <2> QED
    BY <2>1, <2>2, <2>3, <2>4, <2>5, <2>6, <2>7, <2>8, <2>9, <2>10 DEF Next, WorkerStep
<1> QED
  BY <1>1, <1>2, TypeCorrect, PTL DEF Spec

(* At most one dispatcher runs the handler of a row, and the row is pending  *)
(* while it does.                                                            *)
THEOREM OneHandler == Spec => []OneHandlerPerRow
<1>1. TypeOK /\ LockInv => OneHandlerPerRow
  <2> SUFFICES ASSUME TypeOK, LockInv, NEW w \in Workers, pc[w] # "ready"
               PROVE  \E k \in Keys : /\ {j \in Keys : lock[j] = w} = {k}
                                      /\ row[k].status = "pending"
    BY DEF OneHandlerPerRow
  <2>1. PICK k \in Keys : lock[k] = w
    BY DEF LockInv
  <2>2. w # None
    BY OutboxAssumption
  <2>3. \A j \in Keys : lock[j] = w => j = k
    BY <2>1, <2>2 DEF LockInv
  <2>4. {j \in Keys : lock[j] = w} = {k}
    BY <2>1, <2>3
  <2> QED
    BY <2>1, <2>2, <2>4 DEF LockInv
<1> QED
  BY <1>1, TypeCorrect, LockDiscipline, PTL

-----------------------------------------------------------------------------
(* The attempt budget is respected: exactly the committed attempts count,    *)
(* and the row leaves "pending" with the last of them.                       *)
THEOREM BoundedAttempts == Spec => []AttemptsBounded
<1>1. Init => AttemptsBounded
  BY OutboxAssumption DEF Init, AttemptsBounded
<1>2. TypeOK /\ LockInv /\ AttemptsBounded /\ [Next]_vars => AttemptsBounded'
  <2> SUFFICES ASSUME TypeOK, LockInv, AttemptsBounded, [Next]_vars PROVE AttemptsBounded'
    OBVIOUS
  <2> USE OutboxAssumption
  <2>1. ASSUME NEW k \in Keys, Enqueue(k) PROVE AttemptsBounded'
    BY <2>1 DEF Enqueue, TypeOK, Row, AttemptsBounded
  <2>2. ASSUME NEW k \in Keys, BecomeDue(k) PROVE AttemptsBounded'
    BY <2>2 DEF BecomeDue, TypeOK, Row, AttemptsBounded
  <2>3. ASSUME NEW w \in Workers, NEW k \in Keys, ProcessOne(w, k) PROVE AttemptsBounded'
    <3>1. CASE UNCHANGED row
      BY <3>1 DEF AttemptsBounded
    <3>2. CASE row[k].status = "pending" /\ row' = [row EXCEPT ![k] = MarkFailed(@)]
      <4>1. row[k].attempts + 1 <= MaxAttempts
        BY <3>2 DEF AttemptsBounded, TypeOK, Row
      <4>2. row'[k].status = "failed" /\ row'[k].attempts = row[k].attempts + 1
        BY <3>2 DEF MarkFailed, TypeOK
      <4>3. \A j \in Keys : j # k => row'[j] = row[j]
        BY <3>2 DEF TypeOK
      <4> QED
        BY <4>1, <4>2, <4>3 DEF AttemptsBounded
    <3> QED
      BY <2>3, <3>1, <3>2 DEF ProcessOne
  <2>4. ASSUME NEW w \in Workers, NEW k \in Keys, CommitDispatched(w, k) PROVE AttemptsBounded'
    BY <2>4 DEF CommitDispatched, MarkDispatched, LockInv, TypeOK, Row, AttemptsBounded
  <2>5. ASSUME NEW w \in Workers, NEW k \in Keys, CommitRaised(w, k) PROVE AttemptsBounded'
    <3>1. row[k].attempts < MaxAttempts /\ row[k].attempts \in Nat
      BY <2>5 DEF CommitRaised, LockInv, AttemptsBounded, TypeOK, Row
    <3>2. \A j \in Keys : j # k => row'[j] = row[j]
      BY <2>5 DEF CommitRaised, TypeOK
    <3>3. row'[k].attempts = row[k].attempts + 1
      BY <2>5 DEF CommitRaised, MarkFailed, MarkRetry, TypeOK
    <3>4. row'[k].status = "failed" \/ row[k].attempts + 1 < MaxAttempts
      BY <2>5, <3>1 DEF CommitRaised, MarkFailed, TypeOK
    <3> QED
      BY <3>1, <3>2, <3>3, <3>4 DEF AttemptsBounded
  <2>6. CASE UNCHANGED row
    BY <2>6 DEF AttemptsBounded
  <2> QED
    BY <2>1, <2>2, <2>3, <2>4, <2>5, <2>6
    DEF Next, WorkerStep, ClaimDue, HandlerReturns, HandlerRaises, Crash, vars
<1> QED
  BY <1>1, <1>2, TypeCorrect, LockDiscipline, PTL DEF Spec

(* A row that is dispatched or failed is never written again, although its   *)
(* id may still be in the batch of another dispatcher.                       *)
THEOREM Finality == Spec => SettledIsFinal
<1>1. TypeOK /\ LockInv /\ [Next]_vars
        => [\A k \in Keys : row[k].status \in Terminal => row'[k] = row[k]]_vars
  <2> SUFFICES ASSUME TypeOK, LockInv, Next, NEW j \in Keys, row[j].status \in Terminal
               PROVE  row'[j] = row[j]
    OBVIOUS
  <2>1. ASSUME NEW k \in Keys, Enqueue(k) \/ BecomeDue(k) PROVE row'[j] = row[j]
    BY <2>1 DEF Enqueue, BecomeDue, Terminal, TypeOK, Row
  <2>2. ASSUME NEW w \in Workers, NEW k \in Keys, ProcessOne(w, k) PROVE row'[j] = row[j]
    BY <2>2 DEF ProcessOne, Terminal, TypeOK
  <2>3. ASSUME NEW w \in Workers, NEW k \in Keys, CommitDispatched(w, k) \/ CommitRaised(w, k)
        PROVE  row'[j] = row[j]
    <3>1. row[k].status = "pending"
      BY <2>3, OutboxAssumption DEF CommitDispatched, CommitRaised, LockInv
    <3>2. j # k
      BY <3>1 DEF Terminal
    <3> QED
      BY <2>3, <3>2 DEF CommitDispatched, CommitRaised, TypeOK
  <2>4. CASE UNCHANGED row
    BY <2>4
  <2> QED
    BY <2>1, <2>2, <2>3, <2>4
    DEF Next, WorkerStep, ClaimDue, HandlerReturns, HandlerRaises, Crash
<1> QED
  BY <1>1, TypeCorrect, LockDiscipline, PTL DEF Spec, SettledIsFinal

-----------------------------------------------------------------------------
(* What SettledOnceAudited says of one row.                                  *)
Audited(k) ==
  /\ audit[k] = CASE row[k].status = "dispatched" -> <<"DISPATCHED">>
                   [] row[k].status = "failed" -> <<"FAILED">>
                   [] OTHER -> <<>>
  /\ "CAMERA_OPENED" \in note[k] => row[k].status = "dispatched"
  /\ "CAMERA_ACTION_FAILED" \in note[k] => row[k].status = "failed"

(* A row whose status, audit entries and notes stay as they are stays        *)
(* audited; one that is settled from "pending" in the transaction that       *)
(* appends the entry of its verdict becomes so.                              *)
LEMMA AuditedAlike ==
  ASSUME NEW j \in Keys, Audited(j), row'[j].status = row[j].status,
         audit'[j] = audit[j], note'[j] = note[j]
  PROVE  Audited(j)'
  BY DEF Audited

(* A row that settles and appends the entry of its verdict is audited.       *)
LEMMA AuditedSettled ==
  ASSUME TypeOK, NEW k \in Keys, Audited(k), row[k].status = "pending",
         NEW verdict \in Terminal, row'[k].status = verdict,
         Audit(k, IF verdict = "dispatched" THEN "DISPATCHED" ELSE "FAILED"),
         \/ note' = note
         \/ note' = [note EXCEPT ![k] = @ \cup {IF verdict = "dispatched" THEN "CAMERA_OPENED"
                                                ELSE "CAMERA_ACTION_FAILED"}]
  PROVE  Audited(k)'
<1>1. audit[k] = <<>> /\ "CAMERA_OPENED" \notin note[k] /\ "CAMERA_ACTION_FAILED" \notin note[k]
  BY DEF Audited
<1>2. audit'[k] = <<IF verdict = "dispatched" THEN "DISPATCHED" ELSE "FAILED">>
  BY <1>1 DEF TypeOK
<1>3. CASE verdict = "dispatched"
  BY <1>1, <1>2, <1>3 DEF Audited, TypeOK
<1>4. CASE verdict = "failed"
  BY <1>1, <1>2, <1>4 DEF Audited, TypeOK
<1> QED
  BY <1>3, <1>4 DEF Terminal

(* A settled row has exactly one audit entry, that of its verdict, and an    *)
(* unsettled one none, for any number of dispatchers, retries and crashes:   *)
(* _process_one re-checks the status under the row lock and writes status    *)
(* and audit entry in one transaction.                                       *)
THEOREM AuditAccounting == Spec => []SettledOnceAudited
<1>1. Init => SettledOnceAudited
  BY DEF Init, SettledOnceAudited
<1>2. TypeOK /\ LockInv /\ SettledOnceAudited /\ [Next]_vars => SettledOnceAudited'
  <2> SUFFICES ASSUME TypeOK, LockInv, SettledOnceAudited, [Next]_vars, NEW j \in Keys
               PROVE  Audited(j)'
    BY DEF SettledOnceAudited, Audited
  <2> USE OutboxAssumption
  <2>1. \A k \in Keys : Audited(k)
    BY DEF SettledOnceAudited, Audited
  <2>2. ASSUME NEW k \in Keys, Enqueue(k) PROVE Audited(j)'
    <3>1. CASE j = k
      <4>1. row[j].status = "absent" /\ row'[j].status = "pending"
            /\ audit' = audit /\ note' = note
        BY <2>2, <3>1 DEF Enqueue, TypeOK
      <4> QED
        BY <2>1, <4>1 DEF Audited
    <3>2. CASE j # k
      BY <2>1, <2>2, <3>2, AuditedAlike DEF Enqueue, TypeOK
    <3> QED
      BY <3>1, <3>2
  <2>3. ASSUME NEW k \in Keys, BecomeDue(k) PROVE Audited(j)'
    <3>1. row'[j].status = row[j].status
      BY <2>3 DEF BecomeDue, TypeOK, Row
    <3> QED
      BY <2>1, <2>3, <3>1, AuditedAlike DEF BecomeDue
  <2>4. ASSUME NEW w \in Workers, NEW k \in Keys, ProcessOne(w, k) PROVE Audited(j)'
    <3>1. CASE UNCHANGED <<row, audit>>
      BY <2>1, <2>4, <3>1, AuditedAlike DEF ProcessOne
    <3>2. CASE row[k].status = "pending" /\ row' = [row EXCEPT ![k] = MarkFailed(@)]
               /\ Audit(k, "FAILED")
      <4>1. CASE j = k
        <5>1. row'[k].status = "failed"
          BY <3>2 DEF MarkFailed, TypeOK
        <5> QED
          BY <2>1, <2>4, <3>2, <4>1, <5>1, AuditedSettled, Zenon DEF ProcessOne, Terminal
      <4>2. CASE j # k
        BY <2>1, <2>4, <3>2, <4>2, AuditedAlike DEF ProcessOne, TypeOK
      <4> QED
        BY <4>1, <4>2
    <3> QED
      BY <2>4, <3>1, <3>2 DEF ProcessOne
  <2>5. ASSUME NEW w \in Workers, NEW k \in Keys, CommitDispatched(w, k) PROVE Audited(j)'
    <3>1. row[k].status = "pending" /\ row'[k].status = "dispatched"
      BY <2>5 DEF CommitDispatched, LockInv, MarkDispatched, TypeOK
    <3>2. CASE j = k
      BY <2>1, <2>5, <3>1, <3>2, AuditedSettled, Zenon DEF CommitDispatched, CameraNote, Terminal
    <3>3. CASE j # k
      BY <2>1, <2>5, <3>3, AuditedAlike, SMTT(60), SMTT(60) DEF CommitDispatched, CameraNote, TypeOK
    <3> QED
      BY <3>2, <3>3
  <2>6. ASSUME NEW w \in Workers, NEW k \in Keys, CommitRaised(w, k) PROVE Audited(j)'
    <3>1. row[k].status = "pending"
      BY <2>6 DEF CommitRaised, LockInv
    <3>2. CASE /\ row' = [row EXCEPT ![k] = MarkFailed(@)] /\ Audit(k, "FAILED")
               /\ CameraNote(k, "CAMERA_ACTION_FAILED")
      <4>1. row'[k].status = "failed"
        BY <3>2 DEF MarkFailed, TypeOK
      <4>2. CASE j = k
        BY <2>1, <3>1, <3>2, <4>1, <4>2, AuditedSettled, Zenon DEF CameraNote, Terminal
      <4>3. CASE j # k
        BY <2>1, <3>2, <4>3, AuditedAlike, SMTT(60), SMTT(60) DEF CameraNote, TypeOK
      <4> QED
        BY <4>2, <4>3
    <3>3. CASE row' = [row EXCEPT ![k] = MarkRetry(@)] /\ UNCHANGED <<audit, note>>
      <4>1. row'[j].status = row[j].status
        BY <3>3 DEF MarkRetry, TypeOK
      <4> QED
        BY <2>1, <3>3, <4>1, AuditedAlike
    <3> QED
      BY <2>6, <3>2, <3>3 DEF CommitRaised
  <2>7. CASE UNCHANGED <<row, audit, note>>
    BY <2>1, <2>7, AuditedAlike
  <2> QED
    BY <2>2, <2>3, <2>4, <2>5, <2>6, <2>7
    DEF Next, WorkerStep, ClaimDue, HandlerReturns, HandlerRaises, Crash, vars
<1> QED
  BY <1>1, <1>2, TypeCorrect, LockDiscipline, PTL DEF Spec

-----------------------------------------------------------------------------
(* The row's current delivery is accounted for: it is recorded, or its       *)
(* handler has returned in a transaction that is still open.                 *)
Accounted(k) ==
  \/ row[k].status = "dispatched"
  \/ \E w \in Workers : lock[k] = w /\ pc[w] = "returned"

(* Every delivery beyond the first is paid for by a transaction that was     *)
(* cut off, for any number of dispatchers, batches and retries.              *)
THEOREM DuplicateAccounting == Spec => []DuplicatesOnlyByCrash
<1> USE DEF Accounted
<1>1. Init => DuplicatesOnlyByCrash
  BY OutboxAssumption, SMTT(60), SMTT(60) DEF Init, DuplicatesOnlyByCrash
<1>2. TypeOK /\ LockInv /\ DuplicatesOnlyByCrash /\ [Next]_vars => DuplicatesOnlyByCrash'
  <2> SUFFICES ASSUME TypeOK, LockInv, DuplicatesOnlyByCrash, [Next]_vars, NEW j \in Keys
               PROVE  delivered'[j] <= crashes' + IF Accounted(j)' THEN 1 ELSE 0
    BY DEF DuplicatesOnlyByCrash
  <2> USE OutboxAssumption
  <2>1. /\ delivered[j] <= crashes + IF Accounted(j) THEN 1 ELSE 0
        /\ delivered[j] \in Nat /\ crashes \in Nat
    BY DEF DuplicatesOnlyByCrash, TypeOK
  <2>2. SUFFICES ASSUME Next PROVE delivered'[j] <= crashes' + IF Accounted(j)' THEN 1 ELSE 0
    BY <2>1 DEF vars
  <2>3. CASE /\ UNCHANGED <<delivered, crashes>>
             /\ Accounted(j) => Accounted(j)'
    BY <2>1, <2>3
  <2>4. ASSUME NEW k \in Keys, Enqueue(k) \/ BecomeDue(k)
        PROVE  UNCHANGED <<delivered, crashes>> /\ (Accounted(j) => Accounted(j)')
    BY <2>4, Zenon DEF Enqueue, BecomeDue, TypeOK, Row
  <2>5. ASSUME NEW w \in Workers, ClaimDue(w)
        PROVE  UNCHANGED <<delivered, crashes>> /\ (Accounted(j) => Accounted(j)')
    BY <2>5, SMTT(60) DEF ClaimDue
  <2>6. ASSUME NEW w \in Workers, NEW k \in Keys, ProcessOne(w, k)
        PROVE  UNCHANGED <<delivered, crashes>> /\ (Accounted(j) => Accounted(j)')
    <3>1. CASE UNCHANGED <<row, lock, pc>>
      BY <2>6, <3>1 DEF ProcessOne
    <3>2. CASE row[k].status = "pending" /\ lock[k] = None /\ UNCHANGED <<lock, pc>>
               /\ row' = [row EXCEPT ![k] = MarkFailed(@)]
      BY <2>6, <3>2 DEF ProcessOne, TypeOK
    <3>3. CASE row[k].status = "pending" /\ lock[k] = None /\ row' = row /\ pc[w] = "ready"
               /\ lock' = [lock EXCEPT ![k] = w] /\ pc' = [pc EXCEPT ![w] = "handling"]
      BY <2>6, <3>3, SMTT(60) DEF ProcessOne, TypeOK
    <3> QED
      BY <2>6, <3>1, <3>2, <3>3 DEF ProcessOne
  <2>7. ASSUME NEW w \in Workers, NEW k \in Keys, HandlerReturns(w, k)
        PROVE  delivered'[j] <= crashes' + IF Accounted(j)' THEN 1 ELSE 0
    <3>1. CASE j = k
      <4>1. ~Accounted(j)
        BY <2>7, <3>1 DEF HandlerReturns, LockInv
      <4>2. Accounted(j)' /\ crashes' = crashes /\ delivered'[j] = delivered[j] + 1
        BY <2>7, <3>1, SMTT(60), SMTT(60) DEF HandlerReturns, TypeOK
      <4> QED
        BY <2>1, <4>1, <4>2
    <3>2. CASE j # k
      <4>1. crashes' = crashes /\ delivered'[j] = delivered[j]
        BY <2>7, <3>2 DEF HandlerReturns, TypeOK
      <4>2. Accounted(j) => Accounted(j)'
        BY <2>7, <3>2 DEF HandlerReturns, TypeOK
      <4> QED
        BY <2>1, <4>1, <4>2
    <3> QED
      BY <3>1, <3>2
  <2>8. ASSUME NEW w \in Workers, NEW k \in Keys, HandlerRaises(w, k)
        PROVE  UNCHANGED <<delivered, crashes>> /\ (Accounted(j) => Accounted(j)')
    BY <2>8, SMTT(60) DEF HandlerRaises, TypeOK
  <2>9. ASSUME NEW w \in Workers, NEW k \in Keys, CommitDispatched(w, k)
        PROVE  UNCHANGED <<delivered, crashes>> /\ (Accounted(j) => Accounted(j)')
    <3>1. CASE j = k
      BY <2>9, <3>1 DEF CommitDispatched, Release, MarkDispatched, TypeOK
    <3>2. CASE j # k
      BY <2>9, <3>2, SMTT(60), SMTT(60) DEF CommitDispatched, Release, LockInv, TypeOK
    <3> QED
      BY <3>1, <3>2
  <2>10. ASSUME NEW w \in Workers, NEW k \in Keys, CommitRaised(w, k)
         PROVE  UNCHANGED <<delivered, crashes>> /\ (Accounted(j) => Accounted(j)')
    <3>1. CASE j = k
      <4>1. ~Accounted(j)
        BY <2>10, <3>1 DEF CommitRaised, LockInv
      <4> QED
        BY <2>10, <4>1, SMTT(60), SMTT(60) DEF CommitRaised, Release
    <3>2. CASE j # k
      BY <2>10, <3>2, ZenonT(60), ZenonT(60) DEF CommitRaised, Release, LockInv, TypeOK
    <3> QED
      BY <3>1, <3>2
  <2>11. ASSUME NEW w \in Workers, Crash(w)
         PROVE  delivered'[j] <= crashes' + IF Accounted(j)' THEN 1 ELSE 0
    <3>1. delivered'[j] = delivered[j] /\ crashes' = crashes + 1
      BY <2>11 DEF Crash
    <3> HIDE DEF Accounted
    <3>2. (IF Accounted(j) THEN 1 ELSE 0) \in {0, 1} /\ (IF Accounted(j)' THEN 1 ELSE 0) \in {0, 1}
      OBVIOUS
    <3> QED
      BY <2>1, <3>1, <3>2, SMTT(60)
  <2> QED
    BY <2>2, <2>3, <2>4, <2>5, <2>6, <2>7, <2>8, <2>9, <2>10, <2>11, ZenonT(60) DEF Next, WorkerStep
<1> QED
  BY <1>1, <1>2, TypeCorrect, LockDiscipline, PTL DEF Spec

-----------------------------------------------------------------------------
(* The dispatcher implements at-least-once delivery with a final verdict:    *)
(* every step is a step of OutboxContract or leaves its state alone.         *)
THEOREM Refinement == Spec => ImplementsContract
<1> DEFINE phase == [k \in Keys |-> row[k].status]
<1>1. Init => Contract!Init
  BY DEF Init, Contract!Init
<1>2. TypeOK /\ LockInv /\ [Next]_vars => [Contract!Next]_(Contract!vars)
  <2> SUFFICES ASSUME TypeOK, LockInv, [Next]_vars PROVE [Contract!Next]_(Contract!vars)
    OBVIOUS
  <2> USE OutboxAssumption DEF Contract!vars, Contract!Next
  <2>1. ASSUME NEW k \in Keys, Enqueue(k) PROVE Contract!Accept(k)
    BY <2>1, Zenon DEF Enqueue, Contract!Accept, TypeOK
  <2>2. ASSUME NEW k \in Keys, BecomeDue(k) PROVE UNCHANGED <<phase, delivered>>
    BY <2>2 DEF BecomeDue, TypeOK, Row
  <2>3. ASSUME NEW w \in Workers, ClaimDue(w) \/ Crash(w) PROVE UNCHANGED <<phase, delivered>>
    BY <2>3 DEF ClaimDue, Crash
  <2>4. ASSUME NEW w \in Workers, NEW k \in Keys, ProcessOne(w, k)
        PROVE  Contract!GiveUp(k) \/ UNCHANGED <<phase, delivered>>
    <3>1. CASE row' = row
      BY <2>4, <3>1 DEF ProcessOne
    <3>2. CASE row[k].status = "pending" /\ row' = [row EXCEPT ![k] = MarkFailed(@)]
      BY <2>4, <3>2, Zenon DEF ProcessOne, MarkFailed, Contract!GiveUp, TypeOK
    <3> QED
      BY <2>4, <3>1, <3>2 DEF ProcessOne
  <2>5. ASSUME NEW w \in Workers, NEW k \in Keys, HandlerReturns(w, k) PROVE Contract!Send(k)
    BY <2>5, SMTT(60) DEF HandlerReturns, LockInv, Contract!Send, TypeOK
  <2>6. ASSUME NEW w \in Workers, NEW k \in Keys, HandlerRaises(w, k)
        PROVE  UNCHANGED <<phase, delivered>>
    BY <2>6 DEF HandlerRaises
  <2>7. ASSUME NEW w \in Workers, NEW k \in Keys, CommitDispatched(w, k)
        PROVE  Contract!Dispatch(k)
    <3>1. row[k].status = "pending" /\ delivered[k] > 0
      BY <2>7, SMTT(60), SMTT(60) DEF CommitDispatched, LockInv
    <3> QED
      BY <2>7, <3>1, ZenonT(60) DEF CommitDispatched, Release, MarkDispatched, Contract!Dispatch, TypeOK
  <2>8. ASSUME NEW w \in Workers, NEW k \in Keys, CommitRaised(w, k)
        PROVE  Contract!GiveUp(k) \/ UNCHANGED <<phase, delivered>>
    <3>1. row[k].status = "pending" /\ delivered' = delivered
      BY <2>8 DEF CommitRaised, Release, LockInv
    <3>2. CASE row' = [row EXCEPT ![k] = MarkFailed(@)]
      BY <3>1, <3>2, Zenon DEF MarkFailed, Contract!GiveUp, TypeOK
    <3>3. CASE row' = [row EXCEPT ![k] = MarkRetry(@)]
      BY <3>1, <3>3 DEF MarkRetry, TypeOK
    <3> QED
      BY <2>8, <3>2, <3>3, SMTT(60), SMTT(60) DEF CommitRaised
  <2>9. CASE UNCHANGED vars
    BY <2>9 DEF vars
  <2> QED
    BY <2>1, <2>2, <2>3, <2>4, <2>5, <2>6, <2>7, <2>8, <2>9, ZenonT(60) DEF Next, WorkerStep
<1> QED
  BY <1>1, <1>2, TypeCorrect, LockDiscipline, PTL DEF Spec, ImplementsContract, Contract!Spec

-----------------------------------------------------------------------------
(* The slot is pending under whoever works. A sequence that has gone out is  *)
(* followed by the bookkeeping of its attempt or by the stored result; where *)
(* there is neither, a fault has been counted for each.                      *)
Rowed == [state : Door!States, outcome : Door!Outcomes \cup {None}, sent : BOOLEAN]
Settled ==
  \/ slot \in Door!Outcomes
  \/ \E a \in Attempts : step[a] \in {"mark", "cleanup", "finish", "complete"}

DoorInv ==
  /\ step \in [Attempts -> Door!Steps] /\ outcome \in [Attempts -> Door!Outcomes \cup {None}]
  /\ command \in Rowed \cup {None} /\ opens \in Nat /\ faults \in Nat
  /\ \A a \in Attempts : Door!Working(a) => slot = "pending"
  /\ \A a \in Attempts : Door!Working(a) /\ step[a] # "row" => command \in Rowed
  /\ \A a \in Attempts : step[a] \in {"finish", "complete"} => outcome[a] \in Door!Outcomes
  /\ Door!OneAttemptWorks
  /\ opens <= IF Settled THEN faults + 1 ELSE faults

(* Every step of an attempt, every fault and the purge keep DoorInv.         *)
LEMMA DoorInductive == DoorInv /\ [Door!Next]_doorVars => DoorInv'
<1> SUFFICES ASSUME DoorInv, [Door!Next]_doorVars PROVE DoorInv'
  OBVIOUS
<1> USE DEF DoorInv, Door!Working, Door!OneAttemptWorks, Settled, Door!Steps,
            Door!provider, Door!store, Door!budget
<1>0. "free" \notin Door!Outcomes /\ "pending" \notin Door!Outcomes
  BY DEF Door!Outcomes
<1>1. ASSUME NEW a \in Attempts, Door!Claim(a) PROVE DoorInv'
  BY <1>0, <1>1 DEF Door!Claim, Door!CanClaim, Door!Goto, Door!Leave
<1>2. ASSUME NEW a \in Attempts, Door!Reject(a) PROVE DoorInv'
  BY <1>0, <1>2 DEF Door!Reject, Door!Leave
<1>3. ASSUME NEW a \in Attempts, NEW b \in BOOLEAN, Door!ClaimRow(a, b) PROVE DoorInv'
  <2>1. step[a] = "row" /\ slot' = slot /\ opens' = opens /\ faults' = faults
    BY <1>3 DEF Door!ClaimRow
  <2>2. ~Settled
    BY <1>0, <2>1
  <2>3. command' \in Rowed
    <3>1. Door!Requested \in Rowed
      BY SMTT(60) DEF Door!Requested, Rowed, Door!States, Door!Flow
    <3>2. command' = IF command = None THEN Door!Requested ELSE command
      BY <1>3 DEF Door!ClaimRow
    <3> QED BY <3>1, <3>2, SMTT(60)
  <2>4. PICK p \in {"complete", "drive", "finish"} :
          /\ step' = [step EXCEPT ![a] = p]
          /\ \/ outcome' = outcome /\ p = "drive"
             \/ \E o \in Door!Outcomes : outcome' = [outcome EXCEPT ![a] = o]
    <3>1. CASE command # None /\ command.outcome # None
      <4>1. command.outcome \in Door!Outcomes
        BY <3>1 DEF Rowed
      <4> QED BY <1>3, <3>1, <4>1, SMTT(60) DEF Door!ClaimRow
    <3>2. CASE ~(command # None /\ command.outcome # None)
      <4>1. (b /\ Door!Goto(a, "drive")) \/ (~b /\ Door!Decide(a, "no_profile"))
        BY <1>3, <3>2, SMTT(60) DEF Door!ClaimRow
      <4> QED BY <4>1, SMTT(60) DEF Door!Goto, Door!Decide, Door!Outcomes
    <3> QED BY <3>1, <3>2, SMTT(60)
  <2> QED BY <2>1, <2>2, <2>3, <2>4, SMTT(60)
<1>4. ASSUME NEW a \in Attempts, Door!Unavailable(a) PROVE DoorInv'
  BY <1>4 DEF Door!Unavailable, Door!Decide, Door!Outcomes
<1>5. ASSUME NEW a \in Attempts, NEW b \in BOOLEAN, Door!Snapshot(a, b) PROVE DoorInv'
  BY <1>5 DEF Door!Snapshot, Door!Decide, Door!Goto, Door!SetState, Rowed, Door!States, Door!Flow,
              Door!Outcomes
<1>6. ASSUME NEW a \in Attempts, Door!Answer(a) PROVE DoorInv'
  BY <1>6, SMTT(60) DEF Door!Answer, Door!Goto, Door!SetState, Rowed, Door!States, Door!Flow
<1>7. ASSUME NEW a \in Attempts, Door!Await(a) \/ Door!Check(a) PROVE DoorInv'
  BY <1>7, SMTT(60) DEF Door!Await, Door!Check, Door!Goto, Door!Decide, Door!Outcomes
<1>8. ASSUME NEW a \in Attempts, Door!SendDtmf(a) PROVE DoorInv'
  BY <1>0, <1>8, SMTT(60) DEF Door!SendDtmf, Door!Goto
<1>9. ASSUME NEW a \in Attempts, Door!Mark(a) PROVE DoorInv'
  BY <1>9 DEF Door!Mark, Door!Goto, Door!MarkSent, Rowed, Door!States, Door!Flow
<1>10. ASSUME NEW a \in Attempts, NEW b \in BOOLEAN, Door!Cleanup(a, b) PROVE DoorInv'
  BY <1>10, SMTT(60) DEF Door!Cleanup, Door!Decide, Rowed, Door!States, Door!Flow, Door!Outcomes
<1>11. ASSUME NEW a \in Attempts, Door!Finish(a) PROVE DoorInv'
  BY <1>11, SMTT(60) DEF Door!Finish, Door!Goto, Door!TerminalState, Rowed, Door!States
<1>12. ASSUME NEW a \in Attempts, Door!Complete(a) PROVE DoorInv'
  BY <1>12, SMTT(60) DEF Door!Complete, Door!Leave
<1>13. ASSUME NEW a \in Attempts, Door!Fault(a) PROVE DoorInv'
  BY <1>13, SMTT(60) DEF Door!Fault, Door!Decide, Door!Outcomes
<1>14. ASSUME NEW a \in Attempts, Door!Cancel(a) PROVE DoorInv'
  BY <1>0, <1>14, SMTT(60) DEF Door!Cancel, Door!Leave
<1>15. ASSUME NEW a \in Attempts, NEW n \in Nodes, Door!Send(a, n) PROVE DoorInv'
  BY <1>15 DEF Door!Send
<1>16. ASSUME NEW n \in Nodes, Door!Crash(n) PROVE DoorInv'
  <2>1. /\ \A a \in Attempts : step'[a] # "idle" =>
             step'[a] = step[a] /\ outcome'[a] = outcome[a]
        /\ step' \in [Attempts -> Door!Steps]
        /\ outcome' \in [Attempts -> Door!Outcomes \cup {None}]
    BY <1>16, SMTT(60) DEF Door!Crash
  <2>2. /\ opens' <= faults' /\ opens' \in Nat /\ faults' \in Nat
        /\ command' = command /\ slot' = slot
    BY <1>16 DEF Door!Crash
  <2>3. opens' <= IF Settled' THEN faults' + 1 ELSE faults'
    <3> HIDE DEF DoorInv, Settled
    <3>1. \A x, y \in Nat : x <= y => x <= y + 1
      OBVIOUS
    <3>2. opens' <= faults' /\ opens' <= faults' + 1
      BY <2>2, <3>1, Zenon
    <3>3. CASE Settled'
      BY <3>2, <3>3, Zenon
    <3>4. CASE ~Settled'
      BY <3>2, <3>4, Zenon
    <3> QED BY <3>3, <3>4
  <2>4. \A a \in Attempts : Door!Working(a)' =>
          Door!Working(a) /\ step'[a] = step[a] /\ outcome'[a] = outcome[a]
    BY <2>1
  <2>5. \A a \in Attempts : step'[a] \in {"finish", "complete"} => outcome'[a] \in Door!Outcomes
    BY <2>1, SMTT(60)
  <2> QED BY <2>1, <2>2, <2>3, <2>4, <2>5, ZenonT(60)
<1>17. CASE Door!Purge
  <2>1. ~Settled
    BY <1>0, <1>17, SMTT(60) DEF Door!Purge
  <2> QED BY <1>17, <2>1 DEF Door!Purge
<1>18. CASE Door!CallMoves \/ UNCHANGED doorVars
  BY <1>18 DEF Door!CallMoves, doorVars
<1> QED BY <1>1, <1>2, <1>3, <1>4, <1>5, <1>6, <1>7, <1>8, <1>9, <1>10, <1>11, <1>12, <1>13,
           <1>14, <1>15, <1>16, <1>17, <1>18, ZenonT(60), ZenonT(60) DEF Door!Next, Door!Work

(* For any number of sendings, nodes, faults and retries of one command: at  *)
(* most one attempt is between the claim of the slot and its release, and    *)
(* the DTMF sequence goes out at most once, and once more for every crash or *)
(* cancellation.                                                             *)
THEOREM DoorOpensOnce == MCSpec => []OneDriver
<1>1. MCInit => DoorInv
  BY DEF MCInit, Door!Init, DoorInv, Door!Working, Door!OneAttemptWorks, Settled, Door!Steps,
         Door!Outcomes
<1>2. DoorInv => OneDriver
  BY DEF DoorInv, OneDriver, Door!OneDriver, Door!OpensBounded
<1>3. [MCNext]_allVars => [Door!Next]_doorVars
  BY DEF MCNext, allVars
<1> QED BY <1>1, <1>2, <1>3, DoorInductive, PTL DEF MCSpec
=============================================================================
