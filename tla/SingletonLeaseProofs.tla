------------------------ MODULE SingletonLeaseProofs ------------------------
(***************************************************************************)
(* When a pause and one do_work fit into the lease, at most one node works *)
(* at a time: for any number of nodes and any mix of crashes and failed    *)
(* calls to etcd. Without that assumption the property is false.           *)
(***************************************************************************)
EXTENDS SingletonLease, TLAPS

(* Every reachable state is well typed.                                      *)
THEOREM TypeCorrect == Spec => []TypeOK
<1> USE LeaseAssumption DEF TypeOK, States, Leading, Urgent, Goto, NoFault, Fault
<1>1. Init => TypeOK
  BY DEF Init
<1>2. TypeOK /\ [Next]_vars => TypeOK'
  <2> SUFFICES ASSUME TypeOK, [Next]_vars PROVE TypeOK'
    OBVIOUS
  <2>1. CASE Tick
    <3>1. ttl' \in 0 .. TTL /\ owner' \in Nodes \cup {Orphan, None} /\ vacant' \in Nat
      BY <2>1 DEF Tick
    <3>2. timer' \in [Nodes -> Nat]
      BY <2>1 DEF Tick
    <3> QED
      BY <2>1, <3>1, <3>2 DEF Tick
  <2>2. ASSUME NEW n \in Nodes, Start(n) PROVE TypeOK'
    BY <2>2 DEF Start
  <2>3. ASSUME NEW n \in Nodes, AcquireWins(n) PROVE TypeOK'
    BY <2>3 DEF AcquireWins, PutIfAbsent
  <2>4. ASSUME NEW n \in Nodes, AcquireLoses(n) PROVE TypeOK'
    BY <2>4 DEF AcquireLoses, RetryAfter
  <2>5. ASSUME NEW n \in Nodes, AcquireFails(n) PROVE TypeOK'
    BY <2>5 DEF AcquireFails, RetryAfter
  <2>6. ASSUME NEW n \in Nodes, WorkEnds(n) PROVE TypeOK'
    BY <2>6 DEF WorkEnds
  <2>7. ASSUME NEW n \in Nodes, RenewWins(n) PROVE TypeOK'
    BY <2>7 DEF RenewWins
  <2>8. ASSUME NEW n \in Nodes, RenewLoses(n) PROVE TypeOK'
    BY <2>8 DEF RenewLoses, Revoke
  <2>9. ASSUME NEW n \in Nodes, RenewFails(n) PROVE TypeOK'
    BY <2>9 DEF RenewFails, Revoke, Abandon
  <2>10. ASSUME NEW n \in Nodes, Wakes(n) PROVE TypeOK'
    BY <2>10 DEF Wakes
  <2>11. ASSUME NEW n \in Nodes, Stop(n) PROVE TypeOK'
    BY <2>11 DEF Stop, Revoke
  <2>12. ASSUME NEW n \in Nodes, StopInAcquire(n) PROVE TypeOK'
    BY <2>12 DEF StopInAcquire
  <2>13. ASSUME NEW n \in Nodes, Crash(n) PROVE TypeOK'
    BY <2>13 DEF Crash, Abandon
  <2>14. CASE UNCHANGED vars
    BY <2>14 DEF vars
  <2> QED
    BY <2>1, <2>2, <2>3, <2>4, <2>5, <2>6, <2>7, <2>8, <2>9, <2>10, <2>11, <2>12, <2>13,
       <2>14 DEF Next, NodeStep
<1> QED
  BY <1>1, <1>2, PTL DEF Spec

-----------------------------------------------------------------------------
(* A working or resting node still holds its lease, with more time left on   *)
(* it than the node can spend before its next renewal.                       *)
LeaseCovers ==
  \A n \in Nodes :
    /\ st[n] = "working" => owner = n /\ ttl > timer[n]
    /\ st[n] = "resting" => owner = n /\ ttl > timer[n] + MaxWork

(* run_as_singleton: with do_work bounded below the lease, the work of a     *)
(* singleton never overlaps.                                                 *)
THEOREM WorkFitsLease ==
  ASSUME RenewEvery + MaxWork < TTL
  PROVE  Spec => []NeverRunsTwice
<1> USE LeaseAssumption DEF Goto
<1>1. Init => LeaseCovers
  BY DEF Init, LeaseCovers
<1>2. TypeOK /\ LeaseCovers /\ [Next]_vars => LeaseCovers'
  <2> SUFFICES ASSUME TypeOK, LeaseCovers, [Next]_vars, NEW n \in Nodes
               PROVE  /\ st'[n] = "working" => owner' = n /\ ttl' > timer'[n]
                      /\ st'[n] = "resting" => owner' = n /\ ttl' > timer'[n] + MaxWork
    BY DEF LeaseCovers
  <2> DEFINE Covered == /\ st'[n] = "working" => owner' = n /\ ttl' > timer'[n]
                        /\ st'[n] = "resting" => owner' = n /\ ttl' > timer'[n] + MaxWork
  <2> USE DEF TypeOK
  <2>1. CASE Tick
    BY <2>1 DEF Tick, LeaseCovers, Leading
  <2>2. ASSUME NEW m \in Nodes, Start(m) \/ AcquireLoses(m) \/ WorkEnds(m) PROVE Covered
    BY <2>2 DEF Start, AcquireLoses, WorkEnds, LeaseCovers
  <2>3. ASSUME NEW m \in Nodes, AcquireWins(m) PROVE Covered
    BY <2>3 DEF AcquireWins, PutIfAbsent, LeaseCovers
  <2>4. ASSUME NEW m \in Nodes, AcquireFails(m) \/ StopInAcquire(m) PROVE Covered
    BY <2>4 DEF AcquireFails, StopInAcquire, LeaseCovers
  <2>5. ASSUME NEW m \in Nodes, RenewWins(m) PROVE Covered
    BY <2>5 DEF RenewWins, LeaseAlive, LeaseCovers
  <2>6. ASSUME NEW m \in Nodes, RenewLoses(m) \/ RenewFails(m) \/ Stop(m) \/ Crash(m)
        PROVE  Covered
    BY <2>6 DEF RenewLoses, RenewFails, Stop, Crash, Revoke, Abandon, LeaseCovers
  <2>7. ASSUME NEW m \in Nodes, Wakes(m) PROVE Covered
    BY <2>7 DEF Wakes, LeaseCovers
  <2>8. CASE UNCHANGED vars
    BY <2>8 DEF vars, LeaseCovers
  <2> QED
    BY <2>1, <2>2, <2>3, <2>4, <2>5, <2>6, <2>7, <2>8 DEF Next, NodeStep
<1>3. LeaseCovers => NeverRunsTwice
  BY DEF LeaseCovers, NeverRunsTwice
<1> QED
  BY <1>1, <1>2, <1>3, TypeCorrect, PTL DEF Spec

-----------------------------------------------------------------------------
(* Why a takeover is not late. A leader ends the vacancy and a key that      *)
(* belongs to a node has one. A lease nobody renews runs out before TTL      *)
(* ticks have been vacant, and when it has, every node that waits does so    *)
(* because it found the key taken less than TTL ticks ago.                   *)
VacancyBounded ==
  /\ \A n \in Nodes : st[n] \in Leading => vacant = 0
  /\ owner \in Nodes => st[owner] \in Leading
  /\ (owner = None) <=> (ttl = 0)
  /\ \A n \in Nodes : st[n] = "waiting" => timer[n] <= TTL
  /\ owner = Orphan => vacant + ttl <= TTL
  /\ owner = None => \A n \in Nodes : st[n] = "waiting" => vacant + timer[n] <= 2 * TTL
  /\ TakeoverInTime

(* leader.py, "another node takes over within 2 * ttl": for any number of    *)
(* nodes, any lease, pause and work time and any faults, the singleton is    *)
(* not without a leader for longer while a node is up.                       *)
THEOREM Takeover == Spec => []TakeoverInTime
<1> USE LeaseAssumption DEF Goto, TakeoverInTime
<1>1. Init => VacancyBounded
  BY SMTT(60) DEF Init, VacancyBounded, Leading
<1>2. TypeOK /\ VacancyBounded /\ [Next]_vars => VacancyBounded'
  <2> SUFFICES ASSUME TypeOK, VacancyBounded, [Next]_vars PROVE VacancyBounded'
    OBVIOUS
  <2> USE DEF TypeOK, VacancyBounded, Leading, NoFault, Fault
  <2>1. CASE Tick
    <3>1. CASE (\E n \in Nodes : st[n] \in Leading) \/ (\A n \in Nodes : st[n] = "down")
      BY <2>1, <3>1 DEF Tick
    <3>2. CASE /\ \A n \in Nodes : st[n] \notin Leading
               /\ \E n \in Nodes : st[n] # "down"
      <4>1. vacant' = vacant + 1 /\ st' = st
        BY <2>1, <3>2 DEF Tick
      <4>2. PICK up \in Nodes : st[up] = "waiting" /\ timer[up] > 0
        BY <2>1, <3>2 DEF Tick, States, Urgent
      <4>3. \A n \in Nodes : st[n] = "waiting" => timer'[n] = timer[n] - 1 /\ timer[n] > 0
        BY <2>1 DEF Tick
      <4>4. owner = None \/ owner = Orphan
        BY <3>2
      <4>5. CASE owner = None
        <5>1. owner' = None /\ ttl' = 0
          BY <2>1, <4>5 DEF Tick
        <5> QED
          BY <3>2, <4>1, <4>2, <4>3, <4>5, <5>1
      <4>6. CASE owner = Orphan
        <5>1. ttl > 0 /\ vacant + ttl <= TTL /\ ttl' = ttl - 1
              /\ owner' = IF ttl = 1 THEN None ELSE Orphan
          BY <2>1, <4>6 DEF Tick
        <5> QED
          BY <3>2, <4>1, <4>3, <5>1
      <4> QED
        BY <4>4, <4>5, <4>6
    <3> QED
      BY <3>1, <3>2
  <2>2. ASSUME NEW m \in Nodes, Start(m) PROVE VacancyBounded'
    BY <2>2 DEF Start
  <2>3. ASSUME NEW m \in Nodes, AcquireWins(m) PROVE VacancyBounded'
    BY <2>3 DEF AcquireWins, PutIfAbsent
  <2>4. ASSUME NEW m \in Nodes, AcquireLoses(m) PROVE VacancyBounded'
    BY <2>4 DEF AcquireLoses, RetryAfter
  <2>5. ASSUME NEW m \in Nodes, AcquireFails(m) PROVE VacancyBounded'
    BY <2>5 DEF AcquireFails, RetryAfter
  <2>6. ASSUME NEW m \in Nodes, WorkEnds(m) PROVE VacancyBounded'
    BY <2>6 DEF WorkEnds
  <2>7. ASSUME NEW m \in Nodes, RenewWins(m) PROVE VacancyBounded'
    BY <2>7 DEF RenewWins, LeaseAlive
  <2>8. ASSUME NEW m \in Nodes, RenewLoses(m) PROVE VacancyBounded'
    BY <2>8 DEF RenewLoses, LeaseAlive, Revoke
  <2>9. ASSUME NEW m \in Nodes, RenewFails(m) PROVE VacancyBounded'
    BY <2>9 DEF RenewFails, Revoke, Abandon
  <2>10. ASSUME NEW m \in Nodes, Wakes(m) PROVE VacancyBounded'
    BY <2>10 DEF Wakes
  <2>11. ASSUME NEW m \in Nodes, Stop(m) PROVE VacancyBounded'
    BY <2>11 DEF Stop, Revoke
  <2>12. ASSUME NEW m \in Nodes, StopInAcquire(m) PROVE VacancyBounded'
    BY <2>12 DEF StopInAcquire
  <2>13. ASSUME NEW m \in Nodes, Crash(m) PROVE VacancyBounded'
    BY <2>13 DEF Crash, Abandon
  <2>14. CASE UNCHANGED vars
    BY <2>14 DEF vars
  <2> QED
    BY <2>1, <2>2, <2>3, <2>4, <2>5, <2>6, <2>7, <2>8, <2>9, <2>10, <2>11, <2>12, <2>13,
       <2>14 DEF Next, NodeStep
<1>3. VacancyBounded => TakeoverInTime
  BY DEF VacancyBounded
<1> QED
  BY <1>1, <1>2, <1>3, TypeCorrect, PTL DEF Spec
=============================================================================
