--------------------------- MODULE SingletonLease ---------------------------
(***************************************************************************)
(* Leader election for one cluster singleton over an etcd lease            *)
(* (server/bbz_core/infra/leader.py) and the loop that works while leader  *)
(* (workers/singleton.py), started and stopped by workers/manager.py.      *)
(*                                                                         *)
(* Time advances in ticks. A node that is not sleeping and not inside      *)
(* do_work acts before the next tick, so calls to etcd are instantaneous;  *)
(* they may fail, with or without having taken effect.                     *)
(***************************************************************************)
EXTENDS Naturals, FiniteSets

CONSTANTS
  Nodes,
  TTL,         \* worker_leader_ttl_seconds, in ticks
  RenewEvery,  \* the pause between two cycles, ttl / 3 in the code
  MaxWork,     \* bound: how long one do_work may take
  MaxFaults,   \* bound: crashes and failed calls to etcd
  Orphan,      \* the lock key hangs on a lease no node knows of any more
  None         \* the lock key does not exist

ASSUME LeaseAssumption ==
  /\ IsFiniteSet(Nodes)
  /\ TTL \in Nat \ {0} /\ RenewEvery \in Nat \ {0}
  /\ MaxWork \in Nat /\ MaxFaults \in Nat
  /\ Orphan \notin Nodes /\ None \notin Nodes /\ Orphan # None

VARIABLES
  owner,   \* the node whose live lease holds the lock key, Orphan or None
  ttl,     \* ticks until that lease expires
  st,      \* where each node's run_as_singleton loop is
  timer,   \* ticks a node still sleeps or may still work
  vacant,  \* ticks without a leader since the last fault, some node being up
  faults

vars == <<owner, ttl, st, timer, vacant, faults>>

Leading == {"working", "renewing", "resting"}
Urgent == {"campaigning", "renewing"}
States == Leading \cup Urgent \cup {"down", "waiting"}

TypeOK ==
  /\ owner \in Nodes \cup {Orphan, None}
  /\ ttl \in 0 .. TTL
  /\ st \in [Nodes -> States]
  /\ timer \in [Nodes -> Nat]
  /\ vacant \in Nat
  /\ faults \in 0 .. MaxFaults

Init ==
  /\ owner = None /\ ttl = 0
  /\ st = [n \in Nodes |-> "down"]
  /\ timer = [n \in Nodes |-> 0]
  /\ vacant = 0 /\ faults = 0

-----------------------------------------------------------------------------
Goto(n, s, t) == st' = [st EXCEPT ![n] = s] /\ timer' = [timer EXCEPT ![n] = t]

(* resign: revoking the node's own lease removes the key only if the key     *)
(* still hangs on that lease.                                                *)
Revoke(n) ==
  IF owner = n THEN owner' = None /\ ttl' = 0 ELSE UNCHANGED <<owner, ttl>>

(* The revoke request is lost, or the node dies: the lease lives on until    *)
(* its TTL runs out, but nobody will ever renew it.                          *)
Abandon(n) == owner' = (IF owner = n THEN Orphan ELSE owner) /\ ttl' = ttl

Fault == faults < MaxFaults /\ faults' = faults + 1 /\ vacant' = 0
NoFault == UNCHANGED <<vacant, faults>>

(* ClusterWorkers.start on a node that comes up.                             *)
Start(n) ==
  /\ st[n] = "down"
  /\ Goto(n, "campaigning", 0)
  /\ UNCHANGED <<owner, ttl>> /\ NoFault

PutAlways(n) == owner' = n /\ ttl' = TTL                       \* mutant
(* The etcd transaction of acquire: put the key only if it does not exist.   *)
PutIfAbsent(n) == owner = None /\ owner' = n /\ ttl' = TTL

(* acquire succeeds; do_work starts in the same cycle.                       *)
AcquireWins(n) ==
  /\ st[n] = "campaigning"
  /\ PutIfAbsent(n)
  /\ Goto(n, "working", MaxWork)
  /\ vacant' = 0 /\ UNCHANGED faults

RetryLate == 3 * TTL                                           \* mutant
RetryAfter == TTL

(* acquire finds the key taken, gives its fresh lease back and sleeps.       *)
AcquireLoses(n) ==
  /\ st[n] = "campaigning" /\ owner # None
  /\ Goto(n, "waiting", RetryAfter)
  /\ UNCHANGED <<owner, ttl>> /\ NoFault

(* A call of acquire fails. If it was the transaction's answer that got      *)
(* lost, the key now hangs on a lease acquire has forgotten.                 *)
AcquireFails(n) ==
  /\ st[n] = "campaigning" /\ Fault
  /\ \/ UNCHANGED <<owner, ttl>>
     \/ owner = None /\ owner' = Orphan /\ ttl' = TTL
  /\ Goto(n, "waiting", RetryAfter)

(* do_work ends; what it raises is suppressed.                               *)
WorkEnds(n) ==
  /\ st[n] = "working"
  /\ Goto(n, "renewing", 0)
  /\ UNCHANGED <<owner, ttl>> /\ NoFault

(* keepalive answers TTL 0 when the lease has expired.                       *)
LeaseAlive(n) == owner = n

RenewWins(n) ==
  /\ st[n] = "renewing" /\ LeaseAlive(n)
  /\ owner' = owner /\ ttl' = TTL
  /\ Goto(n, "resting", RenewEvery) /\ NoFault

(* The lease has expired: step down and campaign again at once.              *)
RenewLoses(n) ==
  /\ st[n] = "renewing" /\ ~LeaseAlive(n)
  /\ Revoke(n)
  /\ Goto(n, "campaigning", 0) /\ NoFault

(* keepalive fails: renew resigns; the revoke may be lost as well.           *)
RenewFails(n) ==
  /\ st[n] = "renewing" /\ Fault
  /\ Revoke(n) \/ Abandon(n)
  /\ Goto(n, "campaigning", 0)

Wakes(n) ==
  /\ timer[n] = 0
  /\ \/ st[n] = "waiting" /\ Goto(n, "campaigning", 0)
     \/ st[n] = "resting" /\ Goto(n, "working", MaxWork)
  /\ UNCHANGED <<owner, ttl>> /\ NoFault

(* ClusterWorkers.stop: the task is cancelled, its finally clause resigns.   *)
Stop(n) ==
  /\ st[n] # "down"
  /\ IF st[n] \in Leading THEN Revoke(n) ELSE UNCHANGED <<owner, ttl>>
  /\ Goto(n, "down", 0) /\ NoFault

(* stop cancels acquire between the etcd transaction and its answer: the     *)
(* loop is not leader yet, so nobody resigns the lease.                      *)
StopInAcquire(n) ==
  /\ st[n] = "campaigning" /\ Fault
  /\ owner = None /\ owner' = Orphan /\ ttl' = TTL
  /\ Goto(n, "down", 0)

Crash(n) ==
  /\ st[n] # "down" /\ Fault
  /\ Abandon(n)
  /\ Goto(n, "down", 0)

(* One tick: the lease and every timer run down. A timer at zero (a sleep    *)
(* that is over, a do_work at its bound) lets its node act first.            *)
Tick ==
  /\ \A n \in Nodes : st[n] \notin Urgent /\ (st[n] # "down" => timer[n] > 0)
  /\ ttl' = IF ttl > 0 THEN ttl - 1 ELSE 0
  /\ owner' = IF ttl = 1 THEN None ELSE owner
  /\ timer' = [n \in Nodes |-> IF timer[n] > 0 THEN timer[n] - 1 ELSE 0]
  /\ vacant' = IF \/ \E n \in Nodes : st[n] \in Leading
                  \/ \A n \in Nodes : st[n] = "down"
               THEN 0 ELSE vacant + 1
  /\ UNCHANGED <<st, faults>>

NodeStep(n) ==
  \/ AcquireWins(n) \/ AcquireLoses(n) \/ AcquireFails(n)
  \/ WorkEnds(n) \/ RenewWins(n) \/ RenewLoses(n) \/ RenewFails(n)
  \/ Wakes(n)

Next ==
  \/ Tick
  \/ \E n \in Nodes : Start(n) \/ NodeStep(n) \/ Stop(n) \/ StopInAcquire(n) \/ Crash(n)

Spec == Init /\ [][Next]_vars

-----------------------------------------------------------------------------
(* registry.py: "background work never runs twice". True as long as a pause  *)
(* and one do_work together are shorter than the lease.                      *)
NeverRunsTwice ==
  \A m, n \in Nodes : st[m] = "working" /\ st[n] = "working" => m = n

(* leader.py: "another node takes over within 2 * ttl". Whatever the last    *)
(* fault left behind (a lease nobody renews, a node asleep for a whole ttl), *)
(* the singleton is not without a leader for longer while a node is up.      *)
TakeoverInTime == vacant <= 2 * TTL

=============================================================================
