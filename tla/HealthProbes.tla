----------------------------- MODULE HealthProbes -----------------------------
(***************************************************************************)
(* What a node says about its surroundings.  Half one: the cluster status; *)
(* the probes of the coordination store, of Patroni and of the local       *)
(* database are made one after the other while the cluster goes on         *)
(* changing, and each may fail.  Half two: the health table of the         *)
(* integrations, refreshed by the worker's tick and by every page that     *)
(* shows it, with a count of the failures in a row.                        *)
(***************************************************************************)
EXTENDS FiniteSets, Naturals

CONSTANTS
  Member,       \* nodes of the database cluster
  Self,         \* settings.node_id
  Dcs,          \* number of endpoints of the coordination store configured
  Integration,  \* active integrations
  Refresher,    \* refreshes of the health table that may be under way
  MaxErrors     \* bound on the failures counted

VARIABLES
  etcd,     \* external: every endpoint "down", "alone" or "led" (sees a leader)
  holder,   \* external: node that holds the control lease
  role,     \* external: what Patroni lists of every node
  answers,  \* external: Patroni and the local database answer; caught-up: the
            \* local Patroni answers its readiness probe with 200
  probe,    \* the status request under way: the next step and what it has found
  status,   \* the last status gathered
  verdict,  \* the last answer of the readiness page: "none", "ready", "not_ready"
  steady,   \* auxiliary: nothing changed since the probe began
  sick,     \* external: what the integrations report
  health,   \* integration_health
  refresh,  \* refreshes under way
  inRow,    \* auxiliary: failures in a row, counted as they are written
  tangled   \* auxiliary: integrations whose refreshes overlapped

cluster == <<etcd, holder, role, answers, probe, status, verdict, steady>>
probes == <<sick, health, refresh, inRow, tangled>>
hvars == <<cluster, probes>>

NoNode == "none"
Roles == {"primary", "standby", "gone"}
NotProbing == [step |-> "rest"]
NoStatus == [healthy |-> FALSE, quorum |-> FALSE, leader |-> NoNode, nodes |-> {}]
Answers == [patroni : BOOLEAN, db : BOOLEAN, caughtUp : BOOLEAN]

ClusterInit ==
  /\ etcd \in [1..Dcs -> {"down", "alone", "led"}]
  /\ holder \in Member
  /\ role \in {f \in [Member -> Roles] : Cardinality({m \in Member : f[m] = "primary"}) < 2}
  /\ answers \in Answers
  /\ probe = NotProbing /\ status = NoStatus /\ verdict = "none" /\ steady = FALSE

-----------------------------------------------------------------------------
(* External: the cluster changes, at most once while a status is gathered;  *)
(* Patroni never lists two primaries.                                       *)

Changed == /\ steady /\ steady' = FALSE
           /\ UNCHANGED <<probe, status, verdict, probes>>

EtcdChanges(i, s) ==
  /\ etcd' = [etcd EXCEPT ![i] = s] /\ UNCHANGED <<holder, role, answers>> /\ Changed

LeaseMoves(m) == holder' = m /\ UNCHANGED <<etcd, role, answers>> /\ Changed

RoleChanges(m, r) ==
  /\ r = "primary" => \A o \in Member \ {m} : role[o] # "primary"
  /\ role' = [role EXCEPT ![m] = r] /\ UNCHANGED <<etcd, holder, answers>> /\ Changed

AnswerChanges(a) == answers' = a /\ UNCHANGED <<etcd, holder, role>> /\ Changed

-----------------------------------------------------------------------------
(* gather_status *)

Go(next) == /\ probe' = next
            /\ UNCHANGED <<etcd, holder, role, answers, probes>>

GatherStatus ==
  /\ probe = NotProbing
  /\ Go([step |-> "etcd", next |-> 1, up |-> 0, led |-> FALSE, leader |-> NoNode, listed |-> {}])
  /\ steady' = TRUE /\ status' = NoStatus /\ verdict' = "none"

\* _probe_etcd, one endpoint: those that do not answer are skipped.
ProbeEtcd ==
  /\ probe.step = "etcd"
  /\ LET e == etcd[probe.next] IN
     Go([probe EXCEPT !.step = IF probe.next = Dcs THEN "leaders" ELSE @,
                      !.next = @ + 1,
                      !.up = IF e = "down" THEN @ ELSE @ + 1,
                      !.led = @ \/ e = "led"])
  /\ UNCHANGED <<status, verdict, steady>>

\* _read_leaders: asks the first endpoint, if any of them answered; an endpoint
\* that fails, or that sees no leader, yields no leases.
ReadLeaders ==
  /\ probe.step = "leaders"
  /\ Go([probe EXCEPT !.step = "patroni",
                      !.leader = IF probe.up > 0 /\ etcd[1] = "led" THEN holder
                                 ELSE NoNode])
  /\ UNCHANGED <<status, verdict, steady>>

\* _probe_patroni and _member
ProbePatroni ==
  /\ probe.step = "patroni"
  /\ Go([probe EXCEPT !.step = "db",
           !.listed = IF answers.patroni
                      THEN {[node |-> m, role |-> role[m]] :
                              m \in {x \in Member : role[x] # "gone"}}
                      ELSE {}])
  /\ UNCHANGED <<status, verdict, steady>>

LocalRole == IF ~answers.db THEN "unknown"
             ELSE IF role[Self] = "primary" THEN "primary" ELSE "standby"

\* _probe_local_db and the rest of gather_status: this node is added if Patroni
\* does not list it.
Gather ==
  /\ probe.step = "db"
  /\ status' = [healthy |-> probe.up > 0, quorum |-> probe.led, leader |-> probe.leader,
                nodes |-> IF \E n \in probe.listed : n.node = Self THEN probe.listed
                          ELSE probe.listed \cup {[node |-> Self, role |-> LocalRole]}]
  /\ Go(NotProbing)
  /\ UNCHANGED <<verdict, steady>>

-----------------------------------------------------------------------------
(* /health/ready: the database, then the role of the node.  *)

CheckDatabase ==
  /\ probe = NotProbing
  /\ Go([step |-> "node", db |-> answers.db])
  /\ steady' = TRUE /\ status' = NoStatus /\ verdict' = "none"

\* local_node_ready: a Patroni that does not answer, or that is creating or
\* replaying a replica, is not ready.
LocalNodeReady == answers.patroni /\ answers.caughtUp

\* Both checks are made, whichever fails.
Ready ==
  /\ probe.step = "node"
  /\ verdict' = IF probe.db /\ LocalNodeReady THEN "ready" ELSE "not_ready"
  /\ Go(NotProbing)
  /\ UNCHANGED <<status, steady>>

ClusterNext ==
  \/ \E i \in 1..Dcs, s \in {"down", "alone", "led"} : EtcdChanges(i, s)
  \/ \E m \in Member : LeaseMoves(m) \/ \E r \in Roles : RoleChanges(m, r)
  \/ \E a \in Answers : AnswerChanges(a)
  \/ CheckDatabase \/ Ready
  \/ GatherStatus \/ ProbeEtcd \/ ReadLeaders \/ ProbePatroni \/ Gather

-----------------------------------------------------------------------------
(* Integration health *)

NoRefresh == [at |-> "rest"]
Good == {"ok", "disabled"}

ProbesInit ==
  /\ sick = [i \in Integration |-> "ok"]
  /\ health = [i \in Integration |-> [state |-> "none", errors |-> 0]]
  /\ refresh = [r \in Refresher |-> NoRefresh]
  /\ inRow = [i \in Integration |-> 0] /\ tangled = {}

\* External: an integration reports something else; "down" is also what a probe
\* that raises or takes longer than its time limit amounts to.
ReportChanges(i, s) ==
  /\ sick' = [sick EXCEPT ![i] = s]
  /\ UNCHANGED <<cluster, health, refresh, inRow, tangled>>

\* refresh: all integrations are probed together, before the transaction.
\* The tick of the worker leaves it at that if the table was written within the
\* interval; a page always goes on.
Probe(r) ==
  /\ refresh[r] = NoRefresh
  /\ refresh' = [refresh EXCEPT ![r] = [at |-> "probed", found |-> sick]]
  /\ UNCHANGED <<cluster, sick, health, inRow, tangled>>

\* The prior rows, read without a lock.
ReadPrior(r) ==
  /\ refresh[r].at = "probed"
  /\ refresh' = [refresh EXCEPT ![r] = [at |-> "read", found |-> @.found,
                                        prior |-> health]]
  /\ UNCHANGED <<cluster, sick, health, inRow, tangled>>

NewRow(found, was) ==
  [state |-> found,
   errors |-> IF found \in Good THEN 0 ELSE was.errors + 1]

\* The upserts commit.  A refresh that read its prior rows before another one
\* committed counts from what it read.
Upsert(r) ==
  /\ refresh[r].at = "read"
  /\ \A i \in Integration :
       /\ NewRow(refresh[r].found[i], refresh[r].prior[i]).errors <= MaxErrors
       /\ inRow[i] < MaxErrors \/ refresh[r].found[i] \in Good
  /\ health' = [i \in Integration |->
                  NewRow(refresh[r].found[i], refresh[r].prior[i])]
  /\ inRow' = [i \in Integration |-> IF refresh[r].found[i] \in Good THEN 0
                                     ELSE inRow[i] + 1]
  /\ tangled' = {i \in Integration :
                   \/ i \in tangled /\ refresh[r].found[i] \notin Good
                   \/ refresh[r].prior[i] # health[i] /\ refresh[r].found[i] \notin Good}
  /\ refresh' = [refresh EXCEPT ![r] = NoRefresh]
  /\ UNCHANGED <<cluster, sick>>

ProbesNext ==
  \/ \E i \in Integration, s \in {"ok", "degraded", "down", "disabled"} :
        ReportChanges(i, s)
  \/ \E r \in Refresher : Probe(r) \/ ReadPrior(r) \/ Upsert(r)

-----------------------------------------------------------------------------
\* The status and the readiness are true of a cluster that did not change while it was gathered,
\* whichever probes failed: it is healthy if an endpoint answers, has a quorum if
\* one of them sees a leader, never names a wrong holder of the lease, and names
\* this node exactly once, with its role or none.  Whatever changes, it shows at
\* most one primary besides this node itself.  The readiness page says ready only
\* of a node whose database answers and which is not catching up.
StatusIsTrue ==
  /\ status # NoStatus =>
       /\ Cardinality({n \in status.nodes : n.node = Self}) = 1
       /\ Cardinality({n \in status.nodes : n.role = "primary" /\ n.node # Self}) <= 1
  /\ status # NoStatus /\ steady /\ probe = NotProbing =>
       /\ status.healthy <=> \E i \in 1..Dcs : etcd[i] # "down"
       /\ status.quorum <=> \E i \in 1..Dcs : etcd[i] = "led"
       /\ status.leader \in {NoNode, holder}
       /\ etcd[1] = "led" => status.leader = holder
       /\ \A n \in status.nodes :
            n.role = role[n.node] \/ (n.node = Self /\ n.role \in {"unknown", LocalRole})
  /\ verdict # "none" /\ steady =>
       (verdict = "ready" <=> answers.db /\ answers.patroni /\ answers.caughtUp)

\* The count of failures in a row is right unless refreshes overlapped since the
\* last good one.  A count of zero and a good state always go together.
ErrorsInRow ==
  \A i \in Integration :
    /\ i \notin tangled => health[i].errors = inRow[i]
    /\ health[i].errors = 0 <=> health[i].state \in Good \cup {"none"}
=============================================================================
