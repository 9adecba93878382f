-------------------------- MODULE WorkflowService ---------------------------
(***************************************************************************)
(* The workflow runtime around the engine                                  *)
(* (server/bbz_core/infra/repositories/workflow_engine.py): one instance,  *)
(* its token, result and decision rows, and the handlers that load them,   *)
(* run the engine and store what it returns.                               *)
(*                                                                         *)
(* A handler is one READ COMMITTED transaction in three steps: it reads    *)
(* and runs the engine (Begin...), writes under row locks and settles      *)
(* (Apply), and commits. No row of the instance is locked for the reads.   *)
(* The guards keep their truth value during one handler.                   *)
(***************************************************************************)
EXTENDS WorkflowEngine

CONSTANTS
  StartNode,     \* the start node
  Actors,     \* database sessions: operators' requests and the timer worker
  MaxOpen,    \* bound: transactions that may be open at the same time
  ByLabel     \* TRUE: decisions name branches as the web panel does

VARIABLES
  db,   \* the committed rows: tokens, results, decided, outbox, status
  tx    \* tx[a]: the open transaction of session a

vars == <<db, tx>>

Tokens == [id : Nat, node : Nodes, in : 0 .. Len(Edges),
           state : {"active", "waiting", "consumed"}, armed : BOOLEAN]
Idle == [pc |-> "idle"]

TypeOK ==
  /\ db.tokens \in SUBSET Tokens
  /\ db.results \in [Nodes -> Nat]
  /\ db.decided \in [Splits -> SUBSET DOMAIN Edges]
  /\ db.outbox \in SUBSET Nodes
  /\ db.status \in {"none", "running", "completed"}
  /\ \A a \in Actors : tx[a].pc \in {"idle", "apply", "commit"}

Init ==
  /\ db = [tokens |-> {}, results |-> [n \in Nodes |-> 0], decided |-> NothingMade,
           outbox |-> {}, status |-> "none"]
  /\ tx = [a \in Actors |-> Idle]

Open == {a \in Actors : tx[a].pc # "idle"}
Applied == {a \in Actors : tx[a].pc = "commit"}

-----------------------------------------------------------------------------
Ids(T) == {t.id : t \in T}
Waiting(v) == {t \in v.tokens : t.state = "waiting"}

(* _tokens: the live tokens as a work list. At most one of them is ever      *)
(* active, so the order among the others does not matter.                    *)
LoadTokens(v) ==
  LET rows == SetToSortSeq({t \in v.tokens : t.state # "consumed"}, LAMBDA s, t : s.id < t.id)
  IN [i \in DOMAIN rows |-> [id |-> rows[i].id, node |-> rows[i].node,
                             in |-> rows[i].in, state |-> rows[i].state]]

(* Row ids are unique across open transactions.                              *)
LastId(v) ==
  Max(Ids(v.tokens) \cup {0} \cup UNION {Ids(tx[a].delta.tokens) : a \in Applied})

(* _apply: what the engine did to the loaded work list "before" becomes      *)
(* updates by id and inserts; completion is judged on that list alone.       *)
Store(v, before, st) ==
  LET moved(t) == {i \in DOMAIN before :
                     before[i].id = t.id /\ st.work[i].state # before[i].state}
      spawned == SetToSortSeq({i \in DOMAIN st.work :
                                 st.work[i].id = 0 /\ st.work[i].state = "waiting"}, <)
  IN [v EXCEPT
       !.tokens = {IF moved(t) = {} THEN t
                   ELSE [t EXCEPT !.state = st.work[Min(moved(t))].state] : t \in @}
          \cup {[id |-> LastId(v) + k, node |-> st.work[spawned[k]].node,
                 in |-> st.work[spawned[k]].in, state |-> "waiting", armed |-> FALSE]
                : k \in DOMAIN spawned},
       !.decided = [n \in Splits |-> IF st.made[n] # {} THEN st.made[n] ELSE @[n]],
       !.status = IF Settled(st.work) THEN "completed" ELSE @]

(* A WorkflowTaskResult row and its audit entry.                             *)
Record(v, n) == [v EXCEPT !.results[n] = @ + 1]
StepDone(v, n) == v.results[n] > 0

ArmTimers(v) ==
  [v EXCEPT !.tokens = {IF t.state = "waiting" /\ Kind[t.node] = "timer" /\ ~t.armed
                        THEN [t EXCEPT !.armed = TRUE] ELSE t : t \in @}]

(* _run_auto: enqueue the action, record the step, resume the token.         *)
Enqueue(v, n) == Record([v EXCEPT !.outbox = @ \cup {n}], n)

(* _settle: arm fresh timers and run automatic steps until only an operator  *)
(* or a due timer can move the instance on. Each outcome is a view.          *)
RECURSIVE Settle(_, _)
Settle(v, holds) ==
  LET w == ArmTimers(v)
      autos == {t.node : t \in {u \in Waiting(w) : Kind[u.node] = "auto" /\ ~StepDone(w, u.node)}}
      ran(n) == {Store(Enqueue(w, n), LoadTokens(w), st) :
                   st \in Resume(LoadTokens(w), n, w.decided, holds)}
  IN IF autos = {} THEN {w}
     ELSE UNION {UNION {Settle(u, holds) : u \in ran(n)} : n \in autos}

(* _drive: the engine on the tokens as they are now.                         *)
Drive(v, holds) ==
  UNION {Settle(Store(v, LoadTokens(v), st), holds) :
           st \in Advance(LoadTokens(v), v.decided, holds)}

Activate(v, id) ==
  [v EXCEPT !.tokens = {IF t.id = id THEN [t EXCEPT !.state = "active"] ELSE t : t \in @}]
Disarm(v, id) ==
  [v EXCEPT !.tokens = {IF t.id = id THEN [t EXCEPT !.armed = FALSE] ELSE t : t \in @}]

-----------------------------------------------------------------------------
(* start_instance, its seed token and first drive: nobody sees the instance  *)
(* before the commit.                                                        *)
StartInstance(holds) ==
  /\ db.status = "none"
  /\ db' \in Drive([db EXCEPT !.status = "running",
                     !.tokens = {[id |-> 1, node |-> StartNode, in |-> 0,
                                  state |-> "active", armed |-> FALSE]}], holds)
  /\ UNCHANGED tx

CanOpen(a) == tx[a] = Idle /\ db.status # "none" /\ Cardinality(Open) < MaxOpen
Begin(a, r) == tx' = [tx EXCEPT ![a] = r] /\ UNCHANGED db

(* complete_step: a step with a result is a no-op; otherwise the loaded      *)
(* tokens go through resume_function, which raises if none waits at n.       *)
BeginStep(a, n, holds) ==
  /\ n \in FunctionNodes /\ ~StepDone(db, n)
  /\ \E st \in Resume(LoadTokens(db), n, db.decided, holds) :
       Begin(a, [pc |-> "apply", op |-> "step", node |-> n, holds |-> holds,
                 before |-> LoadTokens(db), st |-> st, lock |-> {}])

(* The handler finds the instance of the event first.                        *)
CompleteWorkflowStep(a, n, holds) == CanOpen(a) /\ BeginStep(a, n, holds)

(* decide: the names a client sends are accepted if they are keys of         *)
(* outgoing edges, exactly one of them at an XOR split, and a token is       *)
(* parked there.                                                             *)
Names(n) ==
  {{IF ByLabel THEN Edges[e].branch ELSE Edges[e].key : e \in E} : E \in SUBSET Out(n) \ {{}}}
Chosen(n, names) == {e \in Out(n) : Edges[e].key \in names}

ValidChoice(n, names) ==
  /\ names \subseteq {Edges[e].key : e \in Out(n)}
  /\ Kind[n] = "xor_split" => Cardinality(names) = 1

BeginDecide(a, n, names, holds) ==
  /\ n \in Splits /\ db.decided[n] = {} /\ ValidChoice(n, names)
  /\ LET parked == {t \in Waiting(db) : t.node = n}
     IN /\ Cardinality(parked) = 1
        /\ Begin(a, [pc |-> "apply", op |-> "decide", node |-> n, holds |-> holds,
                     chosen |-> Chosen(n, names), id |-> Max(Ids(parked)), lock |-> {}])

DecideWorkflowBranch(a, n, names, holds) == CanOpen(a) /\ BeginDecide(a, n, names, holds)

(* advance_instance, for a running instance only.                            *)
BeginAdvance(a, holds) ==
  /\ CanOpen(a) /\ db.status = "running"
  /\ Begin(a, [pc |-> "apply", op |-> "advance", holds |-> holds, lock |-> {}])

(* fire_due_timers: the due rows are locked as they are read; rows another   *)
(* transaction has locked are skipped.                                       *)
Locked(a) == UNION {tx[b].lock : b \in Open \ {a}}

BeginTimers(a, holds) ==
  /\ CanOpen(a)
  /\ LET armed == {t \in Waiting(db) : t.armed /\ t.id \notin Locked(a)}
     IN \E due \in SUBSET armed \ {{}} :
          Begin(a, [pc |-> "apply", op |-> "timers", holds |-> holds,
                    rows |-> due, lock |-> Ids(due)])

(* One due row: disarmed; skipped if the instance or the step is done,       *)
(* otherwise recorded, resumed and settled.                                  *)
FireRow(v, t, holds) ==
  LET w == Disarm(v, t.id)
  IN IF v.status # "running" \/ StepDone(v, t.node) THEN {w}
     ELSE UNION {Settle(Store(Record(w, t.node), LoadTokens(w), st), holds) :
                   st \in Resume(LoadTokens(w), t.node, w.decided, holds)}

RECURSIVE FireRows(_, _, _)
FireRows(v, rows, holds) ==
  IF rows = {} THEN {v}
  ELSE UNION {UNION {FireRows(w, rows \ {t}, holds) : w \in FireRow(v, t, holds)} : t \in rows}

(* The views a handler's writes can lead to, on top of what is committed     *)
(* when they happen.                                                         *)
Outcomes(r) ==
  CASE r.op = "step"    -> Settle(Record(Store(db, r.before, r.st), r.node), r.holds)
    [] r.op = "decide"  -> Drive([Activate(db, r.id) EXCEPT !.decided[r.node] = r.chosen], r.holds)
    [] r.op = "advance" -> Drive(db, r.holds)
    [] r.op = "timers"  -> FireRows(db, r.rows, r.holds)

(* What the transaction wrote, and the rows as they are once it commits.     *)
Delta(v) ==
  [tokens |-> v.tokens \ db.tokens,
   results |-> [n \in Nodes |-> v.results[n] - db.results[n]],
   decided |-> [n \in Splits |-> IF v.decided[n] = db.decided[n] THEN {} ELSE v.decided[n]],
   outbox |-> v.outbox, done |-> v.status = "completed"]

Apply(a) ==
  /\ tx[a].pc = "apply"
  /\ \E v \in Outcomes(tx[a]) :
       /\ Ids(v.tokens \ db.tokens) \cap Locked(a) = {}
       /\ tx' = [tx EXCEPT ![a] = [pc |-> "commit", delta |-> Delta(v),
                                   lock |-> Ids(v.tokens \ db.tokens)]]
  /\ UNCHANGED db

Commit(a) ==
  /\ tx[a].pc = "commit"
  /\ LET d == tx[a].delta
     IN db' = [tokens |-> {t \in db.tokens : t.id \notin Ids(d.tokens)} \cup d.tokens,
               results |-> [n \in Nodes |-> db.results[n] + d.results[n]],
               decided |-> [n \in Splits |-> IF d.decided[n] = {} THEN db.decided[n]
                                             ELSE d.decided[n]],
               outbox |-> db.outbox \cup d.outbox,
               status |-> IF d.done THEN "completed" ELSE db.status]
  /\ tx' = [tx EXCEPT ![a] = Idle]

(* The node dies or the handler raises: the transaction rolls back.          *)
Rollback(a) ==
  /\ tx[a].pc # "idle"
  /\ tx' = [tx EXCEPT ![a] = Idle]
  /\ UNCHANGED db

Guards == {e \in DOMAIN Edges : Edges[e].guarded}

Next ==
  \/ \E holds \in SUBSET Guards : StartInstance(holds)
  \/ \E a \in Actors : CanOpen(a) /\ \E holds \in SUBSET Guards :
       \/ \E n \in FunctionNodes : CompleteWorkflowStep(a, n, holds)
       \/ \E n \in Splits : \E names \in Names(n) :
            DecideWorkflowBranch(a, n, names, holds)
       \/ BeginAdvance(a, holds) \/ BeginTimers(a, holds)
  \/ \E a \in Actors : Apply(a) \/ Commit(a) \/ Rollback(a)

Spec == Init /\ [][Next]_vars

-----------------------------------------------------------------------------
AtRest == Open = {}
CanMove(t) ==
  /\ t.state = "waiting"
  /\ \/ t.node \in FunctionNodes /\ ~StepDone(db, t.node)
     \/ t.node \in Splits /\ db.decided[t.node] = {}

(* A running instance is never stranded: some step waits for an operator, a  *)
(* timer or a decision (the engine parks, "never a wrong path").             *)
NoDeadEnd == AtRest /\ db.status = "running" => \E t \in db.tokens : CanMove(t)

(* engine.py: an AND join "fires once a token is parked for every incoming   *)
(* edge": no complete set of tokens is left lying at an AND join.            *)
AndJoinFires ==
  AtRest => \A n \in Nodes :
    Kind[n] = "and_join" => ~(In(n) \subseteq {t.in : t \in {u \in Waiting(db) : u.node = n}})

(* engine.py: an OR join "fires once a token has arrived and no other live   *)
(* token can still reach the join".                                          *)
OrJoinFires ==
  AtRest => \A t \in Waiting(db) :
    Kind[t.node] = "or_join" =>
      \E u \in Waiting(db) : u.node # t.node /\ <<u.node, t.node>> \in Paths

(* A join lets one token through: no step of an acyclic graph is entered a   *)
(* second time, because a join fired before its last branch had arrived.     *)
StepEnteredOnce ==
  \A s, t \in db.tokens : s.node = t.node /\ s.node \in FunctionNodes => s = t

(* The instance is completed exactly when no token is left, and a recorded   *)
(* step has given up its token.                                              *)
CompletionIsExact ==
  AtRest /\ db.status # "none" =>
    /\ db.status = "completed" <=> \A t \in db.tokens : t.state = "consumed"
    /\ \A t \in Waiting(db) : ~StepDone(db, t.node)

(* simulate.py: "the simulated path is the path the live runtime would       *)
(* take". With the decisions an instance has recorded, the dry run takes     *)
(* every step and notes every action the instance has, in whatever order its *)
(* operators and timers came; of a completed instance it takes no other.     *)
DryRunAgrees ==
  AtRest /\ db.status # "none" =>
    LET done == {n \in Nodes : StepDone(db, n)} IN
    \E sim \in Simulate(StartNode, db.decided, {}) :
      /\ done \subseteq sim.steps /\ db.outbox \subseteq sim.outbox
      /\ db.status = "completed" =>
           sim.tokens = <<>> /\ done = sim.steps /\ db.outbox = sim.outbox

=============================================================================
