--------------------------- MODULE WorkflowEngine ---------------------------
(***************************************************************************)
(* The pure EPK token engine (server/bbz_core/domain/workflow/engine.py).  *)
(* A work list is a sequence of tokens, the persisted ones first (id > 0), *)
(* the spawned ones behind them (id = 0). The engine maps a work list to   *)
(* the quiescent one; holds is the set of edges whose rule-DSL condition   *)
(* is true in the context of the call.                                     *)
(***************************************************************************)
EXTENDS Naturals, Sequences, SequencesExt, FiniteSets, FiniteSetsExt

CONSTANTS
  Kind,   \* Kind[n]: what node n is
  Edges   \* the edges in key order: key, from, to, branch (label), guarded

Nodes == DOMAIN Kind
FunctionKinds == {"manual", "timer", "auto"}
Kinds == FunctionKinds \cup {"event", "and_split", "and_join", "xor_split", "xor_join",
                             "or_split", "or_join"}

(* _Index: the edges around a node, and the nodes behind it.                 *)
Out(n) == {e \in DOMAIN Edges : Edges[e].from = n}
In(n) == {e \in DOMAIN Edges : Edges[e].to = n}
Paths ==
  LET through(u, R) == R \cup {<<p[1], q[2]>> : p \in {r \in R : r[2] = u},
                                                q \in {r \in R : r[1] = u}}
  IN FoldSet(through, {<<Edges[e].from, Edges[e].to>> : e \in DOMAIN Edges}, Nodes)
FunctionNodes == {n \in Nodes : Kind[n] \in FunctionKinds}
Splits == {n \in Nodes : Kind[n] \in {"and_split", "xor_split", "or_split"}}

-----------------------------------------------------------------------------
Active(work) == {i \in DOMAIN work : work[i].state = "active"}
Present(work, n) == {i \in DOMAIN work : work[i].node = n /\ work[i].state # "consumed"}
Settled(work) == \A i \in DOMAIN work : work[i].state = "consumed"

Mark(work, I, s) ==
  [i \in DOMAIN work |-> IF i \in I THEN [work[i] EXCEPT !.state = s] ELSE work[i]]

(* _spawn_on: one active token per edge, in edge-key order.                  *)
Spawn(work, E) ==
  LET order == SetToSortSeq(E, <)
  IN work \o [k \in DOMAIN order |->
                [id |-> 0, node |-> Edges[order[k]].to, in |-> order[k], state |-> "active"]]

(* _fire_join: every token parked at the join goes, one goes on.             *)
FireJoin(work, n) == Spawn(Mark(work, Present(work, n), "consumed"), Out(n))

(* AND join: a token is parked for every incoming edge.                      *)
AndReadyPersisted(work, n) ==                                        \* mutant
  In(n) # {} /\ In(n) \subseteq {work[i].in : i \in {j \in Present(work, n) : work[j].id > 0}}
AndReady(work, n) == In(n) # {} /\ In(n) \subseteq {work[i].in : i \in Present(work, n)}

(* OR join: no other live token can still reach the join.                    *)
OrReady(work, n) ==
  ~ \E i \in DOMAIN work :
      work[i].state # "consumed" /\ work[i].node # n /\ <<work[i].node, n>> \in Paths

Ready(work, n) ==
  \/ Kind[n] = "and_join" /\ AndReady(work, n)
  \/ Kind[n] = "xor_join"
  \/ Kind[n] = "or_join" /\ OrReady(work, n)

(* _auto_branches: an XOR split takes the first branch whose condition       *)
(* holds, else its first unguarded one; an OR split every branch that is     *)
(* unguarded or holds. The empty set: nothing resolves.                      *)
AutoBranches(n, holds) ==
  LET true == {e \in Out(n) : Edges[e].guarded /\ e \in holds}
      default == {e \in Out(n) : ~Edges[e].guarded}
      first(E) == IF E = {} THEN {} ELSE {Min(E)}
  IN IF Kind[n] = "xor_split"
     THEN IF true # {} THEN first(true) ELSE first(default)
     ELSE true \cup default

(* _choice_split: the recorded decision, else the automatic branches, which  *)
(* are reported in made, else wait for an operator.                          *)
ChoiceSplit(st, i, decided, holds) ==
  LET n == st.work[i].node
      auto == AutoBranches(n, holds)
      take(E) == Spawn(Mark(st.work, {i}, "consumed"), E)
  IN IF decided[n] # {} THEN [st EXCEPT !.work = take(decided[n] \cap Out(n))]
     ELSE IF auto = {} THEN [st EXCEPT !.work = Mark(@, {i}, "waiting")]
     ELSE [work |-> take(auto), made |-> [st.made EXCEPT ![n] = auto]]

Arrive(work, i) ==
  LET parked == Mark(work, {i}, "waiting")
  IN IF Ready(parked, work[i].node) THEN FireJoin(parked, work[i].node) ELSE parked

(* _process and _connector: one active token, by the kind of its node.       *)
Process(st, i, decided, holds) ==
  LET n == st.work[i].node
  IN IF Kind[n] \in FunctionKinds
     THEN [st EXCEPT !.work = Mark(@, {i}, "waiting")]
     ELSE IF Kind[n] \in {"event", "and_split"}
     THEN [st EXCEPT !.work = Spawn(Mark(@, {i}, "consumed"), Out(n))]
     ELSE IF n \in Splits THEN ChoiceSplit(st, i, decided, holds)
     ELSE [st EXCEPT !.work = Arrive(@, i)]

(* _run_loop: the first active token, until none is left or the budget of    *)
(* the totality guard is spent (the code raises; no result here).            *)
RECURSIVE RunLoop(_, _, _, _)
RunLoop(st, decided, holds, budget) ==
  IF Active(st.work) = {} THEN {st}
  ELSE IF budget = 0 THEN {}
  ELSE RunLoop(Process(st, Min(Active(st.work)), decided, holds), decided, holds, budget - 1)

Budget(work) ==
  (Cardinality(Nodes) + Len(Edges) + Len(work)) * (Cardinality(Nodes) + 1) + 100

NothingMade == [n \in Splits |-> {}]

(* advance: the engine's outcome for a work list (no outcome: it raised).    *)
Advance(work, decided, holds) ==
  RunLoop([work |-> work, made |-> NothingMade], decided, holds, Budget(work))

(* resume_function: the first token waiting at n is consumed and moves on.   *)
Resume(work, n, decided, holds) ==
  LET waiting == {i \in DOMAIN work : work[i].node = n /\ work[i].state = "waiting"}
  IN IF waiting = {} THEN {}
     ELSE Advance(Spawn(Mark(work, {Min(waiting)}, "consumed"), Out(n)), decided, holds)
-----------------------------------------------------------------------------
(* simulate.py: the dry run of a graph on the same engine. Every step is     *)
(* completed at once, an automatic one is noted as the action it would send. *)
StillLive(work) == SelectSeq(work, LAMBDA t : t.state # "consumed")

(* _run_function: the step, and _apply of what the engine made of it.        *)
RunFunctionAlone(sim, n, st) ==                                      \* mutant
  [tokens |-> SelectSeq(StillLive(st.work), LAMBDA t : \A i \in DOMAIN sim.tokens : sim.tokens[i] # t),
   steps |-> sim.steps \cup {n},
   outbox |-> IF Kind[n] = "auto" THEN sim.outbox \cup {n} ELSE sim.outbox]
RunFunction(sim, n, st) ==
  [tokens |-> StillLive(st.work), steps |-> sim.steps \cup {n},
   outbox |-> IF Kind[n] = "auto" THEN sim.outbox \cup {n} ELSE sim.outbox]

(* _act, until no token is parked at a step: the first such token moves.     *)
RECURSIVE Act(_, _, _, _)
Act(sim, decided, holds, budget) ==
  LET parked == {i \in DOMAIN sim.tokens : sim.tokens[i].node \in FunctionNodes}
      n == sim.tokens[Min(parked)].node
  IN IF parked = {} THEN {sim}
     ELSE IF budget = 0 THEN {}
     ELSE UNION {Act(RunFunction(sim, n, st), decided, holds, budget - 1) :
                   st \in Resume(sim.tokens, n, decided, holds)}

Simulate(start, decided, holds) ==
  LET token == [id |-> 1, node |-> start, in |-> 0, state |-> "active"]
  IN UNION {Act([tokens |-> StillLive(st.work), steps |-> {}, outbox |-> {}], decided, holds,
                (Cardinality(Nodes) + Len(Edges)) * 4 + 50) :
              st \in Advance(<<token>>, decided, holds)}
=============================================================================
