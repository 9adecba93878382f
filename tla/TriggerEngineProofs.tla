------------------------ MODULE TriggerEngineProofs -------------------------
(***************************************************************************)
(* Proofs about TriggerEngine, for any signals, rules, nodes and operators.*)
(* An action is claimed in the ledger before it has any effect, and the    *)
(* claim commits with the effect or, for attach_workflow, belongs to one   *)
(* drain until it is settled (Exclusive). So an action has its effect at   *)
(* most once and is audited once, and what a drain leaves behind it in its *)
(* work list is claimed, so a signal is marked only when all is claimed.   *)
(***************************************************************************)
EXTENDS TriggerEngine, WellFoundedInduction, TLAPS

(* One step forward and one back.                                            *)
LEMMA OneBack == \A m \in Nat : (m + 1) - 1 = m
  OBVIOUS

(* A non-empty set of naturals has a minimum.                                *)
LEMMA MinIsIn ==
  ASSUME NEW S \in SUBSET Nat, S # {}
  PROVE  Min(S) \in S
<1> DEFINE R == {p \in Nat \X Nat : p[1] < p[2]}
<1>1. IsWellFoundedOn(R, Nat)
  BY NatLessThanWellFounded, Zenon DEF OpToRel
<1>2. \E x \in S : \A y \in S : ~(<<y, x>> \in R)
  <2> HIDE DEF R
  <2> QED BY <1>1, WFMin, Zenon
<1>3. \A x, y \in Nat : y < x => <<y, x>> \in R
  OBVIOUS
<1>4. \E x \in S : \A y \in S : x <= y
  <2> HIDE DEF R
  <2>1. PICK x \in S : \A y \in S : ~(<<y, x>> \in R)
    BY <1>2
  <2>2. ASSUME NEW y \in S PROVE x <= y
    <3>1. x \in Nat /\ y \in Nat /\ ~(y < x)
      BY <1>3, <2>1, Zenon
    <3> QED BY <3>1
  <2> QED BY <2>2
<1> QED BY <1>4, Zenon DEF Min

-----------------------------------------------------------------------------
(* The inductive invariant. Its parts are written over the values of the     *)
(* variables, so that the same operator speaks of a state and of the next.   *)
InRule == {"action", "failing", "claimed", "starting", "started"}

(* A drain that is on the way from the claim of an attach_workflow action to *)
(* its verdict.                                                              *)
Attaching(d) == d.pc \in InRule \ {"action"} /\ Kind(d.key) = "attach_workflow"

(* A drain works on rows that exist, the event it carries was created by an  *)
(* earlier action of the same rule run, and the claim it holds is pending.   *)
Place(d, box, led, ins) ==
  /\ d.pc # "idle" => d.rows \subseteq DOMAIN box
  /\ d.pc \in InRule =>
       /\ d.key.row = Min(d.rows)
       /\ d.event # NoEvent => \E j \in 1 .. d.key.index - 1 : d.event = [d.key EXCEPT !.index = j]
  /\ d.pc \in {"claimed", "starting", "started"} =>
       Kind(d.key) = "attach_workflow" /\ d.event # NoEvent
  /\ d.pc = "started" => ins[d.event] > 0
  /\ Attaching(d) => led[d.key] = "pending"

Exclusive(ws) ==
  \A v, w \in Workers : Attaching(ws[v]) /\ Attaching(ws[w]) /\ ws[v].key = ws[w].key => v = w

Entry(k, led, eff, aud, ins) ==
  /\ eff[k] = IF led[k] = "succeeded" /\ Kind(k) # "attach_workflow" THEN 1 ELSE 0
  /\ aud[k] = IF led[k] \in {"none", "pending"} THEN 0 ELSE 1
  /\ led[k] = "pending" => Kind(k) = "attach_workflow"
  /\ Kind(k) = "attach_workflow" /\ led[k] = "succeeded" =>
       \E j \in 1 .. k.index - 1 : ins[[k EXCEPT !.index = j]] > 0

Distinct(box) == \A i, j \in DOMAIN box : box[i].signal = box[j].signal => i = j

IInv ==
  /\ TypeOK /\ Distinct(inbox) /\ Exclusive(worker)
  /\ \A w \in Workers : Place(worker[w], inbox, ledger, instances)
  /\ \A k \in Keys : Entry(k, ledger, effects, audits, instances)

-----------------------------------------------------------------------------
(* What the types say of keys and drains.                                    *)
LEMMA KeyShape ==
  ASSUME NEW k \in Keys
  PROVE  /\ k.row \in 1 .. MaxRows /\ k.rule \in RuleSet /\ k.version \in 1 .. MaxVersion
         /\ k.index \in 1 .. Len(Script[k.rule]) /\ Len(Script[k.rule]) \in Nat
         /\ k.index \in Nat
         /\ \A j \in 1 .. Len(Script[k.rule]) :
              /\ [k EXCEPT !.index = j] \in Keys
              /\ [k EXCEPT !.index = j] = Key(k.row, k.rule, k.version, j)
<1>1. PICK r \in RuleSet : k \in [row : 1 .. MaxRows, rule : {r}, version : 1 .. MaxVersion,
                                  index : 1 .. Len(Script[r])]
  BY DEF Keys
<1>2. Len(Script[r]) \in Nat
  BY TriggerAssumption
<1>3. ASSUME NEW j \in 1 .. Len(Script[r])
      PROVE  [k EXCEPT !.index = j] = Key(k.row, k.rule, k.version, j) /\ [k EXCEPT !.index = j] \in Keys
  <2>1. [k EXCEPT !.index = j] = Key(k.row, k.rule, k.version, j)
    BY <1>1 DEF Key
  <2>2. [k EXCEPT !.index = j] \in [row : 1 .. MaxRows, rule : {r}, version : 1 .. MaxVersion,
                                   index : 1 .. Len(Script[r])]
    BY <1>1
  <2> QED BY <2>1, <2>2 DEF Keys
<1> QED BY <1>1, <1>2, <1>3

(* A row, a rule, a version and an index within their bounds are a key.      *)
LEMMA KeyIsKey ==
  ASSUME NEW i \in 1 .. MaxRows, NEW r \in RuleSet, NEW v \in 1 .. MaxVersion,
         NEW j \in 1 .. Len(Script[r])
  PROVE  Key(i, r, v, j) \in Keys
BY DEF Key, Keys

(* The absence of an event is told apart from every key.                     *)
LEMMA NoEventIsNoKey == NoEvent \notin Keys
<1> SUFFICES ASSUME NoEvent \in Keys PROVE FALSE
  OBVIOUS
<1>1. NoEvent.row \in 1 .. MaxRows
  BY KeyShape
<1> QED BY <1>1, TriggerAssumption DEF NoEvent

(* What a drain holds at each point of process_inbox_event.                  *)
LEMMA DrainShape ==
  ASSUME NEW d \in Drains
  PROVE  /\ d.pc # "idle" => d.rows \in SUBSET Nat
         /\ d.pc \in InRule \cup {"unmapped", "mark", "rule"} =>
              d.rows \in RowIds \ {{}} /\ Min(d.rows) \in d.rows
         /\ d.pc \in InRule \cup {"rule"} => d.left \in SUBSET DOMAIN Rules
         /\ d.pc \in InRule => d.key \in Keys /\ d.event \in Keys \cup {NoEvent}
         /\ d.pc \in InRule => d = [pc |-> d.pc, rows |-> d.rows, left |-> d.left,
                                    event |-> d.event, key |-> d.key]
         /\ d.pc = "row" => d.rows \in RowIds
<1>1. RowIds \subseteq SUBSET Nat
  BY TriggerAssumption DEF RowIds
<1>2. d.pc \in InRule \cup {"unmapped", "mark", "rule"} => d.rows \in RowIds \ {{}}
  BY DEF Drains, Idle, InRule
<1>3. d.pc \in InRule \cup {"unmapped", "mark", "rule"} => Min(d.rows) \in d.rows
  BY <1>1, <1>2, MinIsIn
<1>4. d.pc \in InRule => d.key \in Keys /\ d.event \in Keys \cup {NoEvent}
  BY DEF Drains, Idle, InRule
<1>5. d.pc # "idle" => d.rows \in RowIds
  BY DEF Drains, Idle
<1>6. d.pc \in InRule \cup {"rule"} => d.left \in SUBSET DOMAIN Rules
  BY DEF Drains, Idle, InRule
<1>7. d.pc \in InRule => d = [pc |-> d.pc, rows |-> d.rows, left |-> d.left,
                             event |-> d.event, key |-> d.key]
  BY DEF Drains, Idle, InRule
<1> QED BY <1>1, <1>2, <1>3, <1>4, <1>5, <1>6, <1>7

(* Where a drain stands when it goes on behind the action it is at.          *)
LEMMA AfterShape ==
  ASSUME IInv, NEW w \in Workers, worker[w].pc \in InRule, NEW e,
         e = worker[w].event \/ e = K(w)
  PROVE  LET d == After(w, e)
         IN /\ d \in Drains /\ d.rows = worker[w].rows /\ d.left = worker[w].left
            /\ ~Attaching(d)
            /\ \A led, ins : Place(d, inbox, led, ins)
            /\ \/ d.pc = "rule" /\ K(w).index = Len(Script[K(w).rule])
               \/ d.pc = "action" /\ d.key = [K(w) EXCEPT !.index = @ + 1]
<1>1. /\ worker[w] \in Drains /\ K(w) \in Keys /\ worker[w].event \in Keys \cup {NoEvent}
      /\ worker[w].rows \in RowIds \ {{}} /\ worker[w].left \in SUBSET DOMAIN Rules
      /\ worker[w] = [pc |-> worker[w].pc, rows |-> worker[w].rows, left |-> worker[w].left,
                      event |-> worker[w].event, key |-> K(w)]
  BY DrainShape DEF IInv, TypeOK, K
<1>2. /\ worker[w].rows \subseteq DOMAIN inbox /\ K(w).row = Min(worker[w].rows)
      /\ worker[w].event # NoEvent =>
           \E j \in 1 .. K(w).index - 1 : worker[w].event = [K(w) EXCEPT !.index = j]
  BY DEF IInv, Place, K, InRule
<1>3. CASE K(w).index = Len(Script[K(w).rule])
  <2>1. After(w, e) = [pc |-> "rule", rows |-> worker[w].rows, left |-> worker[w].left]
    BY <1>3 DEF After
  <2>2. After(w, e) \in Drains
    BY <1>1, <2>1 DEF Drains
  <2> QED BY <1>2, <1>3, <2>1, <2>2 DEF Place, Attaching, InRule
<1>4. CASE K(w).index # Len(Script[K(w).rule])
  <2> DEFINE k2 == [K(w) EXCEPT !.index = @ + 1]
  <2>1. /\ K(w).index + 1 \in 1 .. Len(Script[K(w).rule]) /\ K(w).index \in Nat
        /\ K(w).index \in 1 .. Len(Script[K(w).rule])
    BY <1>1, <1>4, KeyShape
  <2>2. k2 \in Keys /\ k2 = Key(K(w).row, K(w).rule, K(w).version, K(w).index + 1)
    BY <1>1, <2>1, KeyShape
  <2>3. \A j \in 1 .. K(w).index : [k2 EXCEPT !.index = j] = [K(w) EXCEPT !.index = j]
    BY <1>1, <2>1, <2>2, KeyShape, Zenon DEF Key
  <2>4. K(w) = [K(w) EXCEPT !.index = K(w).index]
    BY <1>1 DEF Keys
  <2>5. After(w, e) = [pc |-> "action", rows |-> worker[w].rows, left |-> worker[w].left,
                       event |-> e, key |-> k2]
    BY <1>1, <1>4, Zenon DEF After, K
  <2>6. After(w, e) \in Drains
    BY <1>1, <2>2, <2>5 DEF Drains
  <2>7. k2.row = K(w).row /\ k2.index = K(w).index + 1
    BY <2>2 DEF Key
  <2>8. e # NoEvent => \E j \in 1 .. k2.index - 1 : e = [k2 EXCEPT !.index = j]
    <3>1. CASE e = K(w)
      <4>1. K(w).index \in 1 .. k2.index - 1 /\ K(w).index \in 1 .. K(w).index
        BY <2>1, <2>7
      <4>2. e = [k2 EXCEPT !.index = K(w).index]
        BY <2>3, <2>4, <3>1, <4>1, Zenon
      <4> QED BY <4>1, <4>2, Zenon
    <3>2. CASE e = worker[w].event /\ e # NoEvent
      <4>1. PICK j \in 1 .. K(w).index - 1 : e = [K(w) EXCEPT !.index = j]
        BY <1>2, <3>2
      <4>2. j \in 1 .. K(w).index /\ j \in 1 .. k2.index - 1
        BY <2>1, <2>7
      <4>3. e = [k2 EXCEPT !.index = j]
        BY <2>3, <4>1, <4>2, Zenon
      <4> QED BY <4>2, <4>3, Zenon
    <3> QED BY <3>1, <3>2, Zenon
  <2> HIDE DEF k2
  <2>9. /\ After(w, e).pc = "action" /\ After(w, e).rows = worker[w].rows
        /\ After(w, e).left = worker[w].left /\ After(w, e).key = k2 /\ After(w, e).event = e
    BY <2>5
  <2>10. \A led, ins : Place(After(w, e), inbox, led, ins)
    BY <1>2, <2>7, <2>8, <2>9 DEF Place, Attaching
  <2>11. ~Attaching(After(w, e))
    BY <2>9 DEF Attaching
  <2> QED BY <2>6, <2>9, <2>10, <2>11 DEF k2
<1> QED BY <1>3, <1>4

(* A drain keeps its place while the tables only grow around it.             *)
LEMMA PlaceKept ==
  ASSUME NEW d \in Drains, NEW b1, NEW b2, NEW l1, NEW l2, NEW i1, NEW i2,
         Place(d, b1, l1, i1), DOMAIN b1 \subseteq DOMAIN b2,
         \A k \in Keys : i1[k] > 0 => i2[k] > 0,
         Attaching(d) => l2[d.key] = "pending"
  PROVE  Place(d, b2, l2, i2)
<1>1. d.pc = "started" => d.event \in Keys
  BY DrainShape DEF Place, InRule
<1> QED BY <1>1 DEF Place

(* What one drain's step means for the others: their claims are theirs.      *)
LEMMA OthersKeep ==
  ASSUME IInv, NEW w \in Workers, NEW d \in Drains, Goto(w, d),
         DOMAIN inbox \subseteq DOMAIN inbox',
         \A k \in Keys : instances[k] > 0 => instances'[k] > 0,
         \A k \in Keys : ledger[k] = "pending" =>
           ledger'[k] = "pending" \/ (Attaching(worker[w]) /\ k = K(w)),
         Place(d, inbox', ledger', instances'),
         Attaching(d) => ledger[d.key] = "none" \/ (Attaching(worker[w]) /\ d.key = K(w))
  PROVE  /\ worker' \in [Workers -> Drains] /\ Exclusive(worker')
         /\ \A v \in Workers : Place(worker'[v], inbox', ledger', instances')
<1>1. /\ worker' \in [Workers -> Drains] /\ worker'[w] = d
      /\ \A v \in Workers : v # w => worker'[v] = worker[v]
  BY DEF IInv, TypeOK, Goto
<1>2. /\ \A v \in Workers : worker[v] \in Drains /\ Place(worker[v], inbox, ledger, instances)
      /\ Exclusive(worker)
  BY DEF IInv, TypeOK
<1>3. ASSUME NEW v \in Workers, v # w, Attaching(worker[v])
      PROVE  /\ worker[v].key \in Keys /\ ledger[worker[v].key] = "pending"
             /\ ledger'[worker[v].key] = "pending"
             /\ ~(Attaching(worker[w]) /\ worker[v].key = K(w))
  <2>1. worker[v].key \in Keys
    BY <1>2, <1>3, DrainShape DEF Attaching
  <2>2. ledger[worker[v].key] = "pending"
    BY <1>2, <1>3 DEF Place
  <2>3. ~(Attaching(worker[w]) /\ worker[v].key = K(w))
    BY <1>2, <1>3 DEF Exclusive, K
  <2> QED BY <2>1, <2>2, <2>3
<1>4. ASSUME NEW v \in Workers PROVE Place(worker'[v], inbox', ledger', instances')
  <2>1. CASE v = w
    BY <1>1, <2>1
  <2>2. CASE v # w
    BY <1>1, <1>2, <1>3, <2>2, PlaceKept
  <2> QED BY <2>1, <2>2
<1>5. ASSUME NEW v \in Workers, v # w, Attaching(worker[v]), Attaching(d)
      PROVE  worker[v].key # d.key
  BY <1>3, <1>5
<1>6. Exclusive(worker')
  BY <1>1, <1>2, <1>5 DEF Exclusive
<1> QED BY <1>1, <1>4, <1>6

-----------------------------------------------------------------------------
(* A drain moves and the ledger, the inbox and the effects stay.             *)
LEMMA QuietStep ==
  ASSUME IInv, NEW w \in Workers, NEW d \in Drains, Goto(w, d),
         UNCHANGED <<inbox, rules, ledger, effects, audits, instances, template, operator>>,
         unmapped' \in [Signals -> Nat], crashes' \in 0 .. MaxCrashes,
         Place(d, inbox, ledger, instances),
         Attaching(d) => Attaching(worker[w]) /\ d.key = K(w)
  PROVE  IInv'
<1>1. /\ worker' \in [Workers -> Drains] /\ Exclusive(worker')
      /\ \A v \in Workers : Place(worker'[v], inbox', ledger', instances')
  BY OthersKeep
<1>2. TypeOK'
  BY <1>1 DEF IInv, TypeOK
<1>3. Distinct(inbox') /\ \A k \in Keys : Entry(k, ledger', effects', audits', instances')
  BY DEF IInv
<1> QED BY <1>1, <1>2, <1>3 DEF IInv

(* A drain writes the ledger entry of the action it is at, which nobody has  *)
(* claimed or which it holds itself.                                         *)
LEMMA LedgerStep ==
  ASSUME IInv, NEW w \in Workers, worker[w].pc \in InRule, NEW d \in Drains, Goto(w, d),
         NEW v \in {"pending", "succeeded", "failed"}, NEW n \in Nat, NEW m \in Nat,
         ledger[K(w)] = "none" \/ Attaching(worker[w]),
         ledger' = [ledger EXCEPT ![K(w)] = v],
         effects' = [effects EXCEPT ![K(w)] = n], audits' = [audits EXCEPT ![K(w)] = m],
         UNCHANGED <<inbox, rules, unmapped, instances, template, operator, crashes>>,
         Entry(K(w), ledger', effects', audits', instances),
         Place(d, inbox, ledger', instances),
         Attaching(d) => d.key = K(w)
  PROVE  IInv'
<1>1. K(w) \in Keys /\ ledger \in [Keys -> {"none", "pending", "succeeded", "failed"}]
      /\ effects \in [Keys -> Nat] /\ audits \in [Keys -> Nat]
  BY DrainShape DEF IInv, TypeOK, K
<1>2. \A k \in Keys : k # K(w) =>
        ledger'[k] = ledger[k] /\ effects'[k] = effects[k] /\ audits'[k] = audits[k]
  BY <1>1
<1>3. \A k \in Keys : ledger[k] = "pending" =>
        ledger'[k] = "pending" \/ (Attaching(worker[w]) /\ k = K(w))
  BY <1>2
<1>4. /\ worker' \in [Workers -> Drains] /\ Exclusive(worker')
      /\ \A u \in Workers : Place(worker'[u], inbox', ledger', instances')
  BY <1>3, OthersKeep, Zenon
<1>5. /\ ledger' \in [Keys -> {"none", "pending", "succeeded", "failed"}]
      /\ effects' \in [Keys -> Nat] /\ audits' \in [Keys -> Nat]
  BY <1>1
<1>6. TypeOK'
  BY <1>4, <1>5, SMTT(60) DEF IInv, TypeOK
<1>7. ASSUME NEW k \in Keys PROVE Entry(k, ledger', effects', audits', instances')
  <2>1. CASE k = K(w)
    BY <2>1
  <2>2. CASE k # K(w)
    BY <1>2, <2>2 DEF IInv, Entry
  <2> QED BY <2>1, <2>2
<1> QED BY <1>4, <1>6, <1>7, Zenon DEF IInv

(* The engine starts in the invariant.                                       *)
LEMMA InitIInv == Init => IInv
<1> SUFFICES ASSUME Init PROVE IInv
  OBVIOUS
<1>1. Idle \in Drains /\ Idle.pc = "idle"
  BY DEF Drains, Idle
<1>2. rules \in [RuleSet -> [version : 1 .. MaxVersion, published : BOOLEAN]]
  BY TriggerAssumption DEF Init
<1>3. inbox = <<>> /\ inbox \in Seq([signal : Signals, processed : BOOLEAN]) /\ Len(inbox) <= MaxRows
  BY TriggerAssumption DEF Init
<1>4. TypeOK
  BY <1>1, <1>2, <1>3, TriggerAssumption DEF Init, TypeOK
<1>5. \A w \in Workers : worker[w] = Idle
  BY DEF Init
<1>6. \A w \in Workers : Place(worker[w], inbox, ledger, instances) /\ ~Attaching(worker[w])
  BY <1>1, <1>5 DEF Place, Attaching, InRule
<1>7. \A k \in Keys : Entry(k, ledger, effects, audits, instances)
  BY DEF Init, Entry
<1>8. Distinct(inbox) /\ Exclusive(worker)
  BY <1>3, <1>6 DEF Distinct, Exclusive
<1> QED BY <1>4, <1>6, <1>7, <1>8 DEF IInv

-----------------------------------------------------------------------------
(* The steps of a drain, grouped by what they write: nothing ...             *)
LEMMA Entries ==
  ASSUME NEW S, NEW q \in Seq(S), NEW i \in DOMAIN q
  PROVE  q[i] \in S /\ DOMAIN q = 1 .. Len(q) /\ Len(q) \in Nat
OBVIOUS

(* The row a drain is at exists.                                             *)
LEMMA RowInBox ==
  ASSUME IInv, NEW w \in Workers, worker[w].pc \in InRule \cup {"unmapped", "mark", "rule"}
  PROVE  /\ Row(w) \in worker[w].rows /\ Row(w) \in DOMAIN inbox /\ Row(w) \in 1 .. MaxRows
         /\ inbox[Row(w)].signal \in Signals
<1>1. worker[w] \in Drains /\ Place(worker[w], inbox, ledger, instances)
  BY DEF IInv, TypeOK
<1>2. Row(w) \in worker[w].rows /\ worker[w].rows \in RowIds
  BY <1>1, DrainShape DEF Row
<1>3. worker[w].rows \subseteq DOMAIN inbox
  BY <1>1 DEF Place, InRule
<1>4. inbox \in Seq([signal : Signals, processed : BOOLEAN])
  BY DEF IInv, TypeOK
<1>5. Row(w) \in DOMAIN inbox /\ Row(w) \in 1 .. MaxRows
  BY <1>2, <1>3 DEF RowIds
<1>6. inbox[Row(w)] \in [signal : Signals, processed : BOOLEAN]
  BY <1>4, <1>5, Entries, Zenon
<1> QED BY <1>2, <1>5, <1>6

(* A drain that ends, by an exception or a crash, leaves the invariant.      *)
LEMMA ToIdle ==
  ASSUME IInv, NEW w \in Workers, Goto(w, Idle), UNCHANGED <<db, operator>>,
         crashes' \in 0 .. MaxCrashes
  PROVE  IInv'
<1>1. Idle \in Drains /\ Place(Idle, inbox, ledger, instances) /\ ~Attaching(Idle)
  BY DEF Drains, Idle, Place, Attaching, InRule
<1> QED BY <1>1, QuietStep, Zenon DEF db, IInv, TypeOK

(* Steps that only read: the poll, the row, the next rule.                   *)
LEMMA ReadStep ==
  ASSUME IInv, NEW w \in Workers, Poll(w) \/ LoadRow(w) \/ NextRule(w)
  PROVE  IInv'
<1>0. /\ UNCHANGED <<db, operator, crashes>> /\ unmapped \in [Signals -> Nat]
      /\ crashes \in 0 .. MaxCrashes /\ worker[w] \in Drains
      /\ Place(worker[w], inbox, ledger, instances)
  BY DEF Poll, LoadRow, NextRule, IInv, TypeOK
<1>1. ASSUME NEW d \in Drains, Goto(w, d), d.pc \notin InRule \ {"action"},
             Place(d, inbox, ledger, instances)
      PROVE  IInv'
  BY <1>0, <1>1, QuietStep, SMTT(60) DEF db, Attaching
<1>2. inbox \in Seq([signal : Signals, processed : BOOLEAN]) /\ DOMAIN inbox \subseteq 1 .. MaxRows
  BY TriggerAssumption DEF IInv, TypeOK
<1>3. CASE Poll(w)
  <2> DEFINE d == [pc |-> "row", rows |-> Oldest(Unprocessed)]
  <2>1. Oldest(Unprocessed) \subseteq DOMAIN inbox
    BY DEF Oldest, Unprocessed
  <2>2. d \in Drains /\ Place(d, inbox, ledger, instances)
    BY <1>2, <2>1 DEF Drains, RowIds, Place, Attaching, InRule
  <2> QED BY <1>1, <1>3, <2>2 DEF Poll, InRule
<1>4. CASE LoadRow(w)
  <2> DEFINE rows == worker[w].rows
             s == inbox[Row(w)].signal
             D == {[pc |-> "row", rows |-> rows \ {Row(w)}], [pc |-> "mark", rows |-> rows],
                   [pc |-> "unmapped", rows |-> rows],
                   [pc |-> "rule", rows |-> rows, left |-> Candidates(s)]}
  <2>1. worker[w].pc = "row" /\ rows \in RowIds /\ rows \subseteq DOMAIN inbox
    BY <1>0, <1>4, DrainShape, Zenon DEF LoadRow, Place
  <2>2. CASE rows = {}
    BY <1>0, <1>4, <2>2, ToIdle, Zenon DEF LoadRow
  <2>3. CASE rows # {}
    <3>1. PICK d \in D : Goto(w, d)
      BY <1>4, <2>3, Zenon DEF LoadRow
    <3>2. Candidates(s) \in SUBSET DOMAIN Rules
      BY SMTT(60) DEF Candidates
    <3>3. d \in Drains
      BY <2>1, <2>3, <3>1, <3>2 DEF Drains, RowIds
    <3>4. Place(d, inbox, ledger, instances) /\ d.pc \notin InRule
      BY <2>1, <3>1 DEF Place, Attaching, InRule
    <3> QED BY <1>1, <3>1, <3>3, <3>4
  <2> QED BY <2>2, <2>3
<1>5. CASE NextRule(w)
  <2> DEFINE left == worker[w].left
             rows == worker[w].rows
             n == Min(left)
             r == Rules[n]
             d1 == [pc |-> "mark", rows |-> rows]
             d2 == [pc |-> "rule", rows |-> rows, left |-> left \ {n}]
             d3 == [pc |-> "action", rows |-> rows, left |-> left \ {n}, event |-> NoEvent,
                    key |-> Key(Row(w), r, rules[r].version, 1)]
  <2>1. worker[w].pc = "rule"
    BY <1>5, Zenon DEF NextRule
  <2>2. rows \in RowIds \ {{}} /\ rows \subseteq DOMAIN inbox /\ left \in SUBSET DOMAIN Rules
    BY <1>0, <2>1, DrainShape, Zenon DEF Place
  <2>3. d1 \in Drains /\ d2 \in Drains
    BY <2>2 DEF Drains
  <2>4. Place(d1, inbox, ledger, instances) /\ Place(d2, inbox, ledger, instances)
    BY <2>2 DEF Place, Attaching, InRule
  <2>5. CASE Goto(w, d1) \/ Goto(w, d2)
    BY <1>1, <2>3, <2>4, <2>5, Zenon DEF InRule
  <2>6. CASE left # {} /\ Goto(w, d3)
    <3>1. left \in SUBSET Nat
      BY <2>2, TriggerAssumption, SMTT(60)
    <3>2. n \in DOMAIN Rules
      BY <2>2, <2>6, <3>1, MinIsIn
    <3>3. r \in RuleSet
      BY <3>2, TriggerAssumption
    <3>4. rules[r].version \in 1 .. MaxVersion
      BY <3>3 DEF IInv, TypeOK
    <3>5. 1 \in 1 .. Len(Script[r])
      BY <3>3, TriggerAssumption, SMTT(60)
    <3>6. d3.key \in Keys
      BY <2>1, <3>3, <3>4, <3>5, RowInBox, KeyIsKey
    <3>7. d3 \in Drains
      BY <2>2, <3>6, Zenon DEF Drains
    <3>8. Place(d3, inbox, ledger, instances)
      BY <2>2 DEF Place, Attaching, InRule, Key, Row
    <3> QED BY <1>1, <2>6, <3>7, <3>8 DEF InRule
  <2> QED BY <1>5, <2>5, <2>6, Zenon DEF NextRule
<1> QED BY <1>3, <1>4, <1>5, SMTT(30), SMTT(60)

(* ... or no more than a count of unmapped signals, or where the drain is    *)
(* inside a rule ...                                                         *)
LEMMA InnerStep ==
  ASSUME IInv, NEW w \in Workers,
         RecordUnmapped(w) \/ SkipClaimed(w) \/ RaiseKnown(w) \/ RaiseOther(w) \/ FindInstance(w)
  PROVE  IInv'
<1>0. /\ unmapped \in [Signals -> Nat] /\ crashes \in 0 .. MaxCrashes /\ worker[w] \in Drains
      /\ Place(worker[w], inbox, ledger, instances)
  BY DEF IInv, TypeOK
<1>1. CASE RecordUnmapped(w)
  <2> DEFINE d == [pc |-> "mark", rows |-> worker[w].rows]
  <2>1. worker[w].pc = "unmapped"
    BY <1>1 DEF RecordUnmapped
  <2>2. worker[w].rows \in RowIds \ {{}} /\ worker[w].rows \subseteq DOMAIN inbox
    BY <1>0, <2>1, DrainShape DEF Place
  <2>3. d \in Drains /\ Place(d, inbox, ledger, instances) /\ ~Attaching(d)
    BY <2>2 DEF Drains, Place, Attaching, InRule
  <2>4. inbox[Row(w)].signal \in Signals
    BY <2>1, RowInBox, Zenon
  <2>5. unmapped' \in [Signals -> Nat]
    BY <1>0, <1>1, <2>4, SMTT(60) DEF RecordUnmapped
  <2>6. Goto(w, d) /\ UNCHANGED <<inbox, rules, ledger, effects, audits, instances, template, operator>>
        /\ crashes' \in 0 .. MaxCrashes
    BY <1>0, <1>1 DEF RecordUnmapped
  <2> QED BY <2>3, <2>5, <2>6, QuietStep, SMTT(60)
<1>2. CASE SkipClaimed(w)
  <2>1. worker[w].pc \in InRule /\ Goto(w, After(w, worker[w].event)) /\ UNCHANGED <<db, operator, crashes>>
    BY <1>2 DEF SkipClaimed, InRule
  <2>2. /\ After(w, worker[w].event) \in Drains /\ ~Attaching(After(w, worker[w].event))
        /\ Place(After(w, worker[w].event), inbox, ledger, instances)
    BY <2>1, AfterShape, Zenon
  <2> QED BY <1>0, <2>1, <2>2, QuietStep, Zenon DEF db
<1>3. CASE RaiseKnown(w)
  <2> DEFINE d == [worker[w] EXCEPT !.pc = "failing"]
  <2>1. /\ worker[w].pc = "action" /\ Kind(K(w)) = "malformed" /\ Goto(w, d)
        /\ UNCHANGED <<db, operator, crashes>>
    BY <1>3 DEF RaiseKnown
  <2>2. /\ d \in Drains /\ d.pc = "failing" /\ d.rows = worker[w].rows /\ d.key = K(w)
        /\ d.event = worker[w].event
    BY <1>0, <2>1, SMTT(60) DEF Drains, Idle, K
  <2> HIDE DEF d
  <2>3. ~Attaching(d)
    BY <2>1, <2>2 DEF Attaching
  <2>4. Place(d, inbox, ledger, instances)
    BY <1>0, <2>1, <2>2, <2>3, ZenonT(60) DEF Place, InRule, K
  <2> QED BY <1>0, <2>1, <2>2, <2>3, <2>4, QuietStep DEF db
<1>4. CASE RaiseOther(w)
  <2>1. Goto(w, Idle) /\ UNCHANGED <<db, operator>> /\ crashes' \in 0 .. MaxCrashes
    BY <1>0, <1>4 DEF RaiseOther
  <2> QED BY <2>1, ToIdle
<1>5. CASE FindInstance(w)
  <2>1. PICK p \in {"failing", "started", "starting"} :
          /\ worker[w].pc = "claimed" /\ Goto(w, [worker[w] EXCEPT !.pc = p])
          /\ p = "started" => instances[worker[w].event] > 0
          /\ UNCHANGED <<db, operator, crashes>>
    BY <1>5, Zenon DEF FindInstance
  <2> DEFINE d == [worker[w] EXCEPT !.pc = p]
  <2>2. /\ d \in Drains /\ d.pc = p /\ d.rows = worker[w].rows /\ d.key = K(w)
        /\ d.event = worker[w].event
    BY <1>0, <2>1 DEF Drains, Idle, K
  <2>3. Goto(w, d)
    BY <2>1
  <2> HIDE DEF d
  <2>4. Attaching(worker[w]) /\ Kind(K(w)) = "attach_workflow"
    BY <1>0, <2>1 DEF Place, Attaching, InRule, K
  <2>5. Place(d, inbox, ledger, instances)
    BY <1>0, <2>1, <2>2, <2>4, ZenonT(60) DEF Place, InRule, K, Attaching
  <2> QED BY <1>0, <2>1, <2>2, <2>3, <2>4, <2>5, QuietStep DEF db
<1> QED BY <1>1, <1>2, <1>3, <1>4, <1>5

(* ... or the ledger entry of its action: with the effect, ...               *)
LEMMA AtomicStep ==
  ASSUME IInv, NEW w \in Workers, CreateEvent(w) \/ ShowClientPopup(w) \/ EnqueueAction(w)
  PROVE  IInv'
<1>1. worker[w].pc = "action" /\ worker[w].pc \in InRule /\ K(w) \in Keys /\ ledger[K(w)] = "none"
  BY DrainShape DEF IInv, TypeOK, CreateEvent, ShowClientPopup, EnqueueAction, RunAtomic, CanClaim,
     InRule, K
<1>2. /\ effects[K(w)] = 0 /\ audits[K(w)] = 0 /\ effects \in [Keys -> Nat] /\ audits \in [Keys -> Nat]
      /\ ledger \in [Keys -> {"none", "pending", "succeeded", "failed"}]
  BY <1>1 DEF IInv, TypeOK, Entry
<1>3. PICK e \in {worker[w].event, K(w)} :
        /\ Kind(K(w)) \in {"create_event", "popup", "enqueue"}
        /\ ledger' = [ledger EXCEPT ![K(w)] = "succeeded"]
        /\ effects' = [effects EXCEPT ![K(w)] = 1]
        /\ audits' = [audits EXCEPT ![K(w)] = 1]
        /\ Goto(w, After(w, e))
        /\ UNCHANGED <<inbox, rules, unmapped, instances, template, operator, crashes>>
  <2>1. PICK kind \in {"create_event", "popup", "enqueue"}, e \in {worker[w].event, K(w)},
             n \in {effects[K(w)] + 1, 1} : RunAtomic(w, kind, n, e)
    BY DEF CreateEvent, ShowClientPopup, EnqueueAction
  <2>2. n = 1 /\ audits[K(w)] + 1 = 1
    BY <1>2, SMTT(60)
  <2>3. audits' = [audits EXCEPT ![K(w)] = 1]
    BY <1>1, <1>2, <2>1, <2>2 DEF RunAtomic, Audited
  <2> QED BY <2>1, <2>2, <2>3, Zenon DEF RunAtomic
<1>4. /\ After(w, e) \in Drains /\ ~Attaching(After(w, e))
      /\ \A led, ins : Place(After(w, e), inbox, led, ins)
  BY <1>1, AfterShape, Zenon
<1>5. Entry(K(w), ledger', effects', audits', instances)
  <2>1. ledger'[K(w)] = "succeeded" /\ effects'[K(w)] = 1 /\ audits'[K(w)] = 1
    BY <1>1, <1>2, <1>3
  <2> QED BY <1>3, <2>1, SMTT(30), SMTT(60) DEF Entry
<1> HIDE DEF K
<1> QED BY <1>1, <1>3, <1>4, <1>5, LedgerStep, Zenon

(* ... as a claim, as a failure, or as the verdict on an attached workflow.  *)
LEMMA VerdictStep ==
  ASSUME IInv, NEW w \in Workers, RecordFailure(w) \/ ClaimAttach(w) \/ FinishAttach(w)
  PROVE  IInv'
<1>1. worker[w].pc \in InRule
  BY DEF RecordFailure, ClaimAttach, FinishAttach, InRule
<1>2. /\ K(w) \in Keys /\ worker[w] \in Drains /\ Place(worker[w], inbox, ledger, instances)
      /\ Entry(K(w), ledger, effects, audits, instances)
  BY <1>1, DrainShape DEF IInv, TypeOK, K
<1>3. /\ effects \in [Keys -> Nat] /\ audits \in [Keys -> Nat]
      /\ ledger \in [Keys -> {"none", "pending", "succeeded", "failed"}]
      /\ effects = [effects EXCEPT ![K(w)] = effects[K(w)]]
      /\ audits = [audits EXCEPT ![K(w)] = audits[K(w)]]
      /\ effects[K(w)] \in Nat /\ audits[K(w)] \in Nat
  BY <1>2 DEF IInv, TypeOK
<1>4. /\ After(w, worker[w].event) \in Drains /\ ~Attaching(After(w, worker[w].event))
      /\ \A led, ins : Place(After(w, worker[w].event), inbox, led, ins)
  <2> DEFINE e == worker[w].event
  <2>1. e = worker[w].event
    OBVIOUS
  <2> HIDE DEF e
  <2>2. After(w, e) \in Drains /\ ~Attaching(After(w, e)) /\ \A led, ins : Place(After(w, e), inbox, led, ins)
    BY <1>1, <2>1, AfterShape, Zenon
  <2> QED BY <2>1, <2>2
<1>5. CASE RecordFailure(w) /\ ~FailureCounts(K(w))
  <2>1. Goto(w, After(w, worker[w].event)) /\ UNCHANGED <<db, operator, crashes>>
    BY <1>5 DEF RecordFailure, db
  <2>2. unmapped \in [Signals -> Nat] /\ crashes \in 0 .. MaxCrashes
    BY DEF IInv, TypeOK
  <2> QED BY <1>4, <2>1, <2>2, QuietStep, SMTT(60) DEF db
<1>6. CASE RecordFailure(w) /\ FailureCounts(K(w))
  <2>1. /\ ledger' = [ledger EXCEPT ![K(w)] = "failed"] /\ audits' = [audits EXCEPT ![K(w)] = @ + 1]
        /\ effects' = effects /\ Goto(w, After(w, worker[w].event)) /\ worker[w].pc = "failing"
        /\ UNCHANGED <<inbox, rules, unmapped, instances, template, operator, crashes>>
    BY <1>6, Zenon DEF RecordFailure, Failed, Audited
  <2>2. ledger[K(w)] \in {"none", "pending"} /\ effects[K(w)] = 0 /\ audits[K(w)] = 0
    BY <1>2, <1>6 DEF FailureCounts, Unsettled, Entry
  <2>3. ledger[K(w)] = "none" \/ Attaching(worker[w])
    BY <1>2, <2>1, <2>2, SMTT(60) DEF Entry, Attaching, InRule, K
  <2>4. audits' = [audits EXCEPT ![K(w)] = 1] /\ effects' = [effects EXCEPT ![K(w)] = 0]
    BY <1>2, <1>3, <2>1, <2>2
  <2>5. Entry(K(w), ledger', effects', audits', instances)
    <3>1. ledger'[K(w)] = "failed" /\ audits'[K(w)] = 1 /\ effects'[K(w)] = 0
      BY <1>2, <1>3, <2>1, <2>4
    <3> QED BY <3>1, ZenonT(60) DEF Entry
  <2> QED BY <1>1, <1>4, <2>1, <2>3, <2>4, <2>5, LedgerStep, Zenon
<1>7. CASE ClaimAttach(w)
  <2>1. PICK p \in {"failing", "claimed"} :
          /\ worker[w].pc = "action" /\ Kind(K(w)) = "attach_workflow" /\ ledger[K(w)] = "none"
          /\ Goto(w, [worker[w] EXCEPT !.pc = p])
          /\ p = "claimed" => worker[w].event # NoEvent
          /\ ledger' = [ledger EXCEPT ![K(w)] = "pending"]
          /\ UNCHANGED <<inbox, rules, effects, audits, unmapped, instances, template, operator, crashes>>
    BY <1>7, Zenon DEF ClaimAttach, CanClaim
  <2> DEFINE d == [worker[w] EXCEPT !.pc = p]
  <2>2. /\ d \in Drains /\ d.pc = p /\ d.rows = worker[w].rows /\ d.key = K(w)
        /\ d.event = worker[w].event
    BY <1>2, <2>1 DEF Drains, Idle, K
  <2>3. Goto(w, d)
    BY <2>1
  <2> HIDE DEF d
  <2>4. ledger'[K(w)] = "pending" /\ effects'[K(w)] = 0 /\ audits'[K(w)] = 0
    BY <1>2, <1>3, <2>1 DEF Entry
  <2>5. Entry(K(w), ledger', effects', audits', instances)
    BY <2>1, <2>4 DEF Entry
  <2>6. Place(d, inbox, ledger', instances)
    BY <1>2, <2>1, <2>2, <2>4 DEF Place, InRule, K
  <2>7. /\ effects' = [effects EXCEPT ![K(w)] = effects[K(w)]]
        /\ audits' = [audits EXCEPT ![K(w)] = audits[K(w)]]
    BY <1>3, <2>1
  <2> QED BY <1>1, <1>3, <2>1, <2>2, <2>3, <2>5, <2>6, <2>7, LedgerStep, Zenon
<1>8. CASE FinishAttach(w)
  <2>1. /\ ledger' = [ledger EXCEPT ![K(w)] = "succeeded"] /\ audits' = [audits EXCEPT ![K(w)] = @ + 1]
        /\ effects' = effects /\ Goto(w, After(w, worker[w].event)) /\ worker[w].pc = "started"
        /\ UNCHANGED <<inbox, rules, unmapped, instances, template, operator, crashes>>
    BY <1>8 DEF FinishAttach, Audited
  <2>2. /\ Kind(K(w)) = "attach_workflow" /\ Attaching(worker[w]) /\ ledger[K(w)] = "pending"
        /\ worker[w].event # NoEvent /\ instances[worker[w].event] > 0
        /\ \E j \in 1 .. K(w).index - 1 : worker[w].event = [K(w) EXCEPT !.index = j]
    BY <1>2, <2>1 DEF Place, Attaching, InRule, K
  <2>3. effects[K(w)] = 0 /\ audits[K(w)] = 0
    BY <1>2, <2>2, SMTT(60) DEF Entry
  <2>4. audits' = [audits EXCEPT ![K(w)] = 1] /\ effects' = [effects EXCEPT ![K(w)] = 0]
    BY <1>2, <1>3, <2>1, <2>3
  <2>5. Entry(K(w), ledger', effects', audits', instances)
    <3>1. ledger'[K(w)] = "succeeded" /\ audits'[K(w)] = 1 /\ effects'[K(w)] = 0
      BY <1>2, <1>3, <2>1, <2>4
    <3> QED BY <2>2, <3>1, ZenonT(60) DEF Entry
  <2> QED BY <1>1, <1>4, <2>1, <2>2, <2>4, <2>5, LedgerStep, Zenon
<1> QED BY <1>5, <1>6, <1>7, <1>8

(* One more instance of a workflow takes nothing away.                       *)
LEMMA InstanceAdded ==
  ASSUME IInv, NEW q \in Keys, instances' = [instances EXCEPT ![q] = @ + 1]
  PROVE  /\ instances' \in [Keys -> Nat] /\ instances'[q] > 0
         /\ \A k \in Keys : instances[k] > 0 => instances'[k] > 0
         /\ \A k \in Keys : Entry(k, ledger, effects, audits, instances')
<1>1. instances \in [Keys -> Nat]
  BY DEF IInv, TypeOK
<1>2. /\ instances' \in [Keys -> Nat] /\ instances'[q] > 0
      /\ \A k \in Keys : instances[k] > 0 => instances'[k] > 0
  BY <1>1
<1>3. ASSUME NEW k \in Keys PROVE Entry(k, ledger, effects, audits, instances')
  <2>1. ASSUME NEW j \in 1 .. k.index - 1 PROVE [k EXCEPT !.index = j] \in Keys
    <3>1. j \in 1 .. Len(Script[k.rule])
      BY KeyShape
    <3> QED BY <3>1, KeyShape
  <2>2. Entry(k, ledger, effects, audits, instances)
    BY Zenon DEF IInv
  <2> QED BY <1>2, <2>1, <2>2 DEF Entry
<1> QED BY <1>2, <1>3, Zenon

(* The steps of a drain that write elsewhere.                                *)
LEMMA StartStep ==
  ASSUME IInv, NEW w \in Workers, StartInstance(w)
  PROVE  IInv'
<1> DEFINE d == [worker[w] EXCEPT !.pc = "started"]
<1>1. /\ worker[w].pc = "starting" /\ Goto(w, d)
      /\ instances' = [instances EXCEPT ![worker[w].event] = @ + 1]
      /\ UNCHANGED <<inbox, rules, ledger, effects, audits, unmapped, template, operator, crashes>>
  BY DEF StartInstance
<1>2. worker[w] \in Drains /\ Place(worker[w], inbox, ledger, instances)
  BY DEF IInv, TypeOK
<1>3. /\ worker[w].event \in Keys /\ Attaching(worker[w]) /\ worker[w].event # NoEvent
      /\ Kind(K(w)) = "attach_workflow" /\ ledger[K(w)] = "pending"
  BY <1>1, <1>2, DrainShape DEF Place, Attaching, InRule, K
<1>4. /\ d \in Drains /\ d.pc = "started" /\ d.rows = worker[w].rows /\ d.key = K(w)
      /\ d.event = worker[w].event
  BY <1>1, <1>2 DEF Drains, Idle, K
<1> HIDE DEF d
<1>5. /\ instances' \in [Keys -> Nat] /\ instances'[worker[w].event] > 0
      /\ \A k \in Keys : instances[k] > 0 => instances'[k] > 0
      /\ \A k \in Keys : Entry(k, ledger, effects, audits, instances')
  BY <1>1, <1>3, InstanceAdded, Zenon
<1>6. Place(d, inbox', ledger', instances')
  BY <1>1, <1>2, <1>3, <1>4, <1>5, Zenon DEF Place, InRule, K, Attaching
<1>7. /\ worker' \in [Workers -> Drains] /\ Exclusive(worker')
      /\ \A v \in Workers : Place(worker'[v], inbox', ledger', instances')
  BY <1>1, <1>3, <1>4, <1>5, <1>6, OthersKeep, Zenon
<1>8. TypeOK'
  BY <1>1, <1>5, <1>7, SMTT(60) DEF IInv, TypeOK
<1> QED BY <1>1, <1>5, <1>7, <1>8, Zenon DEF IInv

(* mark_processed changes one row, and of it only the flag.                  *)
LEMMA MarkStep ==
  ASSUME IInv, NEW w \in Workers, MarkProcessed(w)
  PROVE  /\ IInv' /\ DOMAIN inbox' = DOMAIN inbox
         /\ \A i \in DOMAIN inbox : inbox'[i].signal = inbox[i].signal
         /\ \A i \in DOMAIN inbox : i # Row(w) => inbox'[i] = inbox[i]
<1> DEFINE d == [pc |-> "row", rows |-> worker[w].rows \ {Row(w)}]
           i0 == Row(w)
<1>1. /\ worker[w].pc = "mark" /\ Goto(w, d) /\ inbox' = [inbox EXCEPT ![Row(w)].processed = TRUE]
      /\ UNCHANGED <<rules, ledger, effects, audits, unmapped, instances, template, operator, crashes>>
  BY DEF MarkProcessed
<1>2. worker[w] \in Drains /\ Place(worker[w], inbox, ledger, instances)
  BY DEF IInv, TypeOK
<1>3. /\ inbox \in Seq([signal : Signals, processed : BOOLEAN]) /\ Len(inbox) <= MaxRows
      /\ i0 \in DOMAIN inbox
  BY <1>1, RowInBox DEF IInv, TypeOK
<1> HIDE DEF i0
<1>4. /\ inbox' \in Seq([signal : Signals, processed : BOOLEAN]) /\ Len(inbox') = Len(inbox)
      /\ DOMAIN inbox' = DOMAIN inbox
      /\ \A i \in DOMAIN inbox : inbox'[i].signal = inbox[i].signal
      /\ \A i \in DOMAIN inbox : i # i0 => inbox'[i] = inbox[i]
  <2>1. inbox' = [inbox EXCEPT ![i0] = [inbox[i0] EXCEPT !.processed = TRUE]]
    BY <1>1 DEF i0
  <2> DEFINE x == [inbox[i0] EXCEPT !.processed = TRUE]
  <2>2. inbox[i0] \in [signal : Signals, processed : BOOLEAN] /\ i0 \in 1 .. Len(inbox)
    BY <1>3, Entries, Zenon
  <2>3. x \in [signal : Signals, processed : BOOLEAN] /\ x.signal = inbox[i0].signal
    BY <2>2, Zenon
  <2> HIDE DEF x
  <2>4. inbox' = [inbox EXCEPT ![i0] = x]
    BY <2>1 DEF x
  <2> QED BY <1>3, <2>2, <2>3, <2>4
<1>5. d \in Drains /\ Place(d, inbox', ledger', instances') /\ ~Attaching(d)
  <2>1. worker[w].rows \in RowIds /\ worker[w].rows \subseteq DOMAIN inbox
    BY <1>1, <1>2, DrainShape DEF Place
  <2> QED BY <1>4, <2>1 DEF Drains, RowIds, Place, Attaching, InRule
<1> HIDE DEF d
<1>6. /\ worker' \in [Workers -> Drains] /\ Exclusive(worker')
      /\ \A v \in Workers : Place(worker'[v], inbox', ledger', instances')
  BY <1>1, <1>4, <1>5, OthersKeep, Zenon
<1>7. TypeOK'
  BY <1>1, <1>3, <1>4, <1>6, SMTT(60) DEF IInv, TypeOK
<1>8. Distinct(inbox')
  BY <1>4 DEF IInv, Distinct
<1>9. IInv'
  BY <1>1, <1>6, <1>7, <1>8, Zenon DEF IInv
<1> QED BY <1>4, <1>9 DEF i0

(* The world around the drains.                                              *)
LEMMA IngestGrows ==
  ASSUME TypeOK, NEW s \in Signals, Ingest(s)
  PROVE  /\ inbox' \in Seq([signal : Signals, processed : BOOLEAN]) /\ Len(inbox') <= MaxRows
         /\ DOMAIN inbox' = DOMAIN inbox \cup {Len(inbox) + 1} /\ Len(inbox) + 1 \notin DOMAIN inbox
         /\ \A i \in DOMAIN inbox : inbox'[i] = inbox[i]
         /\ inbox'[Len(inbox) + 1] = [signal |-> s, processed |-> FALSE]
<1> DEFINE R == [signal : Signals, processed : BOOLEAN]
           x == [signal |-> s, processed |-> FALSE]
<1>1. inbox \in Seq(R) /\ x \in R /\ Len(inbox) < MaxRows /\ inbox' = Append(inbox, x)
  BY DEF TypeOK, Ingest
<1> HIDE DEF R, x
<1>2. inbox' \in Seq(R) /\ Len(inbox') = Len(inbox) + 1 /\ Len(inbox) \in Nat
      /\ DOMAIN inbox = 1 .. Len(inbox) /\ DOMAIN inbox' = 1 .. Len(inbox) + 1
  BY <1>1
<1>3. (\A i \in 1 .. Len(inbox) : inbox'[i] = inbox[i]) /\ inbox'[Len(inbox) + 1] = x
  BY <1>1
<1> QED BY <1>1, <1>2, <1>3, TriggerAssumption DEF R, x

(* Providers, administrators and operators keep the invariant.               *)
LEMMA WorldStep ==
  ASSUME IInv, \/ \E s \in Signals : Ingest(s)
               \/ \E r \in RuleSet : Publish(r) \/ Retire(r)
               \/ \E o \in Operators : OperatorStarts(o) \/ \E k \in Keys : OperatorFinds(o, k)
               \/ Deprecate
  PROVE  IInv'
<1>1. /\ \A v \in Workers : worker[v] \in Drains /\ Place(worker[v], inbox, ledger, instances)
      /\ TypeOK /\ Exclusive(worker) /\ Distinct(inbox)
      /\ \A k \in Keys : Entry(k, ledger, effects, audits, instances)
  BY SMTT(60) DEF IInv, TypeOK
<1>2. ASSUME UNCHANGED <<worker, ledger, effects, audits>>, DOMAIN inbox \subseteq DOMAIN inbox',
             \A k \in Keys : instances[k] > 0 => instances'[k] > 0,
             \A k \in Keys : Entry(k, ledger, effects, audits, instances'),
             TypeOK', Distinct(inbox')
      PROVE  IInv'
  <2>1. ASSUME NEW v \in Workers PROVE Place(worker'[v], inbox', ledger', instances')
    <3>1. Attaching(worker[v]) => ledger[worker[v].key] = "pending"
      BY <1>1 DEF Place
    <3>2. worker[v] \in Drains /\ Place(worker[v], inbox, ledger, instances)
      BY <1>1, Zenon
    <3>3. Place(worker[v], inbox', ledger', instances')
      BY <1>2, <3>1, <3>2, PlaceKept, ZenonT(60)
    <3> QED BY <1>2, <3>3
  <2> QED BY <1>1, <1>2, <2>1, Zenon DEF IInv
<1>3. ASSUME NEW s \in Signals, Ingest(s) PROVE IInv'
  <2>1. /\ UNCHANGED <<rules, ledger, effects, audits, unmapped, instances, template, worker, operator, crashes>>
        /\ \A i \in DOMAIN inbox : inbox[i].signal # s
    BY <1>3 DEF Ingest, IsNew
  <2>2. /\ inbox' \in Seq([signal : Signals, processed : BOOLEAN]) /\ Len(inbox') <= MaxRows
        /\ DOMAIN inbox' = DOMAIN inbox \cup {Len(inbox) + 1} /\ Len(inbox) + 1 \notin DOMAIN inbox
        /\ \A i \in DOMAIN inbox : inbox'[i] = inbox[i]
        /\ inbox'[Len(inbox) + 1] = [signal |-> s, processed |-> FALSE]
    BY <1>1, <1>3, IngestGrows, Zenon
  <2>3. TypeOK'
    BY <1>1, <2>1, <2>2, Zenon DEF TypeOK
  <2>4. Distinct(inbox')
    <3>1. inbox'[Len(inbox) + 1].signal = s
      BY <2>2
    <3> QED BY <1>1, <2>1, <2>2, <3>1, ZenonT(60) DEF Distinct
  <2> QED BY <1>1, <1>2, <2>1, <2>2, <2>3, <2>4, SMTT(60)
<1>4. ASSUME NEW r \in RuleSet, Publish(r) \/ Retire(r) PROVE IInv'
  <2>1. UNCHANGED <<inbox, ledger, effects, audits, unmapped, instances, template, worker, operator, crashes>>
    BY <1>4 DEF Publish, Retire
  <2>2. rules' \in [RuleSet -> [version : 1 .. MaxVersion, published : BOOLEAN]]
    <3>1. rules \in [RuleSet -> [version : 1 .. MaxVersion, published : BOOLEAN]]
      BY <1>1 DEF TypeOK
    <3>2. rules[r].version < MaxVersion => rules[r].version + 1 \in 1 .. MaxVersion
      BY <3>1, TriggerAssumption, SMTT(60)
    <3>3. CASE Publish(r)
      BY <3>1, <3>2, <3>3 DEF Publish
    <3>4. CASE Retire(r)
      BY <3>1, <3>4, Zenon DEF Retire
    <3> QED BY <1>4, <3>3, <3>4
  <2>3. TypeOK'
    BY <1>1, <2>1, <2>2, SMTT(60) DEF TypeOK
  <2> QED BY <1>1, <1>2, <2>1, <2>3
<1>5. ASSUME NEW o \in Operators, NEW k \in Keys, OperatorFinds(o, k) PROVE IInv'
  <2>1. UNCHANGED <<inbox, rules, ledger, effects, audits, unmapped, instances, template, worker, crashes>>
    BY <1>5, Zenon DEF OperatorFinds, db
  <2>2. TypeOK'
    BY <1>1, <1>5, <2>1 DEF TypeOK, OperatorFinds
  <2> QED BY <1>1, <1>2, <2>1, <2>2, SMTT(30)
<1>6. ASSUME NEW o \in Operators, OperatorStarts(o) PROVE IInv'
  <2>1. /\ instances' = [instances EXCEPT ![operator[o]] = @ + 1] /\ operator[o] \in Keys
        /\ UNCHANGED <<inbox, rules, ledger, effects, audits, unmapped, template, worker, crashes>>
    BY <1>1, <1>6, SMTT(60) DEF OperatorStarts, TypeOK
  <2>2. operator' \in [Operators -> Keys \cup {NoEvent}]
    BY <1>1, <1>6 DEF OperatorStarts, TypeOK
  <2>3. /\ instances' \in [Keys -> Nat]
        /\ \A k \in Keys : instances[k] > 0 => instances'[k] > 0
        /\ \A k \in Keys : Entry(k, ledger, effects, audits, instances')
    BY <2>1, InstanceAdded, Zenon
  <2>4. TypeOK'
    BY <1>1, <2>1, <2>2, <2>3, SMTT(60) DEF TypeOK
  <2> QED BY <1>1, <1>2, <2>1, <2>3, <2>4, Zenon
<1>7. CASE Deprecate
  <2>1. UNCHANGED <<inbox, rules, ledger, effects, audits, unmapped, instances, worker, operator, crashes>>
        /\ template' = FALSE
    BY <1>7 DEF Deprecate
  <2>2. TypeOK'
    BY <1>1, <2>1, Zenon DEF TypeOK
  <2> QED BY <1>1, <1>2, <2>1, <2>2, SMTT(60)
<1> QED BY <1>3, <1>4, <1>5, <1>6, <1>7

(* Every step keeps the invariant.                                           *)
LEMMA NextIInv == IInv /\ [Next]_vars => IInv'
<1> SUFFICES ASSUME IInv, [Next]_vars PROVE IInv'
  OBVIOUS
<1>1. ASSUME NEW w \in Workers, WorkerStep(w) PROVE IInv'
  BY <1>1, ReadStep, InnerStep, AtomicStep, VerdictStep, StartStep, MarkStep, Zenon DEF WorkerStep
<1>2. ASSUME NEW w \in Workers, Crash(w) PROVE IInv'
  <2>1. crashes \in 0 .. MaxCrashes /\ crashes < MaxCrashes /\ crashes' = crashes + 1
    BY <1>2 DEF Crash, IInv, TypeOK
  <2>2. crashes' \in 0 .. MaxCrashes
    BY <2>1, TriggerAssumption, SMTT(60)
  <2> QED BY <1>2, <2>2, ToIdle DEF Crash
<1>3. CASE UNCHANGED vars
  BY <1>3 DEF vars, IInv, TypeOK
<1> QED BY <1>1, <1>2, <1>3, WorldStep DEF Next

(* The engine's state keeps its types: a drain always knows the row, the     *)
(* rule and the action it is at.                                             *)
THEOREM TypeCorrect == Spec => []TypeOK
<1>1. IInv => TypeOK
  BY DEF IInv
<1> QED BY InitIInv, NextIInv, <1>1, PTL DEF Spec

(* Every action runs at most once, over all drains, nodes, crashes and       *)
(* deliveries of a signal (trigger_actions.py).                              *)
THEOREM RunsAtMostOnce == Spec => []AtMostOnce
<1>1. IInv => AtMostOnce
  <2> SUFFICES ASSUME IInv PROVE AtMostOnce
    OBVIOUS
  <2>1. \A k \in Keys : effects[k] \in {0, 1}
    BY DEF IInv, Entry
  <2>2. \A i, j \in DOMAIN inbox : inbox[i].signal = inbox[j].signal => i = j
    BY DEF IInv, Distinct
  <2> QED BY <2>1, <2>2 DEF AtMostOnce, Rows
<1> QED BY InitIInv, NextIInv, <1>1, PTL DEF Spec

-----------------------------------------------------------------------------
(* The second part of the invariant: what is claimed of a signal so far. A   *)
(* rule is due if it matches and has been in force all along.                *)
Due(i, box, rls) ==
  {n \in DOMAIN Rules : /\ box[i].signal \in Matches[Rules[n]]
                        /\ rls[Rules[n]] = [version |-> 1, published |-> TRUE]}
ClaimedTo(i, n, m, led) == \A j \in 1 .. m : led[Key(i, Rules[n], 1, j)] # "none"
Done(i, n, led) == ClaimedTo(i, n, Len(Script[Rules[n]]), led)
Mapped(i, box) == \E r \in RuleSet : box[i].signal \in Matches[r]

Accounted(i, box, rls, led, unm) ==
  box[i].signal \notin Raw =>
    /\ \A n \in Due(i, box, rls) : Done(i, n, led)
    /\ Mapped(i, box) \/ unm[box[i].signal] > 0

Underway(d, box, rls, led, unm) ==
  LET i == Min(d.rows)
  IN /\ d.pc = "mark" => Accounted(i, box, rls, led, unm)
     /\ d.pc = "unmapped" => Due(i, box, rls) = {}
     /\ d.pc \in InRule \cup {"rule"} =>
          /\ Mapped(i, box)
          /\ \A n \in Due(i, box, rls) :
               \/ n \in d.left \/ Done(i, n, led)
               \/ /\ d.pc \in InRule /\ d.key.rule = Rules[n] /\ d.key.version = 1
                  /\ ClaimedTo(i, n, d.key.index - 1, led)

AInv ==
  /\ \A w \in Workers : Underway(worker[w], inbox, rules, ledger, unmapped)
  /\ \A i \in DOMAIN inbox : inbox[i].processed => Accounted(i, inbox, rules, ledger, unmapped)

(* Rows, signals and claims stay, and a rule that has lapsed does not come   *)
(* back under version 1.                                                     *)
Grown ==
  /\ DOMAIN inbox \subseteq DOMAIN inbox'
  /\ \A i \in DOMAIN inbox : inbox'[i].signal = inbox[i].signal
  /\ \A n \in DOMAIN Rules : rules'[Rules[n]] = [version |-> 1, published |-> TRUE] =>
                             rules[Rules[n]] = [version |-> 1, published |-> TRUE]
  /\ \A k \in Keys : ledger[k] # "none" => ledger'[k] # "none"
  /\ \A s \in Signals : unmapped[s] > 0 => unmapped'[s] > 0

(* Every step of the engine and of the world around it grows the state.      *)
LEMMA Growing ==
  ASSUME IInv, [Next]_vars
  PROVE  Grown
<1>1. TypeOK
  BY DEF IInv
<1>2. ASSUME UNCHANGED <<inbox, rules, ledger, unmapped>> PROVE Grown
  BY <1>2, Zenon DEF Grown
<1>3. ASSUME NEW s \in Signals, Ingest(s) PROVE Grown
  <2>1. UNCHANGED <<rules, ledger, unmapped>>
    BY <1>3 DEF Ingest
  <2>2. DOMAIN inbox \subseteq DOMAIN inbox' /\ \A i \in DOMAIN inbox : inbox'[i] = inbox[i]
    BY <1>1, <1>3, IngestGrows, Zenon
  <2> QED BY <2>1, <2>2, Zenon DEF Grown
<1>4. ASSUME NEW r \in RuleSet, Publish(r) \/ Retire(r) PROVE Grown
  <2>1. UNCHANGED <<inbox, ledger, unmapped>>
    BY <1>4 DEF Publish, Retire
  <2>2. rules \in [RuleSet -> [version : 1 .. MaxVersion, published : BOOLEAN]]
    BY <1>1, SMTT(60) DEF TypeOK
  <2>3. rules'[r].version # 1 \/ ~rules'[r].published
    <3>1. CASE Publish(r)
      <4>1. rules'[r].version = rules[r].version + 1
        BY <2>2, <3>1 DEF Publish
      <4>2. rules[r].version \in Nat /\ rules[r].version # 0
        BY <2>2
      <4>3. rules[r].version + 1 # 1
        BY <4>2
      <4> QED BY <4>1, <4>3
    <3>2. CASE Retire(r)
      BY <2>2, <3>2 DEF Retire
    <3> QED BY <1>4, <3>1, <3>2, SMTT(60)
  <2>4. \A q \in RuleSet : q # r => rules'[q] = rules[q]
    BY <1>4, <2>2 DEF Publish, Retire
  <2>5. \A n \in DOMAIN Rules : Rules[n] \in RuleSet
    BY TriggerAssumption
  <2>6. rules'[r] # [version |-> 1, published |-> TRUE]
    <3> SUFFICES ASSUME rules'[r] = [version |-> 1, published |-> TRUE] PROVE FALSE
      OBVIOUS
    <3>1. rules'[r].version = 1 /\ rules'[r].published
      OBVIOUS
    <3> QED BY <2>3, <3>1
  <2>7. \A q \in RuleSet : rules'[q] = [version |-> 1, published |-> TRUE] =>
                         rules[q] = [version |-> 1, published |-> TRUE]
    BY <2>4, <2>6, Zenon
  <2> QED BY <2>1, <2>5, <2>7, Zenon DEF Grown
<1>5. ASSUME NEW w \in Workers, RecordUnmapped(w) PROVE Grown
  <2>1. UNCHANGED <<inbox, rules, ledger>> /\ unmapped \in [Signals -> Nat]
        /\ unmapped' = [unmapped EXCEPT ![inbox[Row(w)].signal] = @ + 1]
    BY <1>1, <1>5, Zenon DEF RecordUnmapped, TypeOK
  <2> QED BY <2>1 DEF Grown
<1>6. ASSUME NEW w \in Workers, MarkProcessed(w) PROVE Grown
  <2>1. UNCHANGED <<rules, ledger, unmapped>>
    BY <1>6, SMTT(60) DEF MarkProcessed
  <2> QED BY <1>6, <2>1, MarkStep DEF Grown
<1>7. ASSUME UNCHANGED <<inbox, rules, unmapped>>, NEW w \in Workers,
             NEW v \in {"pending", "succeeded", "failed"}, ledger' = [ledger EXCEPT ![K(w)] = v]
      PROVE  Grown
  BY <1>1, <1>7 DEF Grown, TypeOK
<1>8. ASSUME NEW w \in Workers, CreateEvent(w) \/ ShowClientPopup(w) \/ EnqueueAction(w)
                                \/ RecordFailure(w) \/ ClaimAttach(w) \/ FinishAttach(w)
      PROVE  Grown
  <2>1. UNCHANGED <<inbox, rules, unmapped>>
    BY <1>8, SMTT(60) DEF CreateEvent, ShowClientPopup, EnqueueAction, RunAtomic, RecordFailure, ClaimAttach,
                FinishAttach
  <2>2. ledger' = ledger \/ \E v \in {"pending", "succeeded", "failed"} : ledger' = [ledger EXCEPT ![K(w)] = v]
    BY <1>8 DEF CreateEvent, ShowClientPopup, EnqueueAction, RunAtomic, RecordFailure, ClaimAttach,
                FinishAttach, Failed
  <2> QED BY <1>2, <1>7, <2>1, <2>2, SMTT(60)
<1>9. ASSUME NEW w \in Workers, WorkerStep(w) PROVE Grown
  <2>1. ASSUME Poll(w) \/ LoadRow(w) \/ NextRule(w) \/ SkipClaimed(w) \/ RaiseKnown(w)
               \/ RaiseOther(w) \/ FindInstance(w) \/ StartInstance(w)
        PROVE  UNCHANGED <<inbox, rules, ledger, unmapped>>
    BY <2>1, Zenon DEF Poll, LoadRow, NextRule, SkipClaimed, RaiseKnown, RaiseOther, FindInstance,
                StartInstance, db
  <2> QED BY <1>2, <1>5, <1>6, <1>8, <1>9, <2>1, Zenon DEF WorkerStep
<1>10. ASSUME \/ \E w \in Workers : Crash(w)
              \/ \E o \in Operators : OperatorStarts(o) \/ \E k \in Keys : OperatorFinds(o, k)
              \/ Deprecate \/ UNCHANGED vars
       PROVE  UNCHANGED <<inbox, rules, ledger, unmapped>>
  BY <1>10, SMTT(60) DEF Crash, OperatorStarts, OperatorFinds, Deprecate, vars, db
<1> QED BY <1>2, <1>3, <1>4, <1>9, <1>10 DEF Next

(* What is accounted for, or claimed, stays so.                              *)
LEMMA AccountedKept ==
  ASSUME IInv, Grown, NEW i \in DOMAIN inbox
  PROVE  /\ Due(i, inbox', rules') \subseteq Due(i, inbox, rules)
         /\ \A n \in DOMAIN Rules, m \in Nat : m <= Len(Script[Rules[n]]) /\ ClaimedTo(i, n, m, ledger)
              => ClaimedTo(i, n, m, ledger')
         /\ \A n \in DOMAIN Rules : Done(i, n, ledger) => Done(i, n, ledger')
         /\ Mapped(i, inbox) => Mapped(i, inbox')
         /\ Accounted(i, inbox, rules, ledger, unmapped) => Accounted(i, inbox', rules', ledger', unmapped')
<1>1. i \in 1 .. MaxRows /\ inbox[i].signal \in Signals /\ inbox'[i].signal = inbox[i].signal
  <2>1. inbox \in Seq([signal : Signals, processed : BOOLEAN]) /\ Len(inbox) <= MaxRows
    BY DEF IInv, TypeOK
  <2>2. inbox[i] \in [signal : Signals, processed : BOOLEAN] /\ i \in 1 .. Len(inbox) /\ Len(inbox) \in Nat
    BY <2>1, Entries, Zenon
  <2> QED BY <2>1, <2>2, TriggerAssumption, SMTT(60) DEF Grown
<1>2. Due(i, inbox', rules') \subseteq Due(i, inbox, rules)
  BY <1>1 DEF Due, Grown
<1>3. \A n \in DOMAIN Rules : Rules[n] \in RuleSet /\ Len(Script[Rules[n]]) \in Nat
  BY TriggerAssumption, SMTT(60)
<1>4. ASSUME NEW n \in DOMAIN Rules, NEW m \in Nat, m <= Len(Script[Rules[n]]), ClaimedTo(i, n, m, ledger)
      PROVE  ClaimedTo(i, n, m, ledger')
  <2> SUFFICES ASSUME NEW j \in 1 .. m PROVE ledger'[Key(i, Rules[n], 1, j)] # "none"
    BY DEF ClaimedTo
  <2>1. j \in 1 .. Len(Script[Rules[n]]) /\ 1 \in 1 .. MaxVersion
    BY <1>3, <1>4, TriggerAssumption, SMTT(60)
  <2>2. Key(i, Rules[n], 1, j) \in Keys
    BY <1>1, <1>3, <2>1, KeyIsKey, SMTT(60)
  <2> QED BY <1>4, <2>2 DEF Grown, ClaimedTo
<1>5. \A n \in DOMAIN Rules : Done(i, n, ledger) => Done(i, n, ledger')
  BY <1>3, <1>4, SMTT(60) DEF Done
<1>6. Mapped(i, inbox) => Mapped(i, inbox')
  BY <1>1, SMTT(60) DEF Mapped
<1>7. unmapped[inbox[i].signal] > 0 => unmapped'[inbox'[i].signal] > 0
  BY <1>1 DEF Grown
<1>8. \A n \in Due(i, inbox', rules') : n \in DOMAIN Rules
  BY Zenon DEF Due
<1>9. Accounted(i, inbox, rules, ledger, unmapped) => Accounted(i, inbox', rules', ledger', unmapped')
  BY <1>1, <1>2, <1>5, <1>6, <1>7, <1>8, Zenon DEF Accounted
<1> QED BY <1>2, <1>4, <1>5, <1>6, <1>9, SMTT(60)

(* A drain that stands still loses nothing to the steps of the others.       *)
LEMMA UnderwayKept ==
  ASSUME IInv, Grown, NEW d \in Drains, d.pc # "idle" => d.rows \subseteq DOMAIN inbox,
         Underway(d, inbox, rules, ledger, unmapped)
  PROVE  Underway(d, inbox', rules', ledger', unmapped')
<1> DEFINE i == Min(d.rows)
<1>1. CASE d.pc \notin InRule \cup {"unmapped", "mark", "rule"}
  BY <1>1, Zenon DEF Underway
<1>2. CASE d.pc \in InRule \cup {"unmapped", "mark", "rule"}
  <2>1. i \in DOMAIN inbox
    BY <1>2, DrainShape DEF InRule
  <2>2. ASSUME d.pc \in InRule
        PROVE  /\ d.key.index - 1 \in Nat
               /\ \A n \in DOMAIN Rules : d.key.rule = Rules[n] => d.key.index - 1 <= Len(Script[Rules[n]])
    <3>1. d.key \in Keys
      BY <2>2, DrainShape, SMTT(60)
    <3> QED BY <3>1, KeyShape, SMTT(60)
  <2> HIDE DEF i
  <2>3. \A n \in Due(i, inbox', rules') : n \in DOMAIN Rules
    BY DEF Due
  <2>4. Underway(d, inbox, rules, ledger, unmapped) = 
          /\ d.pc = "mark" => Accounted(i, inbox, rules, ledger, unmapped)
          /\ d.pc = "unmapped" => Due(i, inbox, rules) = {}
          /\ d.pc \in InRule \cup {"rule"} =>
               /\ Mapped(i, inbox)
               /\ \A n \in Due(i, inbox, rules) :
                    \/ n \in d.left \/ Done(i, n, ledger)
                    \/ /\ d.pc \in InRule /\ d.key.rule = Rules[n] /\ d.key.version = 1
                       /\ ClaimedTo(i, n, d.key.index - 1, ledger)
    BY Zenon DEF Underway, i
  <2>5. d.pc \in InRule \cup {"rule"} =>
               /\ Mapped(i, inbox')
               /\ \A n \in Due(i, inbox', rules') :
                    \/ n \in d.left \/ Done(i, n, ledger')
                    \/ /\ d.pc \in InRule /\ d.key.rule = Rules[n] /\ d.key.version = 1
                       /\ ClaimedTo(i, n, d.key.index - 1, ledger')
    BY <2>1, <2>2, <2>3, <2>4, AccountedKept, Zenon
  <2>6. /\ d.pc = "mark" => Accounted(i, inbox', rules', ledger', unmapped')
        /\ d.pc = "unmapped" => Due(i, inbox', rules') = {}
    BY <2>1, <2>4, AccountedKept, ZenonT(60)
  <2> QED BY <2>5, <2>6, Zenon DEF Underway, i
<1> QED BY <1>1, <1>2

(* Behind an action that is claimed, a drain still has done what it passed.  *)
LEMMA AfterUnderway ==
  ASSUME IInv, Grown, NEW w \in Workers, worker[w].pc \in InRule, NEW e,
         e = worker[w].event \/ e = K(w), ledger'[K(w)] # "none",
         Underway(worker[w], inbox, rules, ledger, unmapped)
  PROVE  Underway(After(w, e), inbox', rules', ledger', unmapped')
<1> DEFINE i == Row(w)
           k == K(w)
           d == After(w, e)
<1>1. /\ d \in Drains /\ d.rows = worker[w].rows /\ d.left = worker[w].left
      /\ \/ d.pc = "rule" /\ k.index = Len(Script[k.rule])
         \/ d.pc = "action" /\ d.key = [k EXCEPT !.index = @ + 1]
  BY AfterShape, SMTT(60)
<1>2. worker[w] \in Drains /\ k \in Keys /\ Place(worker[w], inbox, ledger, instances)
  BY DrainShape DEF IInv, TypeOK, K
<1>3. k.row = i /\ worker[w].rows \subseteq DOMAIN inbox /\ worker[w].pc # "idle"
  BY <1>2, ZenonT(60) DEF Place, Row, InRule, K
<1>4. Underway(worker[w], inbox', rules', ledger', unmapped')
  BY <1>2, <1>3, UnderwayKept
<1>5. k.index \in Nat /\ k.index >= 1 /\ k = Key(k.row, k.rule, k.version, k.index)
  <2>1. k = [k EXCEPT !.index = k.index]
    BY <1>2 DEF Keys
  <2> QED BY <1>2, <2>1, KeyShape
<1>6. d.pc = "action" => d.key.rule = k.rule /\ d.key.version = k.version /\ d.key.index = k.index + 1
  BY <1>1, <1>2 DEF Keys
<1>7. /\ Mapped(i, inbox')
      /\ \A n \in Due(i, inbox', rules') :
           \/ n \in worker[w].left \/ Done(i, n, ledger')
           \/ /\ k.rule = Rules[n] /\ k.version = 1 /\ ClaimedTo(i, n, k.index - 1, ledger')
  BY <1>4, Zenon DEF Underway, Row, K
<1> HIDE DEF d, k, i
<1>8. ASSUME NEW n, k.rule = Rules[n], k.version = 1, ClaimedTo(i, n, k.index - 1, ledger')
      PROVE  ClaimedTo(i, n, k.index, ledger')
  <2> SUFFICES ASSUME NEW j \in 1 .. k.index PROVE ledger'[Key(i, Rules[n], 1, j)] # "none"
    BY Zenon DEF ClaimedTo
  <2>1. CASE j = k.index
    BY <1>3, <1>5, <1>8, <2>1, Zenon DEF k
  <2>2. CASE j # k.index
    <3>1. j \in 1 .. k.index - 1
      BY <1>5, <2>2
    <3> QED BY <1>8, <3>1, ZenonT(60) DEF ClaimedTo
  <2> QED BY <2>1, <2>2, Zenon
<1>9. ASSUME NEW n \in Due(i, inbox', rules')
      PROVE  \/ n \in d.left \/ Done(i, n, ledger')
             \/ /\ d.pc \in InRule /\ d.key.rule = Rules[n] /\ d.key.version = 1
                /\ ClaimedTo(i, n, d.key.index - 1, ledger')
  <2>1. CASE n \in worker[w].left \/ Done(i, n, ledger')
    BY <1>1, <2>1
  <2>2. CASE k.rule = Rules[n] /\ k.version = 1 /\ ClaimedTo(i, n, k.index - 1, ledger')
    <3>1. ClaimedTo(i, n, k.index, ledger')
      BY <1>8, <2>2, Zenon
    <3>2. CASE d.pc = "rule"
      BY <1>1, <2>2, <3>1, <3>2 DEF Done
    <3>3. CASE d.pc = "action"
      <4>1. d.key.index - 1 = k.index
        BY <1>5, <1>6, <3>3, OneBack, Zenon
      <4> QED BY <1>6, <2>2, <3>1, <3>3, <4>1, ZenonT(60) DEF InRule
    <3> QED BY <1>1, <3>2, <3>3, Zenon
  <2> QED BY <1>7, <2>1, <2>2, Zenon
<1>10. Min(d.rows) = i /\ d.pc \in {"rule", "action"}
  BY <1>1 DEF i, Row
<1>11. Underway(d, inbox', rules', ledger', unmapped')
  BY <1>7, <1>9, <1>10, Zenon DEF Underway
<1> QED BY <1>11 DEF d

(* Inside a rule a drain keeps its row, its candidates and its action.       *)
LEMMA InnerUnderway ==
  ASSUME IInv, Grown, NEW w \in Workers, worker[w].pc \in InRule,
         Underway(worker[w], inbox, rules, ledger, unmapped), NEW p \in InRule
  PROVE  Underway([worker[w] EXCEPT !.pc = p], inbox', rules', ledger', unmapped')
<1> DEFINE d == [worker[w] EXCEPT !.pc = p]
<1>1. worker[w] \in Drains /\ Place(worker[w], inbox, ledger, instances)
  BY DEF IInv, TypeOK
<1>2. worker[w].rows \subseteq DOMAIN inbox
  BY <1>1 DEF Place, InRule
<1>3. Underway(worker[w], inbox', rules', ledger', unmapped')
  BY <1>1, <1>2, UnderwayKept, Zenon
<1>4. /\ d.pc = p /\ d.rows = worker[w].rows /\ d.left = worker[w].left /\ d.key = worker[w].key
  BY <1>1 DEF Drains, Idle, InRule
<1> HIDE DEF d
<1>5. Underway(d, inbox', rules', ledger', unmapped')
  BY <1>3, <1>4, Zenon DEF Underway, InRule
<1> QED BY <1>5, SMTT(60) DEF d

(* A rule that is due is published, in its first version, and matches.       *)
LEMMA DueIsInForce ==
  ASSUME NEW i, NEW n \in Due(i, inbox, rules)
  PROVE  /\ n \in DOMAIN Rules /\ inbox[i].signal \in Matches[Rules[n]]
         /\ rules[Rules[n]].version = 1 /\ rules[Rules[n]].published
<1> DEFINE P == [version |-> 1, published |-> TRUE]
<1>1. n \in DOMAIN Rules /\ inbox[i].signal \in Matches[Rules[n]] /\ rules[Rules[n]] = P
  BY Zenon DEF Due
<1>2. P.version = 1 /\ P.published
  OBVIOUS
<1> HIDE DEF P
<1> QED BY <1>1, <1>2

(* Loading a row and choosing the next rule leave nothing out.               *)
LEMMA ReadUnderway ==
  ASSUME IInv, NEW w \in Workers, LoadRow(w) \/ NextRule(w),
         Underway(worker[w], inbox, rules, ledger, unmapped)
  PROVE  \E d : Goto(w, d) /\ Underway(d, inbox', rules', ledger', unmapped')
<1>0. UNCHANGED <<inbox, rules, ledger, unmapped>>
  BY Zenon DEF LoadRow, NextRule, db
<1> SUFFICES \E d : Goto(w, d) /\ Underway(d, inbox, rules, ledger, unmapped)
  BY <1>0, SMTT(60)
<1> DEFINE rows == worker[w].rows
           i == Row(w)
<1>1. \A n \in DOMAIN Rules : Rules[n] \in RuleSet
  BY TriggerAssumption, SMTT(60)
<1>2. CASE LoadRow(w)
  <2> DEFINE s == inbox[i].signal
             C == Candidates(s)
             d1 == [pc |-> "row", rows |-> rows \ {i}]
             d2 == [pc |-> "mark", rows |-> rows]
             d3 == [pc |-> "unmapped", rows |-> rows]
             d4 == [pc |-> "rule", rows |-> rows, left |-> C]
  <2>1. Due(i, inbox, rules) \subseteq C
    BY DueIsInForce, Zenon DEF Candidates
  <2>2. Underway(Idle, inbox, rules, ledger, unmapped) /\ Underway(d1, inbox, rules, ledger, unmapped)
    BY Zenon DEF Underway, Idle, InRule
  <2>3. s \in Raw => Underway(d2, inbox, rules, ledger, unmapped)
    BY Zenon DEF Underway, InRule, Accounted, Row
  <2>4. C = {} => Underway(d3, inbox, rules, ledger, unmapped)
    BY <2>1, Zenon DEF Underway, InRule, Row
  <2>5. C # {} => Underway(d4, inbox, rules, ledger, unmapped)
    <3>1. C # {} => Mapped(i, inbox)
      BY <1>1, Zenon DEF Mapped, Candidates
    <3>2. Min(d4.rows) = i /\ d4.left = C /\ d4.pc = "rule"
      BY DEF Row
    <3> HIDE DEF d4, C
    <3> QED BY <2>1, <3>1, <3>2, Zenon DEF Underway, InRule
  <2>6. \/ Goto(w, Idle) \/ Goto(w, d1) \/ (s \in Raw /\ Goto(w, d2))
        \/ (C = {} /\ Goto(w, d3)) \/ (C # {} /\ Goto(w, d4))
    <3> DEFINE D == IF rows = {} THEN Idle ELSE IF inbox[i].processed THEN d1
                    ELSE IF s \in Raw THEN d2 ELSE IF C = {} THEN d3 ELSE d4
    <3>1. Goto(w, D)
      BY <1>2, Zenon DEF LoadRow
    <3> HIDE DEF d1, d2, d3, d4, C, s
    <3>2. D = Idle \/ D = d1 \/ (s \in Raw /\ D = d2) \/ (C = {} /\ D = d3) \/ (C # {} /\ D = d4)
      BY Zenon
    <3> HIDE DEF D
    <3> QED BY <3>1, <3>2, Zenon DEF Goto
  <2> HIDE DEF d1, d2, d3, d4, C, s
  <2> QED BY <2>2, <2>3, <2>4, <2>5, <2>6
<1>3. CASE NextRule(w)
  <2> DEFINE left == worker[w].left
             n == Min(left)
             r == Rules[n]
             d1 == [pc |-> "mark", rows |-> rows]
             d2 == [pc |-> "rule", rows |-> rows, left |-> left \ {n}]
             d3 == [pc |-> "action", rows |-> rows, left |-> left \ {n}, event |-> NoEvent,
                    key |-> Key(i, r, rules[r].version, 1)]
             P == [version |-> 1, published |-> TRUE]
  <2>1. worker[w].pc = "rule"
    BY <1>3, Zenon DEF NextRule
  <2>2. Mapped(i, inbox) /\ \A m \in Due(i, inbox, rules) : m \in left \/ Done(i, m, ledger)
    BY <2>1, Zenon DEF Underway, InRule, Row
  <2>3. Min(d1.rows) = i /\ Min(d2.rows) = i /\ Min(d3.rows) = i
    BY Zenon DEF Row
  <2>4. left = {} => Underway(d1, inbox, rules, ledger, unmapped)
    <3>1. left = {} => Accounted(i, inbox, rules, ledger, unmapped)
      BY <2>2, Zenon DEF Accounted
    <3> QED BY <2>3, <3>1, Zenon DEF Underway, InRule
  <2>5. ~rules[r].published => Underway(d2, inbox, rules, ledger, unmapped)
    <3>1. ~rules[r].published => n \notin Due(i, inbox, rules)
      BY DueIsInForce, Zenon
    <3>2. d2.pc = "rule" /\ d2.left = left \ {n}
      BY Zenon
    <3> HIDE DEF d2, n
    <3> QED BY <2>2, <2>3, <3>1, <3>2, Zenon DEF Underway, InRule
  <2>6. Underway(d3, inbox, rules, ledger, unmapped)
    <3>1. /\ d3.pc = "action" /\ d3.left = left \ {n} /\ d3.key.rule = r
          /\ d3.key.version = rules[r].version /\ d3.key.index - 1 = 0
      <4> DEFINE k == Key(i, r, rules[r].version, 1)
      <4>1. k.rule = r /\ k.version = rules[r].version /\ k.index = 1
        BY Zenon DEF Key
      <4>2. d3.pc = "action" /\ d3.left = left \ {n} /\ d3.key = k
        BY Zenon
      <4>3. 1 - 1 = 0
        OBVIOUS
      <4> HIDE DEF k
      <4> QED BY <4>1, <4>2, <4>3, Zenon
    <3>2. n \in Due(i, inbox, rules) => rules[r].version = 1
      BY DueIsInForce, Zenon
    <3>3. ClaimedTo(i, n, 0, ledger)
      BY DEF ClaimedTo
    <3> HIDE DEF d3, n
    <3>4. \A m \in Due(i, inbox, rules) :
            \/ m \in d3.left \/ Done(i, m, ledger)
            \/ /\ d3.key.rule = Rules[m] /\ d3.key.version = 1
               /\ ClaimedTo(i, m, d3.key.index - 1, ledger)
      BY <2>2, <3>1, <3>2, <3>3, Zenon
    <3> QED BY <2>2, <2>3, <3>1, <3>4, Zenon DEF Underway, InRule
  <2>7. (left = {} /\ Goto(w, d1)) \/ (~rules[r].published /\ Goto(w, d2)) \/ Goto(w, d3)
    <3> DEFINE D == IF left = {} THEN d1 ELSE IF ~rules[r].published THEN d2 ELSE d3
    <3>1. Goto(w, D)
      BY <1>3, Zenon DEF NextRule
    <3> HIDE DEF d1, d2, d3, n, r
    <3>2. (left = {} /\ D = d1) \/ (~rules[r].published /\ D = d2) \/ D = d3
      BY Zenon
    <3> HIDE DEF D
    <3> QED BY <3>1, <3>2, Zenon DEF Goto
  <2> HIDE DEF d1, d2, d3, n, r
  <2> QED BY <2>4, <2>5, <2>6, <2>7, Zenon
<1> QED BY <1>2, <1>3

(* Every step of a drain leaves it with no action behind it unclaimed.       *)
LEMMA StepUnderway ==
  ASSUME IInv, Grown, NEW w \in Workers, WorkerStep(w),
         Underway(worker[w], inbox, rules, ledger, unmapped)
  PROVE  \E d : Goto(w, d) /\ Underway(d, inbox', rules', ledger', unmapped')
<1>0. /\ worker[w] \in Drains /\ Place(worker[w], inbox, ledger, instances)
      /\ ledger \in [Keys -> {"none", "pending", "succeeded", "failed"}]
      /\ unmapped \in [Signals -> Nat]
      /\ worker[w].pc \in InRule => K(w) \in Keys
  BY DrainShape DEF IInv, TypeOK, K
<1>1. CASE LoadRow(w) \/ NextRule(w)
  BY <1>1, ReadUnderway, ZenonT(60)
<1>2. CASE Poll(w) \/ MarkProcessed(w) \/ RaiseOther(w)
  <2>1. PICK d \in {Idle} \cup [pc : {"row"}, rows : {Oldest(Unprocessed), worker[w].rows \ {Row(w)}}] :
          Goto(w, d)
    BY <1>2, SMTT(30), SMTT(60) DEF Poll, MarkProcessed, RaiseOther
  <2>2. d.pc \in {"idle", "row"}
    BY <2>1 DEF Idle
  <2>3. Underway(d, inbox', rules', ledger', unmapped')
    BY <2>2, Zenon DEF Underway, InRule
  <2> QED BY <2>1, <2>3
<1>3. CASE RecordUnmapped(w)
  <2> DEFINE d == [pc |-> "mark", rows |-> worker[w].rows]
             i == Row(w)
  <2>1. /\ worker[w].pc = "unmapped" /\ Goto(w, d) /\ UNCHANGED <<inbox, rules, ledger>>
        /\ unmapped' = [unmapped EXCEPT ![inbox[i].signal] = @ + 1]
    BY <1>3, Zenon DEF RecordUnmapped
  <2>2. inbox[i].signal \in Signals
    BY <2>1, RowInBox, Zenon
  <2>3. unmapped'[inbox[i].signal] > 0
    <3>1. \A m \in Nat : m + 1 > 0
      OBVIOUS
    <3>2. \A s \in Signals : [unmapped EXCEPT ![s] = @ + 1][s] = unmapped[s] + 1 /\ unmapped[s] \in Nat
      BY <1>0, Zenon
    <3> QED BY <2>1, <2>2, <3>1, <3>2, Zenon
  <2>4. Due(i, inbox, rules) = {}
    BY <2>1, Zenon DEF Underway, Row
  <2>5. Accounted(i, inbox', rules', ledger', unmapped')
    BY <2>1, <2>3, <2>4, Zenon DEF Accounted
  <2>6. d.pc = "mark" /\ Min(d.rows) = i
    BY DEF Row
  <2> HIDE DEF d, i
  <2>7. Underway(d, inbox', rules', ledger', unmapped')
    BY <2>5, <2>6, Zenon DEF Underway, InRule
  <2> QED BY <2>1, <2>7, Zenon
<1>4. ASSUME NEW e, e = worker[w].event \/ e = K(w), worker[w].pc \in InRule,
             Goto(w, After(w, e)), ledger'[K(w)] # "none"
      PROVE  \E d : Goto(w, d) /\ Underway(d, inbox', rules', ledger', unmapped')
  BY <1>4, AfterUnderway, Zenon
<1>5. CASE SkipClaimed(w)
  <2>1. worker[w].pc \in InRule /\ ledger'[K(w)] # "none" /\ Goto(w, After(w, worker[w].event))
    BY <1>5, Zenon DEF SkipClaimed, InRule, CanClaim, db
  <2> QED BY <1>4, <2>1, Zenon
<1>6. CASE CreateEvent(w) \/ ShowClientPopup(w) \/ EnqueueAction(w)
  <2>1. PICK e \in {worker[w].event, K(w)} :
          /\ worker[w].pc = "action" /\ Goto(w, After(w, e))
          /\ ledger' = [ledger EXCEPT ![K(w)] = "succeeded"]
    BY <1>6, ZenonT(60) DEF CreateEvent, ShowClientPopup, EnqueueAction, RunAtomic
  <2>2. worker[w].pc \in InRule /\ ledger'[K(w)] # "none"
    BY <1>0, <2>1, SMTT(30), SMTT(60) DEF InRule
  <2> QED BY <1>4, <2>1, <2>2, Zenon
<1>7. CASE RecordFailure(w) \/ FinishAttach(w)
  <2>1. worker[w].pc \in InRule /\ Goto(w, After(w, worker[w].event))
    BY <1>7, Zenon DEF RecordFailure, FinishAttach, InRule
  <2>2. ledger'[K(w)] # "none"
    BY <1>0, <1>7, <2>1, Zenon DEF RecordFailure, FinishAttach, Failed, FailureCounts, Unsettled
  <2> QED BY <1>4, <2>1, <2>2
<1>8. CASE RaiseKnown(w) \/ ClaimAttach(w) \/ FindInstance(w) \/ StartInstance(w)
  <2>1. PICK p \in InRule : worker[w].pc \in InRule /\ Goto(w, [worker[w] EXCEPT !.pc = p])
    BY <1>8 DEF RaiseKnown, ClaimAttach, FindInstance, StartInstance, InRule
  <2> QED BY <2>1, InnerUnderway
<1> QED BY <1>1, <1>2, <1>3, <1>5, <1>6, <1>7, <1>8, ZenonT(60) DEF WorkerStep

(* The second invariant holds initially ...                                  *)
LEMMA InitAInv == Init => AInv
<1> SUFFICES ASSUME Init PROVE AInv
  OBVIOUS
<1>1. DOMAIN inbox = {}
  BY SMTT(30) DEF Init
<1>2. \A w \in Workers : worker[w] = Idle
  BY DEF Init
<1>3. Underway(Idle, inbox, rules, ledger, unmapped)
  BY ZenonT(60) DEF Underway, Idle, InRule
<1> QED BY <1>1, <1>2, <1>3, SMTT(60) DEF AInv

(* ... and is kept by every step.                                            *)
LEMMA NextAInv == IInv /\ AInv /\ [Next]_vars => AInv'
<1> SUFFICES ASSUME IInv, AInv, [Next]_vars PROVE AInv'
  OBVIOUS
<1>0. Grown
  BY Growing
<1>1. ASSUME NEW v \in Workers PROVE Underway(worker[v], inbox', rules', ledger', unmapped')
  <2>1. worker[v] \in Drains /\ Place(worker[v], inbox, ledger, instances)
    BY DEF IInv, TypeOK
  <2>2. worker[v].pc # "idle" => worker[v].rows \subseteq DOMAIN inbox
    BY <2>1 DEF Place
  <2>3. Underway(worker[v], inbox, rules, ledger, unmapped)
    BY ZenonT(60) DEF AInv
  <2> QED BY <1>0, <2>1, <2>2, <2>3, UnderwayKept, Zenon
<1>2. ASSUME NEW w \in Workers, NEW d, Goto(w, d), Underway(d, inbox', rules', ledger', unmapped')
      PROVE  \A v \in Workers : Underway(worker'[v], inbox', rules', ledger', unmapped')
  <2>1. worker \in [Workers -> Drains]
    BY DEF IInv, TypeOK
  <2>2. worker'[w] = d /\ \A v \in Workers : v # w => worker'[v] = worker[v]
    BY <1>2, <2>1 DEF Goto
  <2> QED BY <1>1, <1>2, <2>2, ZenonT(60)
<1>3. \A v \in Workers : Underway(worker'[v], inbox', rules', ledger', unmapped')
  <2>1. ASSUME NEW w \in Workers, WorkerStep(w)
        PROVE  \A v \in Workers : Underway(worker'[v], inbox', rules', ledger', unmapped')
    <3>1. Underway(worker[w], inbox, rules, ledger, unmapped)
      BY DEF AInv
    <3> QED BY <1>0, <1>2, <2>1, <3>1, StepUnderway, Zenon
  <2>2. ASSUME NEW w \in Workers, Crash(w)
        PROVE  \A v \in Workers : Underway(worker'[v], inbox', rules', ledger', unmapped')
    <3>1. Underway(Idle, inbox', rules', ledger', unmapped')
      BY Zenon DEF Underway, Idle, InRule
    <3> QED BY <1>2, <2>2, <3>1, Zenon DEF Crash
  <2>3. ASSUME worker' = worker
        PROVE  \A v \in Workers : Underway(worker'[v], inbox', rules', ledger', unmapped')
    BY <1>1, <2>3
  <2>4. ASSUME \/ \E s \in Signals : Ingest(s)
               \/ \E r \in RuleSet : Publish(r) \/ Retire(r)
               \/ \E o \in Operators : OperatorStarts(o) \/ \E k \in Keys : OperatorFinds(o, k)
               \/ Deprecate \/ UNCHANGED vars
        PROVE  worker' = worker
    BY <2>4, Zenon DEF Ingest, Publish, Retire, OperatorStarts, OperatorFinds, Deprecate, vars
  <2> QED BY <2>1, <2>2, <2>3, <2>4, Zenon DEF Next
<1>4. ASSUME NEW i \in DOMAIN inbox', inbox'[i].processed
      PROVE  Accounted(i, inbox', rules', ledger', unmapped')
  <2>1. ASSUME i \in DOMAIN inbox, inbox[i].processed
        PROVE  Accounted(i, inbox', rules', ledger', unmapped')
    BY <1>0, <2>1, AccountedKept, Zenon DEF AInv
  <2>2. ASSUME NEW s \in Signals, Ingest(s)
        PROVE  i \in DOMAIN inbox /\ inbox[i].processed
    <3> DEFINE n == Len(inbox) + 1
    <3>1. /\ DOMAIN inbox' = DOMAIN inbox \cup {n}
          /\ \A j \in DOMAIN inbox : inbox'[j] = inbox[j]
          /\ inbox'[n] = [signal |-> s, processed |-> FALSE]
      BY <2>2, IngestGrows, ZenonT(60) DEF IInv
    <3> HIDE DEF n
    <3>2. ~inbox'[n].processed
      BY <3>1
    <3>3. i # n
      BY <1>4, <3>2
    <3> QED BY <1>4, <3>1, <3>3, Zenon
  <2>3. ASSUME NEW w \in Workers, MarkProcessed(w)
        PROVE  Accounted(i, inbox', rules', ledger', unmapped')
    <3>1. DOMAIN inbox' = DOMAIN inbox /\ (i # Row(w) => inbox'[i] = inbox[i])
      BY <2>3, MarkStep, SMTT(60)
    <3>2. CASE i = Row(w)
      <4>1. Accounted(i, inbox, rules, ledger, unmapped)
        BY <2>3, <3>2, SMTT(60) DEF AInv, Underway, MarkProcessed, Row
      <4> QED BY <1>0, <3>1, <4>1, AccountedKept, SMTT(60)
    <3>3. CASE i # Row(w)
      BY <1>4, <2>1, <3>1, <3>3, SMTT(60)
    <3> QED BY <3>2, <3>3, SMTT(60)
  <2>4. ASSUME inbox' = inbox
        PROVE  Accounted(i, inbox', rules', ledger', unmapped')
    BY <1>4, <2>1, <2>4, Zenon
  <2>5. ASSUME NEW w \in Workers, WorkerStep(w), ~MarkProcessed(w)
        PROVE  inbox' = inbox
    BY <2>5, Zenon DEF WorkerStep, Poll, LoadRow, RecordUnmapped, NextRule, SkipClaimed, CreateEvent,
       ShowClientPopup, EnqueueAction, RunAtomic, RaiseKnown, RecordFailure, RaiseOther, ClaimAttach,
       FindInstance, StartInstance, FinishAttach, db
  <2>6. ASSUME \/ \E r \in RuleSet : Publish(r) \/ Retire(r)
               \/ \E o \in Operators : OperatorStarts(o) \/ \E k \in Keys : OperatorFinds(o, k)
               \/ \E w \in Workers : Crash(w)
               \/ Deprecate \/ UNCHANGED vars
        PROVE  inbox' = inbox
    BY <2>6 DEF Publish, Retire, OperatorStarts, OperatorFinds, Crash, Deprecate, vars, db
  <2> QED BY <2>1, <2>2, <2>3, <2>4, <2>5, <2>6, SMTT(60) DEF Next
<1> QED BY <1>3, <1>4 DEF AInv

(* The ledger tells the truth: an entry that says succeeded had its effect,  *)
(* once, no other had one, what is settled is audited once, and a signal     *)
(* that process_inbox_event has marked processed has every action of every   *)
(* rule in force claimed, or is recorded as unmapped.                        *)
THEOREM LedgerIsTrue == Spec => []LedgerTellsTruth
<1>1. IInv => EntriesTellTruth
  <2> SUFFICES ASSUME IInv, NEW k \in Keys
               PROVE  /\ Kind(k) # "attach_workflow" => (ledger[k] = "succeeded") = (effects[k] > 0)
                      /\ Kind(k) = "attach_workflow" /\ ledger[k] = "succeeded" =>
                           \E j \in 1 .. k.index - 1 : instances[[k EXCEPT !.index = j]] > 0
                      /\ audits[k] = IF Unsettled(k) THEN 0 ELSE 1
    BY Zenon DEF EntriesTellTruth
  <2>1. Entry(k, ledger, effects, audits, instances)
    BY SMTT(30), SMTT(60) DEF IInv
  <2> QED BY <2>1 DEF Entry, Unsettled
<1>2. IInv /\ AInv => ProcessedIsAccounted
  <2> SUFFICES ASSUME IInv, AInv, NEW i \in Rows, Processed(i), inbox[i].signal \notin Raw
               PROVE  /\ \A r \in RuleSet :
                           inbox[i].signal \in Matches[r] /\ rules[r] = [version |-> 1, published |-> TRUE] =>
                             \A j \in DOMAIN Script[r] : ledger[Key(i, r, 1, j)] # "none"
                      /\ (\A r \in RuleSet : inbox[i].signal \notin Matches[r]) => unmapped[inbox[i].signal] > 0
    BY DEF ProcessedIsAccounted
  <2>1. /\ \A n \in Due(i, inbox, rules) : Done(i, n, ledger)
        /\ Mapped(i, inbox) \/ unmapped[inbox[i].signal] > 0
    BY Zenon DEF AInv, Processed, Rows, Accounted
  <2>2. ASSUME NEW r \in RuleSet, inbox[i].signal \in Matches[r],
               rules[r] = [version |-> 1, published |-> TRUE], NEW j \in DOMAIN Script[r]
        PROVE  ledger[Key(i, r, 1, j)] # "none"
    <3>1. PICK n \in DOMAIN Rules : Rules[n] = r
      BY ZenonT(60) DEF RuleSet, Range
    <3>2. n \in Due(i, inbox, rules)
      BY <2>2, <3>1, SMTT(60) DEF Due
    <3>3. j \in 1 .. Len(Script[Rules[n]])
      BY <2>2, <3>1, TriggerAssumption, SMTT(30), SMTT(60)
    <3>4. ClaimedTo(i, n, Len(Script[Rules[n]]), ledger)
      BY <2>1, <3>2, ZenonT(60) DEF Done
    <3> QED BY <3>1, <3>3, <3>4, Zenon DEF ClaimedTo
  <2> QED BY <2>1, <2>2, SMTT(60) DEF Mapped
<1> QED BY InitIInv, NextIInv, InitAInv, NextAInv, <1>1, <1>2, PTL DEF Spec, LedgerTellsTruth
=============================================================================
