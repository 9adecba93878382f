----------------------------- MODULE AuditChain -----------------------------
(***************************************************************************)
(* The audit log (audit/service.py, audit_events) and its hash chain       *)
(* (infra/repositories/audit_chain.py, audit_chain_links), sealed and      *)
(* verified by the audit-chain worker. An audit row takes its seq from an  *)
(* identity column when it is flushed and appears when its transaction     *)
(* commits; a transaction that rolls back leaves its seq unused.           *)
(***************************************************************************)
EXTENDS Integers, Sequences, FiniteSetsExt, WellFoundedInduction, TLAPS

CONSTANTS
  Sealers,     \* workers that run the tick: one, or two when a lease is lost
  MaxSeq,      \* bound: seq values handed out
  MaxAlerts,   \* bound: AUDIT_INTEGRITY_ALERT rows
  Tampering    \* TRUE: sealed rows may be changed behind the application

ASSUME AuditAssumption == MaxSeq \in Nat

VARIABLES
  row,      \* row[i]: the audit row with seq i
  content,  \* content[i]: its fields, as far as their digest tells them apart
  links,    \* audit_chain_links: a link for each sealed seq, which is their key
  lock,     \* holders of the advisory lock
  sealer,   \* sealer[s]: where worker s is in its tick, and what it has read
  alerts    \* the first bad seqs that were alerted

vars == <<row, content, links, lock, sealer, alerts>>

Seqs == 1 .. MaxSeq
Contents == {"written", "altered"}
Idle == [pc |-> "idle"]

(* Hashes are taken to be free of collisions: a row's digest is its seq and  *)
(* fields, a link's hash the digests it covers, the genesis hash the empty   *)
(* sequence.                                                                 *)
Digest(i) == <<i, content[i]>>
LinkHash(prev, i) == Append(prev, Digest(i))
Genesis == <<>>
Hashes == Seq(Seqs \X Contents)

TypeOK ==
  /\ row \in [Seqs -> {"unused", "open", "committed", "rolled_back", "removed"}]
  /\ content \in [Seqs -> Contents]
  /\ DOMAIN links \subseteq Seqs
  /\ \A i \in DOMAIN links : links[i].prev \in Hashes /\ links[i].hash \in Hashes
  /\ lock \subseteq Sealers
  /\ \A s \in Sealers : sealer[s].pc \in {"idle", "sealing", "verify", "alert"}
  /\ alerts \in Seq(Seqs)

Init ==
  /\ row = [i \in Seqs |-> "unused"] /\ content = [i \in Seqs |-> "written"]
  /\ links = <<>> /\ lock = {} /\ sealer = [s \in Sealers |-> Idle] /\ alerts = <<>>

-----------------------------------------------------------------------------
Unused == {i \in Seqs : row[i] = "unused"}
Committed == {i \in Seqs : row[i] = "committed"}

(* AuditService.write flushes the row in the caller's transaction ...        *)
Write ==
  /\ Unused # {} /\ row' = [row EXCEPT ![Min(Unused)] = "open"]
  /\ UNCHANGED <<content, links, lock, sealer, alerts>>

(* ... which ends either way.                                                *)
EndWrite(i, outcome) ==
  /\ row[i] = "open" /\ row' = [row EXCEPT ![i] = outcome]
  /\ UNCHANGED <<content, links, lock, sealer, alerts>>

(* A row changed or removed behind the append-only triggers, in a restore    *)
(* for example.                                                              *)
Tamper(i) ==
  /\ Tampering /\ row[i] = "committed"
  /\ \/ content' = [content EXCEPT ![i] = "altered"] /\ UNCHANGED row
     \/ row' = [row EXCEPT ![i] = "removed"] /\ UNCHANGED content
  /\ UNCHANGED <<links, lock, sealer, alerts>>

-----------------------------------------------------------------------------
(* The links before seq i and the hash they end in. _head is what the chain  *)
(* has come to behind the last link.                                         *)
Before(i) == {j \in DOMAIN links : j < i}
HashBefore(i) == IF Before(i) = {} THEN Genesis ELSE links[Max(Before(i))].hash
HeadSeq == IF DOMAIN links = {} THEN 0 ELSE Max(DOMAIN links)
HeadHash == HashBefore(MaxSeq + 1)

PastHead == {i \in Committed : i > HeadSeq}

(* The links for some rows in seq order, every one hashed onto the one       *)
(* before; hash[i] is the last hash when all rows up to i have their link.   *)
ChainOfHead(head, rows) ==                                           \* mutant
  [i \in rows |-> [prev |-> head, hash |-> LinkHash(head, i)]]
RunningHash(head, rows) ==
  LET hash[i \in 0 .. MaxSeq] ==
        IF i = 0 THEN head ELSE IF i \in rows THEN LinkHash(hash[i - 1], i) ELSE hash[i - 1]
  IN hash
Chain(head, rows) ==
  LET hash == RunningHash(head, rows)
  IN [i \in rows |-> [prev |-> hash[i - 1], hash |-> hash[i]]]

(* seal: under the advisory lock, the rows past the head are read and get a  *)
(* link each ...                                                             *)
BeginSeal(s) ==
  /\ sealer[s] = Idle /\ lock = {}
  /\ lock' = lock \cup {s}
  /\ sealer' = [sealer EXCEPT ![s] = [pc |-> "sealing", new |-> Chain(HeadHash, PastHead)]]
  /\ UNCHANGED <<row, content, links, alerts>>

(* ... and the links are inserted: a second one for a row fails.             *)
CommitSeal(s) ==
  /\ sealer[s].pc = "sealing"
  /\ LET new == sealer[s].new
     IN /\ DOMAIN new \cap DOMAIN links = {}
        /\ links' = [i \in DOMAIN links \cup DOMAIN new |->
                       IF i \in DOMAIN new THEN new[i] ELSE links[i]]
  /\ lock' = lock \ {s} /\ sealer' = [sealer EXCEPT ![s] = [pc |-> "verify"]]
  /\ UNCHANGED <<row, content, alerts>>

(* verify: the first link that breaks the chain, 0 when none does.           *)
BadLink(i) ==
  \/ Before(i) # {} /\ i - 1 \notin DOMAIN links
  \/ links[i].prev # HashBefore(i)
  \/ row[i] # "committed"
  \/ LinkHash(HashBefore(i), i) # links[i].hash

FirstBad ==
  LET bad == {i \in DOMAIN links : BadLink(i)}
  IN IF bad = {} THEN 0 ELSE Min(bad)

VerifyChain(s) ==
  /\ sealer[s].pc = "verify"
  /\ sealer' = [sealer EXCEPT ![s] = IF FirstBad = 0 THEN Idle
                                     ELSE [pc |-> "alert", seq |-> FirstBad]]
  /\ UNCHANGED <<row, content, links, lock, alerts>>

(* The alert is an audit row of its own.                                     *)
Alert(s) ==
  /\ sealer[s].pc = "alert" /\ Unused # {} /\ Len(alerts) < MaxAlerts
  /\ row' = [row EXCEPT ![Min(Unused)] = "committed"]
  /\ alerts' = Append(alerts, sealer[s].seq)
  /\ sealer' = [sealer EXCEPT ![s] = Idle]
  /\ UNCHANGED <<content, links, lock>>

(* A tick that fails or dies: nothing it had not committed remains.          *)
Abort(s) ==
  /\ sealer[s] # Idle
  /\ lock' = lock \ {s} /\ sealer' = [sealer EXCEPT ![s] = Idle]
  /\ UNCHANGED <<row, content, links, alerts>>

Next ==
  \/ Write
  \/ \E i \in Seqs : Tamper(i) \/ \E o \in {"committed", "rolled_back"} : EndWrite(i, o)
  \/ \E s \in Sealers : BeginSeal(s) \/ CommitSeal(s) \/ VerifyChain(s) \/ Alert(s) \/ Abort(s)

Spec == Init /\ [][Next]_vars

-----------------------------------------------------------------------------
Touched(i) == content[i] = "altered" \/ row[i] = "removed"

(* Whoever seals, and however often a lease moves between two sealers, the   *)
(* links form one chain: each continues the hash of the one before it and    *)
(* adds the digest of its own row.                                           *)
ChainIsLinked ==
  \A i \in DOMAIN links :
    /\ links[i].prev = HashBefore(i)
    /\ \E c \in Contents : links[i].hash = Append(links[i].prev, <<i, c>>)

(* A row is sealed with the fields it was committed with: a change that      *)
(* comes after the seal makes every later verification fail.                 *)
ChangeIsFound ==
  \A i \in DOMAIN links :
    links[i].hash = Append(links[i].prev, <<i, "written">>) /\ Touched(i) => FirstBad # 0

(* seal under the advisory lock keeps one chain, verify finds what changed.  *)
ChainIsSound == ChainIsLinked /\ ChangeIsFound

-----------------------------------------------------------------------------
(* Proofs, for any number of sealers, rows and alerts. The seal holds the    *)
(* advisory lock from its read of the head to its commit, so the head it     *)
(* chains onto is still the head when its links appear.                      *)

(* A non-empty set of naturals has a minimum.                                *)
LEMMA MinIsIn ==
  ASSUME NEW S \in SUBSET Nat, S # {}
  PROVE  Min(S) \in S /\ \A x \in S : Min(S) <= x
<1> DEFINE R == {p \in Nat \X Nat : p[1] < p[2]}
<1>1. IsWellFoundedOn(R, Nat)
  BY NatLessThanWellFounded, Zenon DEF OpToRel
<1>2. \E x \in S : \A y \in S : ~(<<y, x>> \in R)
  <2> HIDE DEF R
  <2> QED BY <1>1, WFMin, Zenon
<1>3. \A x, y \in Nat : y < x => <<y, x>> \in R
  OBVIOUS
<1>4. \E x \in S : \A y \in S : x <= y
  <2> HIDE DEF R
  <2>1. PICK x \in S : \A y \in S : ~(<<y, x>> \in R)
    BY <1>2
  <2>2. ASSUME NEW y \in S PROVE x <= y
    <3>1. x \in Nat /\ y \in Nat /\ ~(y < x)
      BY <1>3, <2>1, Zenon
    <3> QED BY <3>1
  <2> QED BY <2>2
<1> QED BY <1>4, Zenon DEF Min

(* A non-empty bounded set of naturals has a maximum.                        *)
LEMMA MaxIsIn ==
  ASSUME NEW n \in Nat, NEW S \in SUBSET (0 .. n), S # {}
  PROVE  Max(S) \in S /\ \A x \in S : x <= Max(S)
<1> DEFINE T == {m \in 0 .. n : n - m \in S}
<1>1. T \in SUBSET Nat /\ T # {}
  <2>1. PICK x \in S : TRUE
    BY ZenonT(60)
  <2>2. n - x \in 0 .. n /\ n - (n - x) = x
    BY <2>1
  <2>3. n - x \in T
    BY <2>1, <2>2
  <2>4. T \subseteq Nat
    OBVIOUS
  <2> HIDE DEF T
  <2> QED BY <2>3, <2>4, Zenon
<1>2. PICK m \in T : \A k \in T : m <= k
  BY <1>1, MinIsIn, Zenon
<1>3. ASSUME NEW y \in S PROVE n - m >= y
  <2>1. n - y \in 0 .. n /\ n - (n - y) = y
    BY <1>3
  <2>2. n - y \in T
    BY <2>1
  <2>3. m <= n - y /\ m \in Nat /\ y \in Nat
    BY <1>2, <2>2
  <2> QED BY <2>3
<1>4. n - m \in S
  BY <1>2
<1> HIDE DEF T
<1>5. \E x \in S : \A y \in S : x >= y
  BY <1>3, <1>4, ZenonT(60)
<1>6. Max(S) \in S /\ \A y \in S : Max(S) >= y
  BY <1>5, Zenon DEF Max
<1> QED BY <1>6

(* The equation RunningHash is defined by has a solution.                    *)
Running(h, i, head, rows) ==
  IF i = 0 THEN head ELSE IF i \in rows THEN LinkHash(h[i - 1], i) ELSE h[i - 1]
RunsOver(h, n, head, rows) == h = [i \in 0 .. n |-> Running(h, i, head, rows)]

(* The equation, point by point.                                             *)
LEMMA RunsPointwise ==
  ASSUME NEW h, NEW n \in Nat, NEW head, NEW rows, RunsOver(h, n, head, rows)
  PROVE  DOMAIN h = 0 .. n /\ \A i \in 0 .. n : h[i] = Running(h, i, head, rows)
<1> DEFINE f == [i \in 0 .. n |-> Running(h, i, head, rows)]
<1>1. DOMAIN f = 0 .. n /\ \A i \in 0 .. n : f[i] = Running(h, i, head, rows)
  BY Zenon
<1>2. h = f
  BY DEF RunsOver
<1> HIDE DEF f
<1> QED BY <1>1, <1>2, Zenon

LEMMA RunsExist ==
  ASSUME NEW head, NEW rows, NEW n \in Nat
  PROVE  \E h : RunsOver(h, n, head, rows)
<1> DEFINE Bad == {m \in Nat : ~\E h : RunsOver(h, m, head, rows)}
<1>0. Bad \in SUBSET Nat /\ \A m \in Nat : m \in Bad <=> ~\E h : RunsOver(h, m, head, rows)
  BY Zenon
<1> HIDE DEF Bad
<1> SUFFICES ASSUME Bad # {} PROVE FALSE
  BY <1>0, Zenon
<1>1. PICK m \in Bad : \A x \in Bad : m <= x
  BY <1>0, MinIsIn, Zenon
<1>2. CASE m = 0
  <2> DEFINE g == [i \in 0 .. 0 |-> head]
  <2>1. g = [i \in 0 .. 0 |-> Running(g, i, head, rows)]
    BY DEF Running
  <2>2. RunsOver(g, 0, head, rows)
    BY <2>1, Zenon DEF RunsOver
  <2> QED BY <1>0, <1>1, <1>2, <2>2, Zenon
<1>3. CASE m # 0
  <2>1. m \in Nat /\ m - 1 \in Nat /\ m - 1 \notin Bad
    BY <1>0, <1>1, <1>3
  <2>2. PICK h : RunsOver(h, m - 1, head, rows)
    BY <1>0, <2>1, Zenon
  <2>3. \A i \in 0 .. (m - 1) : h[i] = Running(h, i, head, rows)
    BY <2>1, <2>2, RunsPointwise
  <2> DEFINE g == [i \in 0 .. m |-> IF i < m THEN h[i] ELSE Running(h, i, head, rows)]
  <2>4. ASSUME NEW i \in 0 .. m PROVE g[i] = Running(g, i, head, rows)
    <3>1. g[i] = Running(h, i, head, rows)
      BY <2>1, <2>3
    <3>2. i # 0 => i - 1 \in 0 .. m /\ i - 1 < m
      BY <2>1
    <3>3. i # 0 => g[i - 1] = h[i - 1]
      BY <3>2
    <3> HIDE DEF g
    <3> QED BY <3>1, <3>3, Zenon DEF Running
  <2>5. g = [i \in 0 .. m |-> Running(g, i, head, rows)]
    <3>1. DOMAIN g = 0 .. m /\ g = [i \in 0 .. m |-> g[i]]
      BY Zenon
    <3> HIDE DEF g
    <3> QED BY <2>4, <3>1, Zenon
  <2>6. RunsOver(g, m, head, rows)
    BY <2>5, Zenon DEF RunsOver
  <2> QED BY <1>0, <1>1, <2>6, Zenon
<1> QED BY <1>2, <1>3

LEMMA RunningHashRuns ==
  ASSUME MaxSeq \in Nat, NEW head, NEW rows
  PROVE  RunsOver(RunningHash(head, rows), MaxSeq, head, rows)
  BY RunsExist DEF RunningHash, RunsOver, Running

-----------------------------------------------------------------------------
(* Links that continue a hash: each one that of the link before it.          *)
Earlier(t, i) == {j \in DOMAIN t : j < i}
Prior(t, i, head) == IF Earlier(t, i) = {} THEN head ELSE t[Max(Earlier(t, i))].hash
Continues(t, head) ==
  \A i \in DOMAIN t :
    /\ t[i].prev = Prior(t, i, head) /\ t[i].prev \in Hashes
    /\ \E c \in Contents : t[i].hash = Append(t[i].prev, <<i, c>>)

(* Over rows without a link the running hash does not change.                *)
LEMMA Gap ==
  ASSUME NEW h, NEW a \in Nat, NEW b \in Nat, a <= b, \A k \in (a + 1) .. b : h[k] = h[k - 1]
  PROVE  h[b] = h[a]
<1> DEFINE Bad == {k \in a .. b : h[k] # h[a]}
<1>0. Bad \in SUBSET Nat /\ \A k \in a .. b : k \in Bad <=> h[k] # h[a]
  OBVIOUS
<1>1. Bad \subseteq a .. b
  OBVIOUS
<1> HIDE DEF Bad
<1>2. b \in a .. b
  OBVIOUS
<1> SUFFICES ASSUME Bad # {} PROVE FALSE
  BY <1>0, <1>2, Zenon
<1>3. PICK m \in Bad : \A x \in Bad : m <= x
  BY <1>0, MinIsIn, Zenon
<1>4. m \in a .. b /\ h[m] # h[a]
  BY <1>0, <1>1, <1>3, Zenon
<1>5. m # a
  BY <1>4
<1>6. m - 1 \in a .. b /\ m \in (a + 1) .. b /\ ~(m <= m - 1)
  BY <1>4, <1>5
<1>7. h[m - 1] = h[a]
  BY <1>0, <1>3, <1>6, Zenon
<1>8. h[m] = h[m - 1]
  BY <1>6, Zenon
<1> QED BY <1>4, <1>7, <1>8, Zenon

(* seal: the new links continue the head they were chained onto.             *)
LEMMA ChainContinues ==
  ASSUME MaxSeq \in Nat, content \in [Seqs -> Contents], NEW head \in Hashes,
         NEW rows \in SUBSET Seqs
  PROVE  DOMAIN Chain(head, rows) = rows /\ Continues(Chain(head, rows), head)
<1>0. \A x \in rows : x \in 0 .. MaxSeq /\ x \in Nat
  BY DEF Seqs
<1> DEFINE h == RunningHash(head, rows)
           t == Chain(head, rows)
<1>1. \A i \in 0 .. MaxSeq : h[i] = Running(h, i, head, rows)
  BY RunningHashRuns, RunsPointwise
<1>2. DOMAIN t = rows /\ \A i \in rows : t[i].prev = h[i - 1] /\ t[i].hash = h[i]
  BY DEF Chain
<1> HIDE DEF h, t
<1>3. /\ h[0] = head
      /\ \A i \in 1 .. MaxSeq : i \in rows => h[i] = LinkHash(h[i - 1], i)
      /\ \A i \in 1 .. MaxSeq : i \notin rows => h[i] = h[i - 1]
  <2>1. 0 \in 0 .. MaxSeq /\ \A i \in 1 .. MaxSeq : i \in 0 .. MaxSeq /\ i # 0
    OBVIOUS
  <2> QED BY <1>1, <2>1, Zenon DEF Running
<1>4. \A x \in Hashes, i \in Seqs : LinkHash(x, i) \in Hashes
  BY DEF LinkHash, Digest, Hashes
<1>5. \A i \in 0 .. MaxSeq : h[i] \in Hashes
  <2> DEFINE Bad == {k \in 0 .. MaxSeq : h[k] \notin Hashes}
  <2>0. Bad \in SUBSET Nat /\ \A k \in 0 .. MaxSeq : k \in Bad <=> h[k] \notin Hashes
    OBVIOUS
  <2>1. Bad \subseteq 0 .. MaxSeq
    OBVIOUS
  <2> HIDE DEF Bad
  <2> SUFFICES ASSUME Bad # {} PROVE FALSE
    BY <2>0, Zenon
  <2>2. PICK m \in Bad : \A x \in Bad : m <= x
    BY <2>0, MinIsIn, Zenon
  <2>3. m \in 0 .. MaxSeq /\ h[m] \notin Hashes
    BY <2>0, <2>1, <2>2, Zenon
  <2>4. m # 0
    BY <1>3, <2>3, Zenon
  <2>5. m - 1 \in 0 .. MaxSeq /\ m \in 1 .. MaxSeq /\ ~(m <= m - 1)
    BY <2>3, <2>4
  <2>6. h[m - 1] \in Hashes
    BY <2>0, <2>2, <2>5, Zenon
  <2> QED BY <1>3, <1>4, <2>3, <2>5, <2>6, Zenon DEF Seqs
<1>6. ASSUME NEW i \in rows PROVE h[i - 1] = Prior(t, i, head)
  <2>0. i \in 1 .. MaxSeq /\ i - 1 \in Nat
    BY DEF Seqs
  <2>1. Earlier(t, i) = {j \in rows : j < i}
    BY <1>2 DEF Earlier
  <2>2. CASE Earlier(t, i) = {}
    <3>1. \A k \in (0 + 1) .. (i - 1) : k \in 1 .. MaxSeq /\ k \notin rows
      BY <2>0, <2>1, <2>2
    <3>2. h[i - 1] = h[0]
      BY <1>3, <2>0, <3>1, Gap
    <3> QED BY <1>3, <2>2, <3>2, Zenon DEF Prior
  <2>3. CASE Earlier(t, i) # {}
    <3> DEFINE p == Max(Earlier(t, i))
    <3>1. Earlier(t, i) \in SUBSET (0 .. MaxSeq)
      BY <1>0, <2>1, Zenon
    <3>2. p \in Earlier(t, i) /\ \A x \in Earlier(t, i) : x <= p
      BY <2>3, <3>1, MaxIsIn, Zenon
    <3> HIDE DEF p
    <3>3. p \in rows /\ p \in Nat /\ p <= i - 1
      <4>1. p \in rows /\ p < i /\ p \in Nat
        BY <1>0, <2>1, <3>2, Zenon
      <4> QED BY <2>0, <4>1
    <3>4. \A k \in (p + 1) .. (i - 1) : k \in 1 .. MaxSeq /\ k \notin rows
      BY <2>0, <2>1, <3>2, <3>3
    <3>5. h[i - 1] = h[p]
      BY <1>3, <2>0, <3>3, <3>4, Gap
    <3> QED BY <1>2, <2>3, <3>3, <3>5, Zenon DEF Prior, p
  <2> QED BY <2>2, <2>3
<1>7. ASSUME NEW i \in rows
      PROVE  h[i - 1] \in Hashes /\ \E c \in Contents : h[i] = Append(h[i - 1], <<i, c>>)
  <2>1. i \in 1 .. MaxSeq /\ i - 1 \in 0 .. MaxSeq /\ content[i] \in Contents
    BY DEF Seqs
  <2> QED BY <1>3, <1>5, <2>1, Zenon DEF LinkHash, Digest
<1>8. Continues(t, head)
  BY <1>2, <1>6, <1>7, Zenon DEF Continues
<1> QED BY <1>2, <1>8 DEF t

(* Links that continue the end of a chain make one chain with it.            *)
LEMMA Joined ==
  ASSUME MaxSeq \in Nat, NEW t, NEW u, NEW w, NEW head,
         DOMAIN t \subseteq 0 .. MaxSeq, DOMAIN u \subseteq 0 .. MaxSeq,
         \A i \in DOMAIN t, j \in DOMAIN u : i < j,
         Continues(t, head), Continues(u, Prior(t, MaxSeq + 1, head)),
         DOMAIN w = DOMAIN t \cup DOMAIN u,
         \A i \in DOMAIN w : w[i] = IF i \in DOMAIN u THEN u[i] ELSE t[i]
  PROVE  Continues(w, head)
<1>0. \A i, j \in 0 .. MaxSeq : (i < j => ~(j < i)) /\ (i < j => i # j) /\ i < MaxSeq + 1
                             /\ (i <= j /\ j <= i => i = j) /\ (i < j => ~(j <= i))
  OBVIOUS
<1>1. ASSUME NEW i \in DOMAIN t
      PROVE  w[i] = t[i] /\ Prior(w, i, head) = Prior(t, i, head)
  <2>1. \A j \in DOMAIN t : j \in DOMAIN w /\ w[j] = t[j]
    BY <1>0, Zenon
  <2>2. Earlier(w, i) = Earlier(t, i)
    BY <1>0, Zenon DEF Earlier
  <2>3. CASE Earlier(t, i) = {}
    BY <2>1, <2>2, <2>3, Zenon DEF Prior
  <2>4. CASE Earlier(t, i) # {}
    <3>1. Earlier(t, i) \in SUBSET (0 .. MaxSeq)
      BY Zenon DEF Earlier
    <3>2. Max(Earlier(t, i)) \in Earlier(t, i)
      BY <2>4, <3>1, MaxIsIn, Zenon
    <3>3. Max(Earlier(t, i)) \in DOMAIN t
      BY <3>2, Zenon DEF Earlier
    <3> QED BY <2>1, <2>2, <2>4, <3>3, Zenon DEF Prior
  <2> QED BY <2>3, <2>4
<1>2. ASSUME NEW i \in DOMAIN u
      PROVE  w[i] = u[i] /\ Prior(w, i, head) = Prior(u, i, Prior(t, MaxSeq + 1, head))
  <2>1. \A j \in DOMAIN u : j \in DOMAIN w /\ w[j] = u[j]
    BY Zenon
  <2>2. \A j \in DOMAIN t : j \in DOMAIN w /\ w[j] = t[j]
    BY <1>0, Zenon
  <2>3. Earlier(t, MaxSeq + 1) = DOMAIN t
    BY <1>0, Zenon DEF Earlier
  <2>4. Earlier(w, i) = DOMAIN t \cup Earlier(u, i)
    BY Zenon DEF Earlier
  <2>5. Earlier(u, i) \in SUBSET (0 .. MaxSeq) /\ Earlier(w, i) \in SUBSET (0 .. MaxSeq)
        /\ Earlier(u, i) \subseteq DOMAIN u
    BY <2>4, Zenon DEF Earlier
  <2>6. CASE Earlier(u, i) = {}
    <3>1. Earlier(w, i) = DOMAIN t
      BY <2>4, <2>6
    <3>2. CASE DOMAIN t = {}
      BY <2>1, <2>3, <2>6, <3>1, <3>2, Zenon DEF Prior
    <3>3. CASE DOMAIN t # {}
      <4>1. Max(DOMAIN t) \in DOMAIN t
        BY <3>3, MaxIsIn, Zenon
      <4> QED BY <2>1, <2>2, <2>3, <2>6, <3>1, <3>3, <4>1, Zenon DEF Prior
    <3> QED BY <3>2, <3>3, ZenonT(60)
  <2>7. CASE Earlier(u, i) # {}
    <3> DEFINE p == Max(Earlier(u, i))
               q == Max(Earlier(w, i))
    <3>1. p \in Earlier(u, i) /\ \A x \in Earlier(u, i) : x <= p
      BY <2>5, <2>7, MaxIsIn, Zenon
    <3>2. Earlier(w, i) # {}
      BY <2>4, <2>7, Zenon
    <3>3. q \in Earlier(w, i) /\ \A x \in Earlier(w, i) : x <= q
      BY <2>5, <3>2, MaxIsIn, Zenon
    <3> HIDE DEF p, q
    <3>4. p \in 0 .. MaxSeq /\ q \in 0 .. MaxSeq /\ p <= q /\ p \in DOMAIN u
      BY <2>4, <2>5, <3>1, <3>3, Zenon
    <3>5. q \notin DOMAIN t
      BY <1>0, <3>4, Zenon
    <3>6. q = p
      BY <1>0, <2>4, <3>1, <3>3, <3>4, <3>5, Zenon
    <3> QED BY <2>1, <2>7, <3>2, <3>4, <3>6, Zenon DEF Prior, p, q
  <2> QED BY <2>6, <2>7
<1>3. \A i \in DOMAIN t : t[i].prev = Prior(t, i, head) /\ t[i].prev \in Hashes
                        /\ \E c \in Contents : t[i].hash = Append(t[i].prev, <<i, c>>)
  BY Zenon DEF Continues
<1>4. \A i \in DOMAIN u : /\ u[i].prev = Prior(u, i, Prior(t, MaxSeq + 1, head))
                        /\ u[i].prev \in Hashes
                        /\ \E c \in Contents : u[i].hash = Append(u[i].prev, <<i, c>>)
  BY Zenon DEF Continues
<1> SUFFICES ASSUME NEW i \in DOMAIN w
             PROVE  /\ w[i].prev = Prior(w, i, head) /\ w[i].prev \in Hashes
                    /\ \E c \in Contents : w[i].hash = Append(w[i].prev, <<i, c>>)
  BY Zenon DEF Continues
<1>5. CASE i \in DOMAIN t
  BY <1>1, <1>3, <1>5, Zenon
<1>6. CASE i \in DOMAIN u
  BY <1>2, <1>4, <1>6, Zenon
<1> QED BY <1>5, <1>6, Zenon

-----------------------------------------------------------------------------
(* The inductive invariant: the links are one chain; whoever seals holds the *)
(* lock alone, and what it will insert continues the head the chain has now. *)
AuditInv ==
  /\ content \in [Seqs -> Contents]
  /\ DOMAIN links \subseteq Seqs /\ Continues(links, Genesis)
  /\ DOMAIN sealer = Sealers
  /\ \A s \in Sealers : sealer[s].pc = "sealing" =>
       /\ lock = {s} /\ DOMAIN sealer[s].new \subseteq Seqs
       /\ \A i \in DOMAIN links, j \in DOMAIN sealer[s].new : i < j
       /\ Continues(sealer[s].new, Prior(links, MaxSeq + 1, Genesis))

LEMMA AuditInitial == Init => AuditInv
<1> SUFFICES ASSUME Init PROVE AuditInv
  OBVIOUS
<1>1. DOMAIN links = {}
  BY DEF Init
<1>2. Continues(links, Genesis)
  BY <1>1, Zenon DEF Continues
<1>3. \A s \in Sealers : sealer[s].pc = "idle"
  BY DEF Init, Idle
<1> QED BY <1>1, <1>2, <1>3 DEF Init, AuditInv, Contents

(* A step that leaves the links and the lock alone, and gives no sealer new  *)
(* work, keeps the invariant.                                                *)
LEMMA AuditKeeps ==
  ASSUME AuditInv, links' = links, content' \in [Seqs -> Contents], DOMAIN sealer' = Sealers,
         \A s \in Sealers : sealer'[s].pc = "sealing" => sealer'[s] = sealer[s] /\ lock' = lock
  PROVE  AuditInv'
<1>1. \A s \in Sealers : sealer'[s].pc = "sealing" =>
        /\ lock' = {s} /\ DOMAIN sealer'[s].new \subseteq Seqs
        /\ \A i \in DOMAIN links', j \in DOMAIN sealer'[s].new : i < j
        /\ Continues(sealer'[s].new, Prior(links', MaxSeq + 1, Genesis))
  BY Zenon DEF AuditInv
<1>2. Continues(links', Genesis) /\ DOMAIN links' \subseteq Seqs
  BY Zenon DEF AuditInv
<1> QED BY <1>1, <1>2, Zenon DEF AuditInv, Seqs

(* What is before the end of the table, and what the chain has come to.      *)
LEMMA HeadIsPrior ==
  ASSUME MaxSeq \in Nat, AuditInv
  PROVE  /\ \A i \in Seqs : HashBefore(i) = Prior(links, i, Genesis)
         /\ HeadHash = Prior(links, MaxSeq + 1, Genesis) /\ HeadHash \in Hashes
         /\ PastHead \subseteq Seqs
         /\ \A i \in DOMAIN links, j \in PastHead : i < j
<1>1. HeadHash = Prior(links, MaxSeq + 1, Genesis)
      /\ \A i \in Seqs : HashBefore(i) = Prior(links, i, Genesis)
  BY Zenon DEF HeadHash, HashBefore, Prior, Before, Earlier
<1>2. PastHead \subseteq Seqs
  BY Zenon DEF PastHead, Committed
<1>3. DOMAIN links \in SUBSET (0 .. MaxSeq)
  BY DEF AuditInv, Seqs
<1>4. CASE DOMAIN links = {}
  <2>1. Before(MaxSeq + 1) = {}
    BY <1>4, Zenon DEF Before
  <2>2. HeadHash = <<>>
    BY <2>1, Zenon DEF HeadHash, HashBefore, Genesis
  <2>3. HeadHash \in Hashes
    BY <2>2 DEF Hashes
  <2> QED BY <1>1, <1>2, <1>4, <2>3, Zenon
<1>5. CASE DOMAIN links # {}
  <2> DEFINE m == Max(DOMAIN links)
  <2>1. m \in DOMAIN links /\ \A i \in DOMAIN links : i <= m
    BY <1>3, <1>5, MaxIsIn, Zenon
  <2>2. HeadSeq = m
    BY <1>5, Zenon DEF HeadSeq
  <2>3. \A i \in 0 .. MaxSeq : i < MaxSeq + 1
    OBVIOUS
  <2>4. Before(MaxSeq + 1) = DOMAIN links
    BY <1>3, <2>3, Zenon DEF Before
  <2>5. HeadHash = links[m].hash
    BY <1>5, <2>4, Zenon DEF HeadHash, HashBefore
  <2> HIDE DEF m
  <2>6. links[m].prev \in Hashes /\ \E c \in Contents : links[m].hash = Append(links[m].prev, <<m, c>>)
    BY <2>1, Zenon DEF AuditInv, Continues
  <2>7. m \in Seqs
    BY <2>1 DEF AuditInv
  <2>8. HeadHash \in Hashes
    BY <2>5, <2>6, <2>7 DEF Hashes
  <2>9. \A i, j \in 0 .. MaxSeq : i <= m /\ j > m /\ m \in 0 .. MaxSeq => i < j
    OBVIOUS
  <2>10. \A j \in PastHead : j \in 0 .. MaxSeq /\ j > m
    BY <1>2, <2>2 DEF PastHead, Seqs
  <2>11. \A i \in DOMAIN links, j \in PastHead : i < j
    BY <1>3, <2>1, <2>9, <2>10, Zenon
  <2> QED BY <1>1, <1>2, <2>8, <2>11, Zenon
<1> QED BY <1>4, <1>5, ZenonT(60)

LEMMA AuditInductive ==
  ASSUME MaxSeq \in Nat
  PROVE  AuditInv /\ [Next]_vars => AuditInv'
<1> SUFFICES ASSUME AuditInv, [Next]_vars PROVE AuditInv'
  OBVIOUS
<1>0. /\ content \in [Seqs -> Contents] /\ DOMAIN links \subseteq Seqs
      /\ Continues(links, Genesis) /\ DOMAIN sealer = Sealers
  BY Zenon DEF AuditInv
<1>1. CASE Write
  BY <1>0, <1>1, AuditKeeps, Zenon DEF Write
<1>2. ASSUME NEW i \in Seqs, NEW o \in {"committed", "rolled_back"}, EndWrite(i, o)
      PROVE  AuditInv'
  BY <1>0, <1>2, AuditKeeps, Zenon DEF EndWrite
<1>3. ASSUME NEW i \in Seqs, Tamper(i)
      PROVE  AuditInv'
  <2>1. content' \in [Seqs -> Contents]
    BY <1>0, <1>3 DEF Tamper, Contents
  <2> QED BY <1>0, <1>3, <2>1, AuditKeeps, Zenon DEF Tamper
<1>4. ASSUME NEW s \in Sealers, BeginSeal(s)
      PROVE  AuditInv'
  <2> DEFINE new == Chain(HeadHash, PastHead)
  <2>1. \A r \in Sealers : sealer[r].pc # "sealing"
    BY <1>4, Zenon DEF AuditInv, BeginSeal
  <2>2. /\ HeadHash = Prior(links, MaxSeq + 1, Genesis) /\ HeadHash \in Hashes
        /\ PastHead \subseteq Seqs /\ \A i \in DOMAIN links, j \in PastHead : i < j
    BY HeadIsPrior, Zenon
  <2>3. DOMAIN new = PastHead /\ Continues(new, HeadHash)
    BY <1>0, <2>2, ChainContinues, Zenon
  <2> HIDE DEF new
  <2>4. /\ links' = links /\ content' = content /\ lock' = {s}
        /\ sealer' = [sealer EXCEPT ![s] = [pc |-> "sealing", new |-> new]]
    BY <1>4 DEF BeginSeal, new
  <2>5. DOMAIN sealer' = Sealers /\ sealer'[s] = [pc |-> "sealing", new |-> new]
    BY <1>0, <2>4
  <2>6. \A r \in Sealers : r # s => sealer'[r] = sealer[r]
    BY <1>0, <2>4
  <2>7. sealer'[s].new = new
    BY <2>5
  <2>8. \A r \in Sealers : sealer'[r].pc = "sealing" => r = s
    BY <2>1, <2>6, Zenon
  <2>9. \A r \in Sealers : sealer'[r].pc = "sealing" =>
          /\ lock' = {r} /\ DOMAIN sealer'[r].new \subseteq Seqs
          /\ \A i \in DOMAIN links', j \in DOMAIN sealer'[r].new : i < j
          /\ Continues(sealer'[r].new, Prior(links', MaxSeq + 1, Genesis))
    BY <2>2, <2>3, <2>4, <2>7, <2>8, Zenon
  <2> QED BY <1>0, <2>4, <2>5, <2>9, Zenon DEF AuditInv
<1>5. ASSUME NEW s \in Sealers, CommitSeal(s)
      PROVE  AuditInv'
  <2> DEFINE new == sealer[s].new
  <2>1. /\ lock = {s} /\ DOMAIN new \subseteq Seqs
        /\ \A i \in DOMAIN links, j \in DOMAIN new : i < j
        /\ Continues(new, Prior(links, MaxSeq + 1, Genesis))
    BY <1>5, Zenon DEF AuditInv, CommitSeal
  <2>2. /\ links' = [i \in DOMAIN links \cup DOMAIN new |->
                       IF i \in DOMAIN new THEN new[i] ELSE links[i]]
        /\ content' = content /\ sealer' = [sealer EXCEPT ![s] = [pc |-> "verify"]]
    BY <1>5, Zenon DEF CommitSeal
  <2> HIDE DEF new
  <2>3. /\ DOMAIN links' = DOMAIN links \cup DOMAIN new
        /\ \A i \in DOMAIN links' : links'[i] = IF i \in DOMAIN new THEN new[i] ELSE links[i]
    BY <2>2, Zenon
  <2>4. DOMAIN links \subseteq 0 .. MaxSeq /\ DOMAIN new \subseteq 0 .. MaxSeq
    BY <1>0, <2>1 DEF Seqs
  <2>5. Continues(links', Genesis)
    BY <1>0, <2>1, <2>3, <2>4, Joined, ZenonT(60)
  <2>6. DOMAIN sealer' = Sealers /\ sealer'[s].pc = "verify"
        /\ \A r \in Sealers : r # s => sealer'[r] = sealer[r]
    BY <1>0, <2>2
  <2>7. \A r \in Sealers : sealer[r].pc = "sealing" => r = s
    BY <2>1, Zenon DEF AuditInv
  <2>8. \A r \in Sealers : sealer'[r].pc # "sealing"
    <3>1. "verify" # "sealing"
      OBVIOUS
    <3> QED BY <2>6, <2>7, <3>1, Zenon
  <2>9. DOMAIN links' \subseteq Seqs
    BY <1>0, <2>1, <2>3, Zenon
  <2> QED BY <1>0, <2>2, <2>5, <2>6, <2>8, <2>9, Zenon DEF AuditInv
<1>6. ASSUME NEW s \in Sealers, VerifyChain(s)
      PROVE  AuditInv'
  <2>1. /\ DOMAIN sealer' = Sealers /\ sealer'[s].pc # "sealing"
        /\ \A r \in Sealers : r # s => sealer'[r] = sealer[r]
    BY <1>0, <1>6 DEF VerifyChain, Idle
  <2>2. links' = links /\ content' = content /\ lock' = lock
    BY <1>6 DEF VerifyChain
  <2> QED BY <1>0, <2>1, <2>2, AuditKeeps, Zenon
<1>7. ASSUME NEW s \in Sealers, Alert(s)
      PROVE  AuditInv'
  <2>1. /\ DOMAIN sealer' = Sealers /\ sealer'[s].pc # "sealing"
        /\ \A r \in Sealers : r # s => sealer'[r] = sealer[r]
    BY <1>0, <1>7 DEF Alert, Idle
  <2>2. links' = links /\ content' = content /\ lock' = lock
    BY <1>7 DEF Alert
  <2> QED BY <1>0, <2>1, <2>2, AuditKeeps, Zenon
<1>8. ASSUME NEW s \in Sealers, Abort(s)
      PROVE  AuditInv'
  <2>1. /\ DOMAIN sealer' = Sealers /\ sealer'[s].pc # "sealing"
        /\ \A r \in Sealers : r # s => sealer'[r] = sealer[r]
    BY <1>0, <1>8 DEF Abort, Idle
  <2>2. links' = links /\ content' = content /\ lock' = lock \ {s}
    BY <1>8 DEF Abort
  <2>3. \A r \in Sealers : sealer'[r].pc = "sealing" => sealer'[r] = sealer[r] /\ lock' = lock
    <3>1. \A r \in Sealers : r # s /\ lock = {r} => lock' = lock
      BY <2>2
    <3> QED BY <2>1, <3>1, Zenon DEF AuditInv
  <2> QED BY <1>0, <2>1, <2>2, <2>3, AuditKeeps, Zenon
<1>9. CASE UNCHANGED vars
  <2>1. links' = links /\ content' = content /\ lock' = lock /\ sealer' = sealer
    BY <1>9 DEF vars
  <2> QED BY <1>0, <2>1, AuditKeeps, Zenon
<1> QED BY <1>1, <1>2, <1>3, <1>4, <1>5, <1>6, <1>7, <1>8, <1>9, Zenon DEF Next

(* The invariant gives the chain, and a changed row is a bad link.           *)
LEMMA AuditSafe ==
  ASSUME MaxSeq \in Nat, AuditInv
  PROVE  ChainIsLinked /\ ChangeIsFound
<1>0. content \in [Seqs -> Contents] /\ DOMAIN links \subseteq Seqs
  BY Zenon DEF AuditInv
<1>1. ChainIsLinked
  <2>1. \A i \in Seqs : HashBefore(i) = Prior(links, i, Genesis)
    BY HeadIsPrior, Zenon
  <2> QED BY <1>0, <2>1, Zenon DEF AuditInv, Continues, ChainIsLinked
<1>2. ASSUME NEW i \in DOMAIN links, Touched(i),
             links[i].hash = Append(links[i].prev, <<i, "written">>)
      PROVE  FirstBad # 0
  <2> DEFINE bad == {j \in DOMAIN links : BadLink(j)}
  <2>1. links[i].prev = HashBefore(i) /\ links[i].prev \in Hashes
    BY <1>1, Zenon DEF ChainIsLinked, AuditInv, Continues
  <2>2. ASSUME row[i] = "removed" PROVE BadLink(i)
    <3>1. row[i] # "committed"
      BY <2>2
    <3> QED BY <3>1, Zenon DEF BadLink
  <2>3. ASSUME content[i] = "altered" PROVE BadLink(i)
    <3>1. \A q \in Hashes : Append(q, <<i, "altered">>) # Append(q, <<i, "written">>)
      <4> SUFFICES ASSUME NEW q \in Hashes
                   PROVE  Append(q, <<i, "altered">>) # Append(q, <<i, "written">>)
        OBVIOUS
      <4>1. Len(q) \in Nat /\ q \in Seq(Seqs \X Contents)
        BY DEF Hashes
      <4>2. Append(q, <<i, "altered">>)[Len(q) + 1] = <<i, "altered">>
        BY <4>1
      <4>3. Append(q, <<i, "written">>)[Len(q) + 1] = <<i, "written">>
        BY <4>1
      <4>4. <<i, "altered">> # <<i, "written">>
        OBVIOUS
      <4> QED BY <4>2, <4>3, <4>4, Zenon
    <3>2. LinkHash(HashBefore(i), i) # links[i].hash
      BY <1>2, <2>1, <2>3, <3>1, Zenon DEF LinkHash, Digest
    <3> QED BY <3>2, Zenon DEF BadLink
  <2>4. i \in bad
    BY <1>2, <2>2, <2>3, Zenon DEF Touched
  <2>5. bad \in SUBSET Nat /\ 0 \notin bad
    BY <1>0 DEF Seqs
  <2>6. Min(bad) \in bad
    <3> HIDE DEF bad
    <3> QED BY <2>4, <2>5, MinIsIn, Zenon
  <2>7. FirstBad = Min(bad)
    BY <2>4, Zenon DEF FirstBad
  <2> HIDE DEF bad
  <2> QED BY <2>5, <2>6, <2>7, Zenon
<1> QED BY <1>1, <1>2, Zenon DEF ChangeIsFound

(* However the sealers interleave, whatever rolls back between them and      *)
(* however often the lease moves in mid-tick, the links form one chain, and  *)
(* a row changed behind the application after its seal fails verification.   *)
THEOREM ChainStaysSound == Spec => []ChainIsSound
<1>1. Init => AuditInv
  BY AuditInitial, AuditAssumption
<1>2. AuditInv /\ [Next]_vars => AuditInv'
  BY AuditInductive, AuditAssumption
<1>3. AuditInv => ChainIsSound
  BY AuditSafe, AuditAssumption DEF ChainIsSound
<1> QED BY <1>1, <1>2, <1>3, PTL DEF Spec
=============================================================================
