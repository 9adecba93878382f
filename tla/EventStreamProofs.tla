------------------------- MODULE EventStreamProofs --------------------------
(***************************************************************************)
(* What a stream client is given, for any number of writers, clients, gaps *)
(* and broken connections and any batch size: every event_seq at most once *)
(* and in order, and all of them but those that committed late.            *)
(***************************************************************************)
EXTENDS EventStream, SequenceTheorems, WellFoundedInduction, TLAPS

-----------------------------------------------------------------------------
(* The parts of the invariant that speak of one client, over the values of   *)
(* its variables: got, wire, lastSeq, last and conn. What has arrived lies   *)
(* at or below the client's cursor, what is under way between that and the   *)
(* cursor of the feed, each in order.                                        *)
Ordered(g, w, ls, l, k) ==
  /\ \A i \in 1..Len(g) : g[i] <= ls
  /\ \A i, j \in 1..Len(g) : i < j => g[i] < g[j]
  /\ \A i \in 1..Len(w) : w[i].kind = "event" => ls < w[i].seq /\ w[i].seq <= l
  /\ \A i, j \in 1..Len(w) :
       i < j /\ w[i].kind = "event" /\ w[j].kind = "event" => w[i].seq < w[j].seq
  /\ k = "off" => w = <<>>
  /\ k # "off" => ls <= l

(* Cursors and frames only ever name committed events.                       *)
Known(w, ls, l, V) ==
  /\ ls \in V \cup {0} /\ l \in V \cup {0}
  /\ \A i \in 1..Len(w) : w[i].kind = "event" => w[i].seq \in V

(* An event is with the client, under way, or ahead of the cursor.           *)
Covered(g, w, x, n) ==
  \/ x \in Range(g)
  \/ \E i \in 1..Len(w) : w[i] = [kind |-> "event", seq |-> x]
  \/ x > n

(* The numbers of two transactions differ, and the counter is ahead of all.  *)
Numbered ==
  /\ nextSeq > 0
  /\ \A t \in Txns : txn[t] # "new" => seq[t] > 0 /\ seq[t] < nextSeq
  /\ \A t, u \in Txns : txn[t] # "new" /\ txn[u] # "new" /\ seq[t] = seq[u] => t = u

Cursor(c) == IF conn[c] = "off" THEN lastSeq[c] ELSE last[c]

SInv ==
  /\ TypeOK /\ Numbered
  /\ \A c \in Clients : Ordered(got[c], wire[c], lastSeq[c], last[c], conn[c])
  /\ \A c \in Clients : Known(wire[c], lastSeq[c], last[c], Visible)
  /\ \A c \in Clients, t \in Committed \ late :
       conn[c] = "head" => seq[t] <= last[c]
  /\ \A c \in Clients, t \in Committed \ late : Covered(got[c], wire[c], seq[t], Cursor(c))

-----------------------------------------------------------------------------
(* Frames, lists and their concatenation.                                    *)
LEMMA FramesAreEvents ==
  ASSUME NEW n \in Nat, NEW rows \in [1..n -> Nat]
  PROVE  /\ EventFrames(rows) \in Seq(Frame) /\ Len(EventFrames(rows)) = n
         /\ \A i \in 1..n : /\ EventFrames(rows)[i] = [kind |-> "event", seq |-> rows[i]]
                            /\ EventFrames(rows)[i].kind = "event"
                            /\ EventFrames(rows)[i].seq = rows[i]
<1>1. \A i \in 1..n : [kind |-> "event", seq |-> rows[i]] \in Frame
  BY DEF Frame
<1>2. EventFrames(rows) \in [1..n -> Frame]
  BY <1>1 DEF EventFrames
<1>3. EventFrames(rows) \in Seq(Frame) /\ Len(EventFrames(rows)) = n
  BY <1>2, IsASeq, LenProperties
<1> QED BY <1>3 DEF EventFrames

(* One list behind another.                                                  *)
LEMMA Concatenated ==
  ASSUME NEW w \in Seq(Frame), NEW e \in Seq(Frame)
  PROVE  /\ w \o e \in Seq(Frame)
         /\ \A i \in 1..Len(w) : i \in 1..Len(w \o e) /\ (w \o e)[i] = w[i]
         /\ \A i \in 1..Len(e) : Len(w) + i \in 1..Len(w \o e) /\ (w \o e)[Len(w) + i] = e[i]
         /\ \A i \in 1..Len(w \o e) : i \in 1..Len(w) \/ \E j \in 1..Len(e) : i = Len(w) + j
<1> DEFINE v == w \o e
           m == Len(w)
           n == Len(e)
<1>1. m \in Nat /\ n \in Nat
  BY LenProperties
<1>2. /\ v \in Seq(Frame) /\ Len(v) = m + n
      /\ \A i \in 1..(m + n) : v[i] = IF i <= m THEN w[i] ELSE e[i - m]
  BY ConcatProperties
<1> HIDE DEF v, m, n
<1>3. \A i \in 1..m : i \in 1..(m + n) /\ i <= m
  BY <1>1
<1>4. \A i \in 1..n : m + i \in 1..(m + n) /\ ~(m + i <= m) /\ (m + i) - m = i
  BY <1>1
<1>5. \A i \in 1..(m + n) : i \in 1..m \/ (i - m \in 1..n /\ i = m + (i - m))
  BY <1>1
<1>6. /\ v \in Seq(Frame)
      /\ \A i \in 1..m : i \in 1..Len(v) /\ v[i] = w[i]
      /\ \A i \in 1..n : m + i \in 1..Len(v) /\ v[m + i] = e[i]
      /\ \A i \in 1..Len(v) : i \in 1..m \/ \E j \in 1..n : i = m + j
  BY <1>2, <1>3, <1>4, <1>5
<1> QED BY <1>6, Zenon DEF v, m, n

(* The larger of two numbers.                                                *)
LEMMA MaxOfTwo ==
  ASSUME NEW m \in Nat, NEW n \in Nat
  PROVE  /\ Max({m, n}) \in {m, n} /\ Max({m, n}) >= m /\ Max({m, n}) >= n
         /\ m < n => Max({m, n}) = n
<1>1. \E x \in {m, n} : \A y \in {m, n} : x >= y
  <2>1. CASE m >= n
    BY <2>1
  <2>2. CASE n >= m
    BY <2>2
  <2> QED BY <2>1, <2>2
<1>2. Max({m, n}) \in {m, n} /\ \A y \in {m, n} : Max({m, n}) >= y
  BY <1>1, Zenon DEF Max
<1> QED BY <1>2

(* A number that another one separates from a third.                         *)
LEMMA Between == \A a, b, c \in Nat : a <= b /\ c > b => a < c /\ a <= c
  OBVIOUS

(* The feed sends a batch: rows above its cursor, in order.                  *)
LEMMA SendKeeps ==
  ASSUME NEW g \in Seq(Nat), NEW w \in Seq(Frame), NEW ls \in Nat, NEW l \in Nat, NEW k,
         k # "off", Ordered(g, w, ls, l, k),
         NEW n \in Nat \ {0}, NEW rows \in [1..n -> Nat],
         \A i \in 1..n : rows[i] > l,
         \A i, j \in 1..n : i < j => rows[i] < rows[j]
  PROVE  Ordered(g, w \o EventFrames(rows), ls, rows[n], k)
<1> DEFINE e == EventFrames(rows)
           v == w \o e
           m == Len(w)
<1>1. /\ e \in Seq(Frame) /\ Len(e) = n /\ m \in Nat
      /\ \A i \in 1..n : e[i].kind = "event" /\ e[i].seq = rows[i]
  <2>1. Len(w) \in Nat
    BY LenProperties
  <2>2. n \in Nat
    OBVIOUS
  <2>3. /\ e \in Seq(Frame) /\ Len(e) = n
        /\ \A i \in 1..n : e[i].kind = "event" /\ e[i].seq = rows[i]
    BY <2>2, FramesAreEvents, Zenon
  <2> QED BY <2>1, <2>3, Zenon
<1> HIDE DEF e
<1>2. /\ v \in Seq(Frame) /\ Len(v) = m + n
      /\ \A i \in 1..(m + n) : v[i] = IF i <= m THEN w[i] ELSE e[i - m]
  BY <1>1, ConcatProperties, ZenonT(60)
<1> HIDE DEF v, m
<1>3. \A i \in 1..m : v[i] = w[i] /\ i \in 1..Len(w)
  <2>1. m = Len(w)
    BY DEF m
  <2>2. \A i \in 1..m : i \in 1..(m + n) /\ i <= m
    BY <1>1
  <2> QED BY <1>2, <2>1, <2>2, SMTT(60)
<1>4. ASSUME NEW i \in 1..(m + n), ~(i <= m)
      PROVE  i - m \in 1..n /\ v[i].kind = "event" /\ v[i].seq = rows[i - m]
  <2>1. i - m \in 1..n
    BY <1>1, <1>4
  <2> QED BY <1>1, <1>2, <1>4, <2>1, SMTT(60)
<1>5. \A i \in 1..n : rows[i] <= rows[n] /\ rows[i] \in Nat
  BY <1>1
<1>6. n \in 1..n /\ rows[n] > l
  OBVIOUS
<1>7. ASSUME NEW i \in 1..Len(v), v[i].kind = "event"
      PROVE  ls < v[i].seq /\ v[i].seq <= rows[n]
  <2>1. CASE i <= m
    <3>1. i \in 1..m
      BY <1>1, <1>2, <2>1
    <3>2. ls < w[i].seq /\ w[i].seq <= l /\ w[i] \in Frame
      BY <1>3, <1>7, <3>1 DEF Ordered
    <3>3. w[i].seq \in Nat
      BY <3>2 DEF Frame
    <3>4. l \in Nat /\ rows[n] \in Nat /\ v[i] = w[i]
      BY <1>3, <1>5, <1>6, <3>1
    <3> QED BY <1>6, <3>2, <3>3, <3>4, Between, Zenon
  <2>2. CASE ~(i <= m)
    <3>1. i - m \in 1..n /\ v[i].seq = rows[i - m]
      BY <1>2, <1>4, <2>2
    <3>2. rows[i - m] > l /\ rows[i - m] <= rows[n] /\ rows[i - m] \in Nat /\ ls <= l
      BY <1>5, <3>1 DEF Ordered
    <3> QED BY <3>1, <3>2
  <2> QED BY <2>1, <2>2
<1>8. ASSUME NEW i \in 1..Len(v), NEW j \in 1..Len(v), i < j,
             v[i].kind = "event", v[j].kind = "event"
      PROVE  v[i].seq < v[j].seq
  <2>1. CASE j <= m
    <3>1. i \in 1..m /\ j \in 1..m
      BY <1>1, <1>2, <1>8, <2>1
    <3> QED BY <1>3, <1>8, <3>1, Zenon DEF Ordered
  <2>2. CASE i <= m /\ ~(j <= m)
    <3>1. i \in 1..m
      BY <1>1, <1>2, <2>2
    <3>2. w[i].seq <= l /\ w[i] \in Frame /\ v[i] = w[i]
      BY <1>3, <1>8, <3>1, SMTT(60) DEF Ordered
    <3>3. j - m \in 1..n /\ v[j].seq = rows[j - m] /\ rows[j - m] > l
      BY <1>2, <1>4, <2>2, Zenon
    <3>4. w[i].seq \in Nat /\ rows[j - m] \in Nat
      BY <1>5, <3>2, <3>3, SMTT(60) DEF Frame
    <3> QED BY <3>2, <3>3, <3>4, Between, Zenon
  <2>3. CASE ~(i <= m)
    <3>1. ~(j <= m)
      BY <1>1, <1>2, <1>8, <2>3
    <3>2. i - m \in 1..n /\ v[i].seq = rows[i - m] /\ j - m \in 1..n /\ v[j].seq = rows[j - m]
      BY <1>2, <1>4, <2>3, <3>1
    <3>3. i - m < j - m
      BY <1>1, <1>8
    <3> QED BY <3>2, <3>3, SMTT(60)
  <2> QED BY <2>1, <2>2, <2>3
<1>9. ls <= rows[n]
  BY <1>5, <1>6 DEF Ordered
<1> QED BY <1>7, <1>8, <1>9, Zenon DEF Ordered, v, e

(* What is left on the wire behind the first frame.                          *)
LEMMA Rest ==
  ASSUME NEW S, NEW w \in Seq(S), w # <<>>
  PROVE  /\ w[1] \in S /\ 1 \in 1..Len(w) /\ Len(w) \in Nat
         /\ Tail(w) \in Seq(S) /\ Len(Tail(w)) = Len(w) - 1
         /\ \A i \in 1..Len(Tail(w)) : i + 1 \in 1..Len(w) /\ i + 1 > 1 /\ Tail(w)[i] = w[i + 1]
<1>1. Len(w) \in Nat /\ Len(w) # 0
  BY LenProperties, EmptySeq
<1>2. 1 \in 1..Len(w)
  BY <1>1
<1>3. Tail(w) \in Seq(S) /\ Len(Tail(w)) = Len(w) - 1
  BY HeadTailProperties
<1>4. \A i \in 1..Len(Tail(w)) : i + 1 \in 1..Len(w) /\ i + 1 > 1
  BY <1>1, <1>3
<1>5. \A i \in 1..Len(Tail(w)) : Tail(w)[i] = w[i + 1]
  BY <1>1, <1>3, HeadTailProperties
<1>6. w[1] \in S
  BY <1>2, ElementOfSeq
<1> QED BY <1>1, <1>2, <1>3, <1>4, <1>5, <1>6

(* The client takes an event from the wire,                                  *)
LEMMA EventKeeps ==
  ASSUME NEW g \in Seq(Nat), NEW w \in Seq(Frame), NEW ls \in Nat, NEW l \in Nat, NEW k,
         Ordered(g, w, ls, l, k), w # <<>>, w[1].kind = "event"
  PROVE  Ordered(Append(g, w[1].seq), Tail(w), w[1].seq, l, k)
<1> DEFINE x == w[1].seq
           h == Append(g, x)
<1>1. x \in Nat /\ ls < x /\ x <= l /\ k # "off"
  <2>1. w[1] \in Frame /\ 1 \in 1..Len(w)
    BY Rest
  <2> QED BY <2>1 DEF Frame, Ordered
<1>2. /\ Len(g) \in Nat /\ Len(h) = Len(g) + 1 /\ h[Len(g) + 1] = x
      /\ \A i \in 1..Len(g) : h[i] = g[i]
  BY <1>1, AppendProperties, LenProperties
<1>3. \A i \in 1..Len(h) : i \in 1..Len(g) \/ i = Len(g) + 1
  BY <1>2
<1>4. \A i \in 1..Len(g) : g[i] \in Nat
  BY ElementOfSeq
<1> HIDE DEF h
<1>5. ASSUME NEW i \in 1..Len(h) PROVE h[i] <= x
  <2>1. CASE i \in 1..Len(g)
    <3>1. h[i] = g[i] /\ g[i] <= ls /\ g[i] \in Nat
      BY <1>2, <1>4, <2>1 DEF Ordered
    <3> QED BY <1>1, <3>1, SMTT(60)
  <2>2. CASE i = Len(g) + 1
    BY <1>1, <1>2, <2>2
  <2> QED BY <1>3, <2>1, <2>2
<1>6. ASSUME NEW i \in 1..Len(h), NEW j \in 1..Len(h), i < j PROVE h[i] < h[j]
  <2>1. i \in 1..Len(g)
    BY <1>2, <1>3, <1>6
  <2>2. h[i] = g[i] /\ g[i] <= ls /\ g[i] \in Nat
    BY <1>2, <1>4, <2>1 DEF Ordered
  <2>3. CASE j \in 1..Len(g)
    BY <1>2, <1>6, <2>1, <2>3 DEF Ordered
  <2>4. CASE j = Len(g) + 1
    BY <1>1, <1>2, <2>2, <2>4, SMTT(60)
  <2> QED BY <1>3, <2>3, <2>4
<1>7. \A i \in 1..Len(Tail(w)) : i + 1 \in 1..Len(w) /\ i + 1 > 1 /\ Tail(w)[i] = w[i + 1]
  BY Rest
<1>8. ASSUME NEW i \in 1..Len(Tail(w)), Tail(w)[i].kind = "event"
      PROVE  x < Tail(w)[i].seq /\ Tail(w)[i].seq <= l
  <2>1. 1 \in 1..Len(w) /\ i + 1 \in 1..Len(w) /\ 1 < i + 1 /\ Tail(w)[i] = w[i + 1]
    BY <1>7, Rest
  <2> QED BY <1>8, <2>1 DEF Ordered
<1>9. ASSUME NEW i \in 1..Len(Tail(w)), NEW j \in 1..Len(Tail(w)), i < j,
             Tail(w)[i].kind = "event", Tail(w)[j].kind = "event"
      PROVE  Tail(w)[i].seq < Tail(w)[j].seq
  <2>1. i + 1 < j + 1
    BY <1>9
  <2> QED BY <1>7, <1>9, <2>1 DEF Ordered
<1> QED BY <1>1, <1>5, <1>6, <1>8, <1>9, Zenon DEF Ordered, h

(* or a caught_up, which moves no cursor.                                    *)
LEMMA StatusKeeps ==
  ASSUME NEW g \in Seq(Nat), NEW w \in Seq(Frame), NEW ls \in Nat, NEW l \in Nat, NEW k,
         Ordered(g, w, ls, l, k), w # <<>>
  PROVE  Ordered(g, Tail(w), ls, l, k)
<1>1. \A i \in 1..Len(Tail(w)) : i + 1 \in 1..Len(w) /\ Tail(w)[i] = w[i + 1]
  BY Rest
<1>2. ASSUME NEW i \in 1..Len(Tail(w)), Tail(w)[i].kind = "event"
      PROVE  ls < Tail(w)[i].seq /\ Tail(w)[i].seq <= l
  BY <1>1, <1>2 DEF Ordered
<1>3. ASSUME NEW i \in 1..Len(Tail(w)), NEW j \in 1..Len(Tail(w)), i < j,
             Tail(w)[i].kind = "event", Tail(w)[j].kind = "event"
      PROVE  Tail(w)[i].seq < Tail(w)[j].seq
  <2>1. i + 1 < j + 1
    BY <1>3
  <2> QED BY <1>1, <1>3, <2>1, Zenon DEF Ordered
<1> QED BY <1>2, <1>3 DEF Ordered

(* The feed catches up: its cursor moves on and a caught_up is sent.         *)
LEMMA CatchUpKeeps ==
  ASSUME NEW g \in Seq(Nat), NEW w \in Seq(Frame), NEW ls \in Nat, NEW l \in Nat, NEW k,
         k # "off", Ordered(g, w, ls, l, k), NEW m \in Nat, m >= l, NEW f \in Frame, f.kind # "event"
  PROVE  Ordered(g, Append(w, f), ls, m, "wait")
<1> DEFINE v == Append(w, f)
<1>1. /\ Len(w) \in Nat /\ Len(v) = Len(w) + 1 /\ v[Len(w) + 1] = f
      /\ \A i \in 1..Len(w) : v[i] = w[i]
  BY AppendProperties, LenProperties
<1> HIDE DEF v
<1>2. \A i \in 1..Len(v) : v[i].kind = "event" => i \in 1..Len(w) /\ v[i] = w[i]
  <2>1. \A i \in 1..Len(v) : i \in 1..Len(w) \/ i = Len(w) + 1
    BY <1>1
  <2> QED BY <1>1, <2>1
<1>3. \A i \in 1..Len(w) : w[i] \in Frame
  BY ElementOfSeq
<1>4. ASSUME NEW i \in 1..Len(v), v[i].kind = "event" PROVE ls < v[i].seq /\ v[i].seq <= m
  <2>1. ls < w[i].seq /\ w[i].seq <= l /\ v[i] = w[i] /\ w[i] \in Frame
    BY <1>2, <1>3, <1>4 DEF Ordered
  <2>2. w[i].seq \in Nat
    BY <2>1 DEF Frame
  <2> QED BY <2>1, <2>2, SMTT(60)
<1>5. ASSUME NEW i \in 1..Len(v), NEW j \in 1..Len(v), i < j,
             v[i].kind = "event", v[j].kind = "event"
      PROVE  v[i].seq < v[j].seq
  BY <1>2, <1>5, Zenon DEF Ordered
<1>6. ls <= m
  BY DEF Ordered
<1> QED BY <1>4, <1>5, <1>6, Zenon DEF Ordered, v

-----------------------------------------------------------------------------
(* A bounded set of numbers has a largest one.                               *)
LEMMA MaxIsIn ==
  ASSUME NEW S \in SUBSET Nat, S # {}, NEW n \in Nat, \A x \in S : x <= n
  PROVE  Max(S) \in S
<1> DEFINE R == {p \in Nat \X Nat : p[1] < p[2]}
           D == {n - x : x \in S}
<1>1. IsWellFoundedOn(R, Nat)
  BY NatLessThanWellFounded, Zenon DEF OpToRel
<1>2. D \in SUBSET Nat /\ D # {}
  <2>1. \A x \in S : n - x \in Nat
    OBVIOUS
  <2>2. D \subseteq Nat
    BY <2>1, Zenon
  <2>3. D # {}
    BY Zenon
  <2> QED BY <2>2, <2>3, Zenon
<1>3. \E z \in D : \A y \in D : ~(<<y, z>> \in R)
  <2> HIDE DEF R, D
  <2> QED BY <1>1, <1>2, WFMin, Zenon
<1>4. PICK x \in S : \A y \in S : ~(<<n - y, n - x>> \in R)
  <2>1. PICK z \in D : \A y \in D : ~(<<y, z>> \in R)
    BY <1>3
  <2>2. PICK x \in S : z = n - x
    BY <2>1
  <2> HIDE DEF R
  <2> QED BY <2>1, <2>2
<1>5. ASSUME NEW y \in S PROVE x >= y
  <2>1. n - y \in Nat /\ n - x \in Nat
    OBVIOUS
  <2>2. ~(n - y < n - x)
    BY <1>4, <2>1, Zenon
  <2> QED BY <2>2
<1> HIDE DEF R, D
<1> QED BY <1>5, Zenon DEF Max

(* head_seq is the number of a committed event, or 0.                        *)
LEMMA HeadIsVisible ==
  ASSUME TypeOK, Numbered
  PROVE  HeadSeq \in Visible \cup {0} /\ HeadSeq \in Nat /\ Visible \subseteq Nat
<1> DEFINE S == Visible \cup {0}
<1>1. Visible \subseteq Nat
  BY DEF Visible, Committed, TypeOK
<1>2. \A x \in S : x <= nextSeq
  <2>1. ASSUME NEW t \in Committed PROVE seq[t] <= nextSeq
    <3>1. t \in Txns /\ txn[t] # "new"
      BY DEF Committed
    <3>2. seq[t] < nextSeq /\ seq[t] \in Nat /\ nextSeq \in Nat
      BY <3>1 DEF Numbered, TypeOK
    <3> QED BY <3>2
  <2>2. \A x \in Visible : x <= nextSeq
    BY <2>1 DEF Visible
  <2> QED BY <2>2 DEF TypeOK
<1>3. S \in SUBSET Nat /\ S # {} /\ nextSeq \in Nat
  BY <1>1 DEF TypeOK
<1> HIDE DEF S
<1>4. Max(S) \in S
  BY <1>2, <1>3, MaxIsIn, Zenon
<1>5. HeadSeq \in S
  BY <1>4, Zenon DEF HeadSeq, S
<1>6. S \subseteq Nat /\ S = Visible \cup {0}
  BY <1>3, Zenon DEF S
<1> QED BY <1>1, <1>5, <1>6

(* A step of client c, as far as the invariant has to look at it.            *)
LEMMA ReaderStep ==
  ASSUME SInv, UNCHANGED writers, TypeOK', NEW c \in Clients,
         \A d \in Clients \ {c} :
           /\ got'[d] = got[d] /\ wire'[d] = wire[d] /\ lastSeq'[d] = lastSeq[d]
           /\ last'[d] = last[d] /\ conn'[d] = conn[d],
         Ordered(got'[c], wire'[c], lastSeq'[c], last'[c], conn'[c]),
         Known(wire'[c], lastSeq'[c], last'[c], Visible),
         \A t \in Committed \ late : conn'[c] = "head" => seq[t] <= last'[c],
         \A t \in Committed \ late : Covered(got'[c], wire'[c], seq[t], Cursor(c)')
  PROVE  SInv'
<1>1. Visible' = Visible /\ Committed' = Committed /\ late' = late /\ seq' = seq
  BY SMTT(60) DEF writers, Visible, Committed
<1>2. Numbered'
  BY DEF SInv, Numbered, writers
<1>3. \A d \in Clients : Ordered(got'[d], wire'[d], lastSeq'[d], last'[d], conn'[d])
  BY Zenon DEF SInv
<1>4. \A d \in Clients : Known(wire'[d], lastSeq'[d], last'[d], Visible')
  BY <1>1, Zenon DEF SInv
<1>5. ASSUME NEW d \in Clients, NEW t \in Committed' \ late'
      PROVE  conn'[d] = "head" => seq'[t] <= last'[d]
  BY <1>1, Zenon DEF SInv
<1>6. ASSUME NEW d \in Clients, NEW t \in Committed' \ late'
      PROVE  Covered(got'[d], wire'[d], seq'[t], Cursor(d)')
  <2>1. CASE d = c
    BY <1>1, <2>1, Zenon
  <2>2. CASE d # c
    <3>1. Cursor(d)' = Cursor(d)
      BY <2>2, Zenon DEF Cursor
    <3> QED BY <1>1, <2>2, <3>1, Zenon DEF SInv
  <2> QED BY <2>1, <2>2
<1> QED BY <1>2, <1>3, <1>4, <1>5, <1>6, Zenon DEF SInv

-----------------------------------------------------------------------------
(* A connect resumes at the client's cursor.                                 *)
LEMMA ConnectStep ==
  ASSUME SInv, NEW c \in Clients, Connect(c)
  PROVE  SInv'
<1> USE DEF readers
<1>1. TypeOK'
  BY DEF Connect, SInv, TypeOK, writers
<1>2. /\ got' = got /\ wire' = wire /\ lastSeq' = lastSeq /\ UNCHANGED writers
      /\ conn[c] = "off" /\ conn'[c] = "read" /\ last'[c] = lastSeq[c] /\ lastSeq[c] \in Nat
      /\ \A d \in Clients \ {c} : last'[d] = last[d] /\ conn'[d] = conn[d]
  BY Zenon DEF Connect, SInv, TypeOK
<1>3. Ordered(got[c], wire[c], lastSeq[c], last[c], "off") /\ wire[c] = <<>>
  BY <1>2, Zenon DEF SInv, Ordered
<1>4. Ordered(got[c], wire[c], lastSeq[c], lastSeq[c], "read")
  BY <1>2, <1>3, SMTT(60) DEF Ordered
<1>5. Known(wire[c], lastSeq[c], lastSeq[c], Visible)
  BY DEF SInv, Known
<1>6. Cursor(c) = lastSeq[c] /\ Cursor(c)' = lastSeq[c]
  BY <1>2, Zenon DEF Cursor
<1>7. \A t \in Committed \ late : Covered(got[c], wire[c], seq[t], lastSeq[c])
  BY <1>6, Zenon DEF SInv
<1> QED BY <1>1, <1>2, <1>4, <1>5, <1>6, <1>7, ReaderStep, Zenon

(* A broken connection loses what was under way; the client's cursor is      *)
(* behind all of it.                                                         *)
LEMMA DropStep ==
  ASSUME SInv, NEW c \in Clients, Drop(c)
  PROVE  SInv'
<1>1. TypeOK'
  BY DEF Drop, SInv, TypeOK, writers
<1>2. /\ got' = got /\ last' = last /\ lastSeq' = lastSeq /\ UNCHANGED writers
      /\ conn[c] # "off" /\ conn'[c] = "off" /\ wire'[c] = <<>>
      /\ \A d \in Clients \ {c} : wire'[d] = wire[d] /\ conn'[d] = conn[d]
  BY SMTT(60) DEF Drop, SInv, TypeOK
<1>3. Ordered(got[c], <<>>, lastSeq[c], last[c], "off")
  BY SMTT(60) DEF SInv, Ordered
<1>4. Known(<<>>, lastSeq[c], last[c], Visible)
  BY DEF SInv, Known
<1>5. Cursor(c) = last[c] /\ Cursor(c)' = lastSeq[c]
  BY <1>2 DEF Cursor
<1>6. ASSUME NEW t \in Committed \ late PROVE Covered(got[c], <<>>, seq[t], lastSeq[c])
  <2>1. Covered(got[c], wire[c], seq[t], last[c])
    BY <1>5 DEF SInv
  <2>2. Ordered(got[c], wire[c], lastSeq[c], last[c], conn[c])
    BY DEF SInv
  <2>3. seq[t] \in Nat /\ last[c] \in Nat /\ lastSeq[c] \in Nat
    BY DEF SInv, TypeOK, Committed
  <2>4. ASSUME NEW i \in 1..Len(wire[c]), wire[c][i] = [kind |-> "event", seq |-> seq[t]]
        PROVE  seq[t] > lastSeq[c]
    <3>1. wire[c][i].kind = "event" /\ wire[c][i].seq = seq[t]
      BY <2>4
    <3> QED BY <2>2, <2>3, <3>1 DEF Ordered
  <2>5. seq[t] > last[c] => seq[t] > lastSeq[c]
    BY <1>2, <2>2, <2>3 DEF Ordered
  <2> QED BY <2>1, <2>4, <2>5, Zenon DEF Covered
<1> QED BY <1>1, <1>2, <1>3, <1>4, <1>5, <1>6, ReaderStep, Zenon

(* A timeout wakes the feed.                                                 *)
LEMMA WakeStep ==
  ASSUME SInv, NEW c \in Clients, Wake(c)
  PROVE  SInv'
<1>1. TypeOK'
  BY DEF Wake, SInv, TypeOK, writers
<1>2. /\ got' = got /\ last' = last /\ lastSeq' = lastSeq /\ wire' = wire /\ UNCHANGED writers
      /\ conn[c] = "wait" /\ conn'[c] = "read"
      /\ \A d \in Clients \ {c} : conn'[d] = conn[d]
  BY Zenon DEF Wake, PollTimeout, SInv, TypeOK
<1>3. Ordered(got[c], wire[c], lastSeq[c], last[c], "read")
  BY <1>2, Zenon DEF SInv, Ordered
<1>4. Known(wire[c], lastSeq[c], last[c], Visible)
  BY Zenon DEF SInv
<1>5. Cursor(c)' = Cursor(c)
  BY <1>2 DEF Cursor
<1>6. \A t \in Committed \ late : Covered(got[c], wire[c], seq[t], Cursor(c))
  BY Zenon DEF SInv
<1> QED BY <1>1, <1>2, <1>3, <1>4, <1>5, <1>6, ReaderStep, Zenon

(* When the feed catches up, what its cursor passes is late.                 *)
LEMMA CatchUpStep ==
  ASSUME SInv, NEW c \in Clients, CatchUp(c)
  PROVE  SInv'
<1> DEFINE head == Max({last[c], HeadSeq})
           f == [kind |-> "caught_up", seq |-> head]
           w == wire[c]
<1>1. last[c] \in Nat /\ lastSeq[c] \in Nat /\ w \in Seq(Frame) /\ got[c] \in Seq(Nat)
  BY SMTT(60) DEF SInv, TypeOK
<1>2. HeadSeq \in Visible \cup {0} /\ HeadSeq \in Nat
  BY HeadIsVisible DEF SInv
<1>3. head \in {last[c], HeadSeq} /\ head >= last[c] /\ head \in Nat
  BY <1>1, <1>2, MaxOfTwo
<1>4. f \in Frame /\ f.kind = "caught_up"
  BY <1>3 DEF Frame
<1>5. /\ got' = got /\ lastSeq' = lastSeq /\ UNCHANGED writers
      /\ conn[c] = "head" /\ conn'[c] = "wait" /\ last'[c] = head /\ wire'[c] = Append(w, f)
      /\ \A d \in Clients \ {c} : wire'[d] = wire[d] /\ conn'[d] = conn[d] /\ last'[d] = last[d]
  BY DEF CatchUp, SInv, TypeOK
<1>6. /\ Append(w, f) \in Seq(Frame) /\ Len(w) \in Nat /\ Len(Append(w, f)) = Len(w) + 1
      /\ Append(w, f)[Len(w) + 1] = f
      /\ \A i \in 1..Len(w) : Append(w, f)[i] = w[i]
  <2> HIDE DEF f, w
  <2> QED BY <1>1, <1>4, AppendProperties, LenProperties
<1>7. TypeOK'
  <2>1. /\ wire' = [wire EXCEPT ![c] = Append(w, f)] /\ last' = [last EXCEPT ![c] = head]
        /\ conn' = [conn EXCEPT ![c] = "wait"] /\ caughtUp' = [caughtUp EXCEPT ![c] = TRUE]
        /\ UNCHANGED <<writers, lastSeq, got, claimed, drops>> /\ TypeOK
    BY Zenon DEF CatchUp, SInv
  <2> HIDE DEF f, w, head
  <2> QED BY <1>3, <1>6, <2>1, Zenon DEF TypeOK, writers
<1> HIDE DEF f, head
<1>8. Ordered(got[c], Append(w, f), lastSeq[c], head, "wait")
  <2>1. Ordered(got[c], w, lastSeq[c], last[c], conn[c]) /\ conn[c] # "off" /\ f.kind # "event"
    BY <1>4, <1>5 DEF SInv
  <2> QED BY <1>1, <1>3, <1>4, <2>1, CatchUpKeeps, ZenonT(60)
<1>9. \A i \in 1..Len(Append(w, f)) : i \in 1..Len(w) \/ i = Len(w) + 1
  BY <1>6
<1>10. Known(Append(w, f), lastSeq[c], head, Visible)
  <2>1. Known(w, lastSeq[c], last[c], Visible)
    BY DEF SInv
  <2> QED BY <1>2, <1>3, <1>4, <1>6, <1>9, <2>1, Zenon DEF Known
<1>11. ASSUME NEW t \in Committed \ late PROVE Covered(got[c], Append(w, f), seq[t], head)
  <2>1. Cursor(c) = last[c]
    BY <1>5, Zenon DEF Cursor
  <2>2. Covered(got[c], w, seq[t], last[c])
    BY <2>1, ZenonT(60) DEF SInv
  <2>3. seq[t] <= last[c] /\ seq[t] \in Nat
    BY <1>5 DEF SInv, TypeOK, Committed
  <2>4. ~(seq[t] > last[c])
    BY <1>1, <2>3
  <2>5. \A i \in 1..Len(w) : i \in 1..Len(Append(w, f))
    BY <1>6
  <2> QED BY <1>6, <2>2, <2>4, <2>5 DEF Covered
<1>12. Cursor(c)' = head
  BY <1>5 DEF Cursor
<1> HIDE DEF w
<1> QED BY <1>5, <1>7, <1>8, <1>10, <1>11, <1>12, ReaderStep, Zenon

(* The client takes a frame.                                                 *)
LEMMA ReceiveStep ==
  ASSUME SInv, NEW c \in Clients, Receive(c)
  PROVE  SInv'
<1> DEFINE w == wire[c]
           f == w[1]
<1>1. last[c] \in Nat /\ lastSeq[c] \in Nat /\ w \in Seq(Frame) /\ got[c] \in Seq(Nat) /\ w # <<>>
  BY Zenon DEF SInv, TypeOK, Receive
<1>2. Ordered(got[c], w, lastSeq[c], last[c], conn[c]) /\ Known(w, lastSeq[c], last[c], Visible)
  BY DEF SInv
<1>3. /\ f \in Frame /\ 1 \in 1..Len(w) /\ Tail(w) \in Seq(Frame)
      /\ \A i \in 1..Len(Tail(w)) : i + 1 \in 1..Len(w) /\ Tail(w)[i] = w[i + 1]
      /\ Len(w) \in Nat /\ Len(Tail(w)) = Len(w) - 1
  BY <1>1, Rest
<1>4. f.seq \in Nat
  BY <1>3, Zenon DEF Frame
<1>5. /\ UNCHANGED writers /\ conn' = conn /\ last' = last /\ wire'[c] = Tail(w)
      /\ wire' = [wire EXCEPT ![c] = Tail(w)]
      /\ \A d \in Clients \ {c} : wire'[d] = wire[d]
      /\ UNCHANGED <<caughtUp, drops>>
  BY Zenon DEF Receive, SInv, TypeOK
<1>6. Cursor(c) = last[c] /\ conn[c] # "off"
  BY <1>1, <1>2 DEF Cursor, Ordered
<1>7. \A i \in 1..Len(w) : i = 1 \/ (i - 1 \in 1..Len(Tail(w)) /\ Tail(w)[i - 1] = w[i])
  <2>1. \A i \in 1..Len(w) : i = 1 \/ (i - 1 \in 1..Len(Tail(w)) /\ (i - 1) + 1 = i)
    BY <1>3
  <2> QED BY <1>3, <2>1
<1>8. CASE f.kind = "event"
  <2>1. /\ got' = [got EXCEPT ![c] = Append(got[c], f.seq)]
        /\ lastSeq' = [lastSeq EXCEPT ![c] = CursorAfter(c, f)] /\ claimed' = claimed
    BY <1>8 DEF Receive
  <2>2. lastSeq[c] < f.seq /\ f.seq \in Visible
    BY <1>2, <1>3, <1>8, Zenon DEF Ordered, Known
  <2>3. CursorAfter(c, f) = f.seq
    BY <1>1, <1>4, <2>2, MaxOfTwo, Zenon DEF CursorAfter
  <2>4. /\ Append(got[c], f.seq) \in Seq(Nat) /\ Len(got[c]) \in Nat
        /\ Len(Append(got[c], f.seq)) = Len(got[c]) + 1
        /\ Append(got[c], f.seq)[Len(got[c]) + 1] = f.seq
        /\ \A i \in 1..Len(got[c]) : Append(got[c], f.seq)[i] = got[c][i]
    BY <1>1, <1>4, AppendProperties, LenProperties
  <2> HIDE DEF f, w
  <2>5. TypeOK'
    BY <1>3, <1>4, <1>5, <2>1, <2>3, <2>4, Zenon DEF SInv, TypeOK, writers
  <2>6. /\ got'[c] = Append(got[c], f.seq) /\ lastSeq'[c] = f.seq
        /\ \A d \in Clients \ {c} : got'[d] = got[d] /\ lastSeq'[d] = lastSeq[d]
    BY <2>1, <2>3 DEF SInv, TypeOK
  <2>7. Ordered(Append(got[c], f.seq), Tail(w), f.seq, last[c], conn[c])
    BY <1>1, <1>2, <1>8, EventKeeps, Zenon DEF f
  <2>8. Known(Tail(w), f.seq, last[c], Visible)
    BY <1>2, <1>3, <2>2 DEF Known
  <2>9. ASSUME NEW t \in Committed \ late
        PROVE  Covered(Append(got[c], f.seq), Tail(w), seq[t], last[c])
    <3> DEFINE g == Append(got[c], f.seq)
    <3>1. Covered(got[c], w, seq[t], last[c])
      BY <1>6, Zenon DEF SInv, w
    <3>2. DOMAIN got[c] = 1..Len(got[c]) /\ DOMAIN g = 1..Len(g)
      BY <1>1, <2>4, LenProperties
    <3>3. \A i \in DOMAIN got[c] : i \in DOMAIN g /\ g[i] = got[c][i]
      BY <2>4, <3>2, SMTT(60)
    <3>4. Len(got[c]) + 1 \in DOMAIN g /\ g[Len(got[c]) + 1] = f.seq
      BY <2>4, <3>2
    <3> HIDE DEF g
    <3>5. f.seq \in Range(g) /\ \A x \in Range(got[c]) : x \in Range(g)
      BY <3>3, <3>4, Zenon DEF Range
    <3>6. ASSUME NEW i \in 1..Len(w), w[i] = [kind |-> "event", seq |-> seq[t]]
          PROVE  Covered(g, Tail(w), seq[t], last[c])
      <4>1. CASE i = 1
        <5>1. f.seq = seq[t]
          BY <3>6, <4>1 DEF f
        <5> QED BY <3>5, <5>1, SMTT(60) DEF Covered
      <4>2. CASE i - 1 \in 1..Len(Tail(w)) /\ Tail(w)[i - 1] = w[i]
        BY <3>6, <4>2, ZenonT(60) DEF Covered
      <4> QED BY <1>7, <4>1, <4>2, Zenon
    <3>7. Covered(g, Tail(w), seq[t], last[c])
      BY <3>1, <3>5, <3>6 DEF Covered
    <3> QED BY <3>7, Zenon DEF g
  <2>10. Cursor(c)' = last[c]
    BY <1>5, <1>6, Zenon DEF Cursor
  <2>11. \A t \in Committed \ late : conn[c] = "head" => seq[t] <= last[c]
    BY Zenon DEF SInv
  <2> QED BY <1>5, <2>5, <2>6, <2>7, <2>8, <2>9, <2>10, <2>11, ReaderStep, ZenonT(60)
<1>9. CASE f.kind # "event"
  <2>1. got' = got /\ lastSeq' = lastSeq /\ claimed' \in {claimed, claimed \cup {c}}
    BY <1>9 DEF Receive
  <2> HIDE DEF f, w
  <2>2. TypeOK'
    BY <1>3, <1>5, <2>1, Zenon DEF SInv, TypeOK, writers
  <2>3. Ordered(got[c], Tail(w), lastSeq[c], last[c], conn[c])
    BY <1>1, <1>2, StatusKeeps, Zenon
  <2>4. Known(Tail(w), lastSeq[c], last[c], Visible)
    BY <1>2, <1>3, Zenon DEF Known
  <2>5. ASSUME NEW t \in Committed \ late PROVE Covered(got[c], Tail(w), seq[t], last[c])
    <3>1. Covered(got[c], w, seq[t], last[c])
      BY <1>6 DEF SInv, w
    <3>2. ASSUME NEW i \in 1..Len(w), w[i] = [kind |-> "event", seq |-> seq[t]]
          PROVE  Covered(got[c], Tail(w), seq[t], last[c])
      <4>1. i # 1
        BY <1>9, <3>2, SMTT(60) DEF f
      <4> QED BY <1>7, <3>2, <4>1, Zenon DEF Covered
    <3> QED BY <3>1, <3>2, ZenonT(60) DEF Covered
  <2>6. Cursor(c)' = last[c]
    BY <1>5, <1>6, Zenon DEF Cursor
  <2>7. \A t \in Committed \ late : conn[c] = "head" => seq[t] <= last[c]
    BY DEF SInv
  <2> QED BY <1>5, <2>1, <2>2, <2>3, <2>4, <2>5, <2>6, <2>7, ReaderStep, ZenonT(60)
<1> QED BY <1>8, <1>9, Zenon

(* A read sends the next rows and leaves out none of them, or finds nothing  *)
(* ahead of the cursor.                                                      *)
LEMMA ReadStep ==
  ASSUME SInv, NEW c \in Clients, Read(c)
  PROVE  SInv'
<1> USE StreamAssumption
<1> DEFINE w == wire[c]
           behind == {x \in Visible : x > last[c]}
<1>1. last[c] \in Nat /\ lastSeq[c] \in Nat /\ w \in Seq(Frame) /\ got[c] \in Seq(Nat)
  BY ZenonT(60) DEF SInv, TypeOK
<1>2. Ordered(got[c], w, lastSeq[c], last[c], conn[c]) /\ Known(w, lastSeq[c], last[c], Visible)
  BY DEF SInv
<1>3. /\ UNCHANGED writers /\ got' = got /\ lastSeq' = lastSeq /\ conn[c] = "read"
      /\ UNCHANGED <<caughtUp, claimed, drops>>
  BY DEF Read
<1>4. PICK rows \in Limited(behind) :
        \/ /\ rows # <<>>
           /\ wire' = [wire EXCEPT ![c] = w \o EventFrames(rows)]
           /\ last' = [last EXCEPT ![c] = rows[Len(rows)]]
           /\ conn' = conn
        \/ /\ rows = <<>>
           /\ conn' = [conn EXCEPT ![c] = IF caughtUp[c] THEN "wait" ELSE "head"]
           /\ UNCHANGED <<wire, last>>
  BY Zenon DEF Read, ReadSince
<1>5. PICK n \in 0..Batch : rows \in [1..n -> behind]
  BY <1>4, Zenon DEF Limited
<1>6. Visible \subseteq Nat /\ behind \subseteq Nat
  BY HeadIsVisible DEF SInv
<1> HIDE DEF behind
<1>7. /\ n \in Nat /\ rows \in [1..n -> Nat] /\ rows \in Seq(behind) /\ Len(rows) = n
      /\ DOMAIN rows = 1..n
  <2>1. n \in Nat
    OBVIOUS
  <2>2. rows \in Seq(behind)
    BY <1>5, <2>1, IsASeq
  <2>3. DOMAIN rows = 1..n
    BY <1>5
  <2>4. Len(rows) = n
    BY <2>1, <2>2, <2>3, LenProperties
  <2> QED BY <1>5, <1>6, <2>1, <2>2, <2>3, <2>4, Zenon
<1>8. /\ \A i, j \in 1..n : i < j => rows[i] < rows[j]
      /\ \A i \in 1..n, x \in behind \ Range(rows) : rows[i] < x
      /\ n = Batch \/ Range(rows) = behind
  BY <1>4, <1>7, ZenonT(60) DEF Limited
<1>9. \A t \in Committed \ late :
        seq[t] \in Nat /\ (seq[t] > last[c] => seq[t] \in behind)
        /\ Covered(got[c], w, seq[t], last[c])
  <2>1. Cursor(c) = last[c]
    BY <1>3, Zenon DEF Cursor
  <2> QED BY <2>1 DEF SInv, TypeOK, Visible, Committed, behind
<1>10. CASE rows = <<>>
  <2>1. n = 0
    BY <1>7, <1>10
  <2>2. behind = {}
    BY <1>7, <1>8, <2>1 DEF Range
  <2>3. /\ conn'[c] \in {"wait", "head"} /\ wire' = wire /\ last' = last
        /\ \A d \in Clients \ {c} : conn'[d] = conn[d]
    BY <1>4, <1>10, Zenon DEF SInv, TypeOK
  <2>4. TypeOK'
    <3>1. conn' \in [Clients -> {"off", "read", "head", "wait"}]
      BY <1>4, <1>10, Zenon DEF SInv, TypeOK
    <3> QED BY <1>3, <2>3, <3>1, Zenon DEF SInv, TypeOK, writers
  <2>5. Ordered(got[c], w, lastSeq[c], last[c], conn'[c])
    BY <1>2, <1>3, <2>3, ZenonT(60) DEF Ordered
  <2>6. \A t \in Committed \ late : seq[t] <= last[c]
    BY <1>1, <1>9, <2>2
  <2>7. Cursor(c)' = last[c]
    BY <2>3, Zenon DEF Cursor
  <2> QED BY <1>2, <1>3, <1>9, <2>3, <2>4, <2>5, <2>6, <2>7, ReaderStep, ZenonT(60)
<1>11. CASE rows # <<>>
  <2> DEFINE e == EventFrames(rows)
             v == w \o e
  <2>1. n \in Nat \ {0} /\ n \in 1..n /\ rows[n] \in behind
    <3>1. n # 0
      BY <1>7, <1>11, EmptySeq
    <3>2. n \in Nat \ {0} /\ n \in 1..n
      BY <1>7, <3>1
    <3> QED BY <1>5, <3>2
  <2>2. /\ wire' = [wire EXCEPT ![c] = v] /\ last' = [last EXCEPT ![c] = rows[n]]
        /\ conn' = conn
    BY <1>4, <1>7, <1>11, Zenon
  <2>3. /\ e \in Seq(Frame) /\ Len(e) = n /\ Len(w) \in Nat
        /\ \A i \in 1..n : e[i] = [kind |-> "event", seq |-> rows[i]] /\ e[i].seq = rows[i]
    <3>1. Len(w) \in Nat
      BY <1>1, LenProperties
    <3>2. n \in Nat /\ rows \in [1..n -> Nat]
      BY <1>7, SMTT(60)
    <3>3. /\ e \in Seq(Frame) /\ Len(e) = n
          /\ \A i \in 1..n : e[i] = [kind |-> "event", seq |-> rows[i]] /\ e[i].seq = rows[i]
      BY <3>2, FramesAreEvents
    <3> QED BY <3>1, <3>3
  <2> HIDE DEF e
  <2>4. v \in Seq(Frame)
    BY <1>1, <2>3, Concatenated, Zenon
  <2>5. \A i \in 1..Len(w) : i \in 1..Len(v) /\ v[i] = w[i]
    BY <1>1, <2>3, Concatenated, Zenon
  <2>6. \A i \in 1..n : Len(w) + i \in 1..Len(v) /\ v[Len(w) + i] = e[i]
    BY <1>1, <2>3, Concatenated, Zenon
  <2>7. \A i \in 1..Len(v) : i \in 1..Len(w) \/ \E j \in 1..n : i = Len(w) + j
    BY <1>1, <2>3, Concatenated, ZenonT(60)
  <2> HIDE DEF v
  <2>8. /\ wire'[c] = v /\ last'[c] = rows[n]
        /\ \A d \in Clients \ {c} : wire'[d] = wire[d] /\ last'[d] = last[d]
    BY <2>2 DEF SInv, TypeOK
  <2>9. rows[n] \in Nat /\ rows[n] \in Visible /\ rows[n] > last[c]
    BY <1>6, <2>1 DEF behind
  <2>10. TypeOK'
    BY <1>3, <2>2, <2>4, <2>9, Zenon DEF SInv, TypeOK, writers
  <2>11. Ordered(got[c], v, lastSeq[c], rows[n], conn[c])
    <3>1. \A i \in 1..n : rows[i] > last[c]
      BY <1>5 DEF behind
    <3>2. conn[c] # "off"
      BY <1>3
    <3> QED BY <1>1, <1>2, <1>7, <1>8, <2>1, <3>1, <3>2, SendKeeps, ZenonT(60) DEF v, e
  <2>12. Known(v, lastSeq[c], rows[n], Visible)
    <3>1. ASSUME NEW i \in 1..Len(v), v[i].kind = "event" PROVE v[i].seq \in Visible
      <4>1. CASE i \in 1..Len(w)
        BY <1>2, <2>5, <3>1, <4>1, Zenon DEF Known
      <4>2. CASE \E j \in 1..n : i = Len(w) + j
        <5>1. PICK j \in 1..n : i = Len(w) + j
          BY <4>2
        <5>2. v[i].seq = rows[j] /\ rows[j] \in behind
          BY <1>5, <2>3, <2>6, <5>1, Zenon
        <5> QED BY <5>2 DEF behind
      <4> QED BY <2>7, <4>1, <4>2, Zenon
    <3> QED BY <1>2, <2>9, <3>1, Zenon DEF Known
  <2>13. ASSUME NEW t \in Committed \ late PROVE Covered(got[c], v, seq[t], rows[n])
    <3>1. Covered(got[c], w, seq[t], last[c])
      BY <1>9, ZenonT(60)
    <3>2. CASE seq[t] \in Range(got[c])
      BY <3>2 DEF Covered
    <3>3. CASE \E i \in 1..Len(w) : w[i] = [kind |-> "event", seq |-> seq[t]]
      BY <2>5, <3>3 DEF Covered
    <3>4. CASE seq[t] > last[c]
      <4>1. seq[t] \in behind
        BY <1>9, <3>4, Zenon
      <4>2. CASE seq[t] \in Range(rows)
        <5>1. PICK i \in 1..n : seq[t] = rows[i]
          BY <1>7, <4>2, Zenon DEF Range
        <5>2. Len(w) + i \in 1..Len(v) /\ v[Len(w) + i] = [kind |-> "event", seq |-> seq[t]]
          BY <2>3, <2>6, <5>1, Zenon
        <5> QED BY <5>2 DEF Covered
      <4>3. CASE seq[t] \notin Range(rows)
        <5>1. rows[n] < seq[t]
          BY <1>8, <2>1, <4>1, <4>3, Zenon
        <5>2. seq[t] > rows[n]
          BY <1>9, <2>9, <5>1, Zenon
        <5> QED BY <5>2 DEF Covered
      <4> QED BY <4>2, <4>3, Zenon
    <3> QED BY <3>1, <3>2, <3>3, <3>4, Zenon DEF Covered
  <2>14. Cursor(c)' = rows[n] /\ conn'[c] # "head"
    BY <1>3, <2>2, <2>8, Zenon DEF Cursor
  <2> HIDE DEF w
  <2> QED BY <1>3, <2>2, <2>8, <2>10, <2>11, <2>12, <2>13, <2>14, ReaderStep, ZenonT(60)
<1> QED BY <1>10, <1>11

-----------------------------------------------------------------------------
(* Numbers are given out, transactions roll back, failovers skip numbers:    *)
(* none of it shows to a reader.                                             *)
LEMMA UnseenStep ==
  ASSUME SInv,
         Failover \/ \E t \in Txns : AppendEvent(t) \/ Rollback(t)
  PROVE  SInv'
<1>a. TypeOK /\ Numbered
  BY Zenon DEF SInv
<1>b. /\ \A c \in Clients : Ordered(got[c], wire[c], lastSeq[c], last[c], conn[c])
      /\ \A c \in Clients : Known(wire[c], lastSeq[c], last[c], Visible)
  BY ZenonT(60) DEF SInv
<1>c. \A c \in Clients, u \in Committed \ late :
        /\ conn[c] = "head" => seq[u] <= last[c]
        /\ Covered(got[c], wire[c], seq[u], Cursor(c))
  BY DEF SInv
<1>1. TypeOK'
  <2>1. CASE Failover
    BY <1>a, <2>1 DEF TypeOK, Failover, readers
  <2>2. ASSUME NEW t \in Txns, Rollback(t) PROVE TypeOK'
    BY <1>a, <2>2, Zenon DEF TypeOK, Rollback, readers
  <2>3. ASSUME NEW t \in Txns, AppendEvent(t) PROVE TypeOK'
    BY <1>a, <2>3, SMTT(60) DEF TypeOK, AppendEvent, readers
  <2> QED BY <2>1, <2>2, <2>3, SMTT(60)
<1>2. Numbered'
  <2>1. CASE Failover
    BY <1>a, <2>1 DEF TypeOK, Numbered, Failover
  <2>2. ASSUME NEW t \in Txns, Rollback(t) PROVE Numbered'
    BY <1>a, <2>2, ZenonT(60) DEF TypeOK, Numbered, Rollback
  <2>3. ASSUME NEW t \in Txns, AppendEvent(t) PROVE Numbered'
    BY <1>a, <2>3, SMTT(60) DEF TypeOK, Numbered, AppendEvent
  <2> QED BY <2>1, <2>2, <2>3
<1>3. Committed' = Committed /\ \A t \in Committed : seq'[t] = seq[t]
  BY <1>a, SMTT(60) DEF TypeOK, Committed, Failover, AppendEvent, Rollback
<1>4. Visible' = Visible
  BY <1>3 DEF Visible
<1>5. UNCHANGED <<conn, last, wire, lastSeq, got, late>>
  BY DEF Failover, AppendEvent, Rollback, readers
<1>6. \A c \in Clients : Cursor(c)' = Cursor(c)
  BY <1>5, Zenon DEF Cursor
<1> QED BY <1>b, <1>c, <1>1, <1>2, <1>3, <1>4, <1>5, <1>6, Zenon DEF SInv

(* A commit that is not late is ahead of every cursor.                       *)
LEMMA CommitStep ==
  ASSUME SInv, NEW t \in Txns, Commit(t)
  PROVE  SInv'
<1>a. TypeOK /\ Numbered
  BY Zenon DEF SInv
<1>b. /\ \A c \in Clients : Ordered(got[c], wire[c], lastSeq[c], last[c], conn[c])
      /\ \A c \in Clients : Known(wire[c], lastSeq[c], last[c], Visible)
  BY Zenon DEF SInv
<1>c. \A c \in Clients, u \in Committed \ late :
        /\ conn[c] = "head" => seq[u] <= last[c]
        /\ Covered(got[c], wire[c], seq[u], Cursor(c))
  BY DEF SInv
<1>1. /\ UNCHANGED <<nextSeq, seq, last, wire, lastSeq, got>>
      /\ txn[t] = "open" /\ txn' = [txn EXCEPT ![t] = "committed"]
      /\ late' \in {late, late \cup {t}}
      /\ \A c \in Clients : conn'[c] = conn[c] \/ (conn[c] = "wait" /\ conn'[c] = "read")
  BY <1>a, Zenon DEF Commit, TypeOK
<1>2. TypeOK'
  <2>1. conn' \in [Clients -> {"off", "read", "head", "wait"}]
    BY <1>a, Zenon DEF Commit, TypeOK
  <2> QED BY <1>a, <1>1, <2>1, Zenon DEF Commit, TypeOK
<1>3. Numbered'
  BY <1>a, <1>1, Zenon DEF Numbered, TypeOK
<1>4. Committed' = Committed \cup {t} /\ t \notin Committed
  BY <1>a, <1>1 DEF Committed, TypeOK
<1>5. Visible \subseteq Visible'
  BY <1>1, <1>4, Zenon DEF Visible
<1>6. \A c \in Clients : Ordered(got[c], wire[c], lastSeq[c], last[c], conn'[c])
  BY <1>b, <1>1, Zenon DEF Ordered
<1>7. \A c \in Clients : Known(wire[c], lastSeq[c], last[c], Visible')
  BY <1>b, <1>5, Zenon DEF Known
<1>8. \A c \in Clients : Cursor(c)' = Cursor(c)
  BY <1>1 DEF Cursor
<1>9. ASSUME t \notin late', NEW c \in Clients
      PROVE  conn[c] # "head" /\ seq[t] > Cursor(c)
  <2>1. (\A x \in Visible : ~(x > seq[t])) /\ conn[c] # "head"
    BY <1>9, Zenon DEF Commit
  <2>2. Cursor(c) \in Visible \cup {0} /\ Visible \subseteq Nat
    BY <1>a, <1>b, HeadIsVisible, Zenon DEF Known, Cursor
  <2>3. seq[t] > 0 /\ seq[t] \in Nat
    BY <1>a, <1>1, Zenon DEF Numbered, TypeOK
  <2>4. seq[t] \notin Visible
    <3> SUFFICES ASSUME NEW u \in Committed, seq[u] = seq[t] PROVE FALSE
      BY DEF Visible
    <3> QED BY <1>a, <1>1, <1>4 DEF Committed, Numbered
  <2>5. CASE Cursor(c) = 0
    BY <2>1, <2>3, <2>5
  <2>6. CASE Cursor(c) \in Visible
    <3>1. ~(Cursor(c) > seq[t]) /\ Cursor(c) # seq[t] /\ Cursor(c) \in Nat
      BY <2>1, <2>2, <2>4, <2>6, ZenonT(60)
    <3> QED BY <2>1, <2>3, <3>1
  <2> QED BY <2>2, <2>5, <2>6
<1>10. ASSUME NEW c \in Clients, NEW u \in Committed' \ late'
       PROVE  /\ conn'[c] = "head" => seq[u] <= last[c]
              /\ Covered(got[c], wire[c], seq[u], Cursor(c))
  <2>1. conn'[c] = "head" => conn[c] = "head"
    BY <1>1
  <2>2. CASE u = t
    BY <1>9, <1>10, <2>1, <2>2, Zenon DEF Covered
  <2>3. CASE u # t
    <3>1. u \in Committed \ late
      BY <1>1, <1>4, <2>3
    <3> QED BY <1>c, <2>1, <3>1, SMTT(60)
  <2> QED BY <2>2, <2>3
<1> QED BY <1>1, <1>2, <1>3, <1>6, <1>7, <1>8, <1>10, Zenon DEF SInv

-----------------------------------------------------------------------------
(* The invariant holds of every reachable state.                             *)
LEMMA Invariant == Spec => []SInv
<1>1. Init => SInv
  <2> SUFFICES ASSUME Init PROVE SInv
    OBVIOUS
  <2>1. TypeOK /\ Numbered /\ Committed = {}
    BY DEF Init, TypeOK, Numbered, Committed
  <2>2. \A c \in Clients : Ordered(got[c], wire[c], lastSeq[c], last[c], conn[c])
    BY DEF Init, Ordered
  <2>3. \A c \in Clients : Known(wire[c], lastSeq[c], last[c], Visible)
    BY DEF Init, Known
  <2> QED BY <2>1, <2>2, <2>3 DEF SInv
<1>2. SInv /\ [Next]_vars => SInv'
  <2> SUFFICES ASSUME SInv, [Next]_vars PROVE SInv'
    BY Zenon
  <2>1. CASE UNCHANGED vars
    <3>1. UNCHANGED <<writers, readers>> /\ Visible' = Visible /\ Committed' = Committed
      BY <2>1, Zenon DEF vars, writers, Visible, Committed
    <3>2. TypeOK' /\ Numbered'
      BY <3>1 DEF SInv, TypeOK, Numbered, writers, readers
    <3>3. \A c \in Clients : Cursor(c)' = Cursor(c)
      BY <3>1 DEF Cursor, readers
    <3> QED BY <3>1, <3>2, <3>3, Zenon DEF SInv, writers, readers
  <2> QED BY <2>1, UnseenStep, CommitStep, ConnectStep, ReadStep, CatchUpStep, WakeStep,
             ReceiveStep, DropStep, Zenon DEF Next
<1> QED BY <1>1, <1>2, PTL DEF Spec

(* Every reachable state of the log and its readers is well typed.           *)
THEOREM TypeCorrect == Spec => []TypeOK
BY Invariant, PTL DEF SInv

(* Whatever commits, in whatever order, and however often connections break: *)
(* a client processes every event_seq at most once and in ascending order,   *)
(* and no event is behind a cursor without having been sent, unless it       *)
(* committed behind a higher number or between the empty read and head_seq.  *)
THEOREM Delivery == Spec => []DeliveryIsSound
<1>1. SInv => DeliveryIsSound
  BY DEF SInv, DeliveryIsSound, InOrderOnce, LossOnlyLate, Ordered, Covered, Cursor
<1> QED BY <1>1, Invariant, PTL
=============================================================================
