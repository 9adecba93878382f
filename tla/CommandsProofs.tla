--------------------------- MODULE CommandsProofs ---------------------------
(***************************************************************************)
(* What the deduplication of commands promises, for any commands, bodies   *)
(* and attempts, any number of repeats and faults, with and without        *)
(* housekeeping. The proofs need of the constants that None is a value of  *)
(* its own and that the guarded ids are ids.                               *)
(***************************************************************************)
EXTENDS Commands, FiniteSets, FiniteSetTheorems, TLAPS

Distinct == None \notin Rows /\ None \notin Nat /\ Guarded \subseteq Ids

(* Whoever is in flight carries an id and a body.                            *)
TInv ==
  /\ TypeOK
  /\ \A a \in Attempts : pc[a] # "free" => cmd[a] \in Ids /\ body[a] \in Bodies

(* An answer adds the body of the attempt to what the client has heard.      *)
LEMMA AnswerType ==
  ASSUME TInv, NEW a \in Attempts, pc[a] # "free", Answer(a) \/ UNCHANGED ok
  PROVE  ok' \in [Ids -> SUBSET Bodies]
<1>1. CASE Answer(a)
  <2>1. cmd[a] \in Ids /\ body[a] \in Bodies /\ ok \in [Ids -> SUBSET Bodies]
    BY DEF TInv, TypeOK
  <2>2. ok[cmd[a]] \cup {body[a]} \in SUBSET Bodies
    BY <2>1
  <2> QED BY <1>1, <2>1, <2>2 DEF Answer
<1>2. CASE UNCHANGED ok
  BY <1>2, Zenon DEF TInv, TypeOK
<1> QED BY <1>1, <1>2

(* Every step keeps the types, and what an attempt carries.                  *)
LEMMA NextTInv == TInv /\ [Next]_vars => TInv'
<1> SUFFICES ASSUME TInv, [Next]_vars PROVE TInv'
  OBVIOUS
<1> USE DEF TInv, TypeOK, Goto, Leave, idle
<1>1. ASSUME NEW a \in Attempts, NEW c \in Ids, NEW b \in Bodies, Send(a, c, b) PROVE TInv'
  BY <1>1 DEF Send
<1>2. ASSUME NEW a \in Attempts, Claim(a) PROVE TInv'
  <2>1. [hash |-> body[a], result |-> FALSE] \in Rows
    BY <1>2 DEF Claim, Rows
  <2> QED BY <1>2, <2>1, Zenon DEF Claim
<1>3. ASSUME NEW a \in Attempts, Lookup(a) PROVE TInv'
  <2>1. ok' \in [Ids -> SUBSET Bodies]
    <3>1. pc[a] # "free" /\ (Answer(a) \/ UNCHANGED ok)
      BY <1>3 DEF Lookup
    <3> QED BY <3>1, AnswerType
  <2>2. row' = row /\ UNCHANGED <<version, expected, done, lapsed, sends, faults>>
    BY <1>3 DEF Lookup
  <2> QED BY <1>3, <2>1, <2>2 DEF Lookup
<1>4. ASSUME NEW a \in Attempts, Effect(a) PROVE TInv'
  BY <1>4 DEF Effect
<1>5. ASSUME NEW a \in Attempts, Raise(a) PROVE TInv'
  BY <1>5 DEF Raise
<1>6. ASSUME NEW a \in Attempts, Abandon(a) PROVE TInv'
  BY <1>6 DEF Abandon, Abandoned
<1>7. ASSUME NEW a \in Attempts, Complete(a) PROVE TInv'
  <2>1. row' \in [Ids -> Rows \cup {None}]
    <3>1. \A r \in Rows : [hash |-> r.hash, result |-> TRUE] \in Rows
      BY DEF Rows
    <3>2. CASE row[cmd[a]] # None
      <4>1. row[cmd[a]] \in Rows
        BY <1>7, <3>2 DEF Complete
      <4>2. row' = [row EXCEPT ![cmd[a]] = [hash |-> @.hash, result |-> TRUE]]
        BY <1>7, <3>2 DEF Complete, Completed
      <4> QED BY <3>1, <4>1, <4>2, Zenon
    <3>3. CASE row[cmd[a]] = None
      BY <1>7, <3>3 DEF Complete, Completed
    <3> QED BY <3>2, <3>3
  <2>2. ok' \in [Ids -> SUBSET Bodies]
    <3>1. pc[a] # "free" /\ (Answer(a) \/ UNCHANGED ok)
      BY <1>7 DEF Complete
    <3> QED BY <3>1, AnswerType
  <2>3. UNCHANGED <<version, expected, done, lapsed, sends, faults>> /\ Leave(a)
    BY <1>7 DEF Complete
  <2> QED BY <2>1, <2>2, <2>3
<1>8. ASSUME NEW a \in Attempts, Cancel(a) PROVE TInv'
  BY <1>8 DEF Cancel
<1>9. ASSUME NEW a \in Attempts, Crash(a) PROVE TInv'
  BY <1>9 DEF Crash
<1>10. ASSUME NEW c \in Ids, PurgeStale(c) PROVE TInv'
  BY <1>10 DEF PurgeStale
<1>11. ASSUME NEW c \in Ids, PurgeCompleted(c) PROVE TInv'
  BY <1>11 DEF PurgeCompleted
<1>12. CASE UNCHANGED vars
  BY <1>12 DEF vars
<1> QED
  BY <1>1, <1>2, <1>3, <1>4, <1>5, <1>6, <1>7, <1>8, <1>9, <1>10, <1>11, <1>12, Zenon
  DEF Next, Step

(* Every reachable state is well typed.                                      *)
THEOREM TypeCorrect == Spec => []TInv
<1>1. Init => TInv
  BY SMTT(60) DEF Init, TInv, TypeOK
<1> QED
  BY <1>1, NextTInv, PTL DEF Spec

-----------------------------------------------------------------------------
(* The version guard. The expected version of a command is one the aggregate *)
(* has had; once the command has taken effect the aggregate is past it.      *)
GInv ==
  /\ \A c \in Ids : expected[c] # None => expected[c] <= version
  /\ \A a \in Attempts : pc[a] # "free" => expected[cmd[a]] # None
  /\ \A c \in Guarded : done[c] # <<>> => expected[c] # None /\ expected[c] < version
  /\ GuardedAtMostOnce

(* No step takes the version of the aggregate back behind an effect.         *)
LEMMA NextGInv ==
  ASSUME Distinct PROVE TInv /\ GInv /\ [Next]_vars => GInv'
<1> SUFFICES ASSUME TInv, GInv, [Next]_vars PROVE GInv'
  OBVIOUS
<1> USE DEF Distinct, TInv, TypeOK, GInv, GuardedAtMostOnce, Goto, Leave, Answer, idle
<1>1. ASSUME NEW a \in Attempts, NEW c \in Ids, NEW b \in Bodies, Send(a, c, b) PROVE GInv'
  BY <1>1 DEF Send
<1>2. ASSUME NEW a \in Attempts, Claim(a) PROVE GInv'
  BY <1>2 DEF Claim
<1>3. ASSUME NEW a \in Attempts, Lookup(a) PROVE GInv'
  BY <1>3 DEF Lookup
<1>4. ASSUME NEW a \in Attempts, Effect(a) PROVE GInv'
  BY <1>4 DEF Effect, VersionMatches
<1>5. ASSUME NEW a \in Attempts, Raise(a) PROVE GInv'
  BY <1>5 DEF Raise
<1>6. ASSUME NEW a \in Attempts, Abandon(a) PROVE GInv'
  BY <1>6 DEF Abandon
<1>7. ASSUME NEW a \in Attempts, Complete(a) PROVE GInv'
  BY <1>7 DEF Complete
<1>8. ASSUME NEW a \in Attempts, Cancel(a) PROVE GInv'
  BY <1>8 DEF Cancel
<1>9. ASSUME NEW a \in Attempts, Crash(a) PROVE GInv'
  BY <1>9 DEF Crash
<1>10. ASSUME NEW c \in Ids, PurgeStale(c) \/ PurgeCompleted(c) PROVE GInv'
  BY <1>10 DEF PurgeStale, PurgeCompleted
<1>11. CASE UNCHANGED vars
  BY <1>11 DEF vars
<1> QED
  BY <1>1, <1>2, <1>3, <1>4, <1>5, <1>6, <1>7, <1>8, <1>9, <1>10, <1>11, SMTT(60) DEF Next, Step

-----------------------------------------------------------------------------
(* The account of an id: the effects that committed, the attempts that may   *)
(* still add one or open the way for one, and the free place of the row.     *)
(* Only a lapse adds to it.                                                  *)
Busy(c) == {a \in Attempts : cmd[a] = c /\ pc[a] \in {"run", "abandon"}}
Place(c) == IF row[c] = None THEN 1 ELSE 0

CInv ==
  \A c \in Ids :
    /\ IsFiniteSet(Busy(c))
    /\ Len(done[c]) + Cardinality(Busy(c)) + Place(c) <= 1 + lapsed[c]

(* One attempt more or less changes the account by one.                      *)
LEMMA BusyCounts ==
  ASSUME CInv, NEW c \in Ids, NEW a
  PROVE  /\ Cardinality(Busy(c)) \in Nat
         /\ a \notin Busy(c) =>
              /\ IsFiniteSet(Busy(c) \cup {a})
              /\ Cardinality(Busy(c) \cup {a}) = Cardinality(Busy(c)) + 1
         /\ IsFiniteSet(Busy(c) \ {a})
         /\ Cardinality(Busy(c) \ {a}) \in Nat
         /\ a \in Busy(c) => Cardinality(Busy(c) \ {a}) = Cardinality(Busy(c)) - 1
         /\ a \notin Busy(c) => Busy(c) \ {a} = Busy(c)
<1>1. IsFiniteSet(Busy(c))
  BY DEF CInv
<1> HIDE DEF Busy
<1>2. IsFiniteSet(Busy(c) \ {a})
  BY <1>1, FS_RemoveElement, Zenon
<1> QED BY <1>1, <1>2, FS_AddElement, FS_RemoveElement, FS_CardinalityType

(* No step but a lapse adds to the account.                                  *)
LEMMA NextCInv ==
  ASSUME Distinct PROVE TInv /\ TInv' /\ CInv /\ [Next]_vars => CInv'
<1> SUFFICES ASSUME TInv, TInv', CInv, [Next]_vars, NEW c \in Ids
             PROVE  /\ IsFiniteSet(Busy(c)')
                    /\ Len(done'[c]) + Cardinality(Busy(c)') + Place(c)' <= 1 + lapsed'[c]
  BY DEF CInv
<1> DEFINE Kept == Busy(c)' = Busy(c)
           Account == Len(done[c]) + Cardinality(Busy(c)) + Place(c) <= 1 + lapsed[c]
<1>a1. Account /\ IsFiniteSet(Busy(c)) /\ Cardinality(Busy(c)) \in Nat
  BY BusyCounts, Zenon DEF CInv
<1>a2. /\ Len(done[c]) \in Nat /\ lapsed[c] \in Nat
       /\ Len(done'[c]) \in Nat /\ lapsed'[c] \in Nat
  BY DEF TInv, TypeOK
<1>a3. Place(c) \in {0, 1} /\ Place(c)' \in {0, 1}
  BY DEF Place
<1>b. ASSUME Kept, done'[c] = done[c], Place(c)' = Place(c), lapsed'[c] = lapsed[c]
      PROVE  IsFiniteSet(Busy(c)') /\ Account'
  BY <1>a1, <1>a2, <1>a3, <1>b
<1>c. ASSUME NEW a \in Attempts, a \notin Busy(c), Busy(c)' = Busy(c) \cup {a}
      PROVE  IsFiniteSet(Busy(c)') /\ Cardinality(Busy(c)') = Cardinality(Busy(c)) + 1
  <2>1. /\ IsFiniteSet(Busy(c) \cup {a})
        /\ Cardinality(Busy(c) \cup {a}) = Cardinality(Busy(c)) + 1
    BY <1>c, BusyCounts, Zenon
  <2> QED BY <1>c, <2>1, Zenon
<1>d. ASSUME NEW a \in Attempts, a \in Busy(c), Busy(c)' = Busy(c) \ {a}
      PROVE  IsFiniteSet(Busy(c)') /\ Cardinality(Busy(c)') = Cardinality(Busy(c)) - 1
  <2>1. /\ IsFiniteSet(Busy(c) \ {a})
        /\ Cardinality(Busy(c) \ {a}) = Cardinality(Busy(c)) - 1
    BY <1>d, BusyCounts, Zenon
  <2> QED BY <1>d, <2>1, Zenon
<1>e. ASSUME NEW a \in Attempts, Busy(c)' = Busy(c) \ {a}, done'[c] = done[c],
             a \in Busy(c) \/ Place(c)' = Place(c), lapsed'[c] = lapsed[c]
      PROVE  IsFiniteSet(Busy(c)') /\ Account'
  <2>1. CASE a \in Busy(c)
    <3>1. IsFiniteSet(Busy(c)') /\ Cardinality(Busy(c)') = Cardinality(Busy(c)) - 1
      BY <1>e, <1>d, <2>1
    <3> QED BY <1>a1, <1>a2, <1>a3, <1>e, <3>1, SMTT(60)
  <2>2. CASE a \notin Busy(c)
    <3>1. Kept
      BY <1>e, <2>2
    <3> QED BY <1>b, <1>e, <2>2, <3>1
  <2> QED BY <2>1, <2>2
<1> USE DEF TInv, TypeOK, Goto, Leave, idle
<1>1. ASSUME NEW a \in Attempts, NEW d \in Ids, NEW b \in Bodies, Send(a, d, b)
      PROVE  IsFiniteSet(Busy(c)') /\ Account'
  <2>1. Kept
    BY <1>1, SMTT(60) DEF Send, Busy
  <2>2. done'[c] = done[c] /\ Place(c)' = Place(c) /\ lapsed'[c] = lapsed[c]
    BY <1>1 DEF Send, Place
  <2> QED BY <1>b, <2>1, <2>2
<1>2. ASSUME NEW a \in Attempts, Claim(a) PROVE IsFiniteSet(Busy(c)') /\ Account'
  <2>1. done'[c] = done[c] /\ lapsed'[c] = lapsed[c]
    BY <1>2 DEF Claim
  <2>2. CASE CanInsert(cmd[a]) /\ cmd[a] = c
    <3>1. [hash |-> body[a], result |-> FALSE] \in Rows
      BY <1>2 DEF Claim, Rows
    <3>2. Place(c) = 1 /\ Place(c)' = 0
      BY <1>2, <2>2, <3>1, Zenon DEF Claim, CanInsert, Place, Distinct
    <3>3. a \notin Busy(c) /\ Busy(c)' = Busy(c) \cup {a}
      BY <1>2, <2>2, SMTT(60) DEF Claim, Busy
    <3>4. IsFiniteSet(Busy(c)') /\ Cardinality(Busy(c)') = Cardinality(Busy(c)) + 1
      BY <1>c, <3>3, Zenon
    <3> QED BY <1>a1, <1>a2, <2>1, <3>2, <3>4, SMTT(60)
  <2>3. CASE ~(CanInsert(cmd[a]) /\ cmd[a] = c)
    <3>1. Place(c)' = Place(c)
      BY <1>2, <2>3, Zenon DEF Claim, Place
    <3>2. Kept
      BY <1>2, <2>3 DEF Claim, Busy
    <3> QED BY <1>b, <2>1, <3>1, <3>2
  <2> QED BY <2>2, <2>3, Zenon
<1>3. ASSUME NEW a \in Attempts, Lookup(a) PROVE IsFiniteSet(Busy(c)') /\ Account'
  <2>1. Kept
    BY <1>3 DEF Lookup, Busy
  <2>2. done'[c] = done[c] /\ Place(c)' = Place(c) /\ lapsed'[c] = lapsed[c]
    BY <1>3 DEF Lookup, Place
  <2> QED BY <1>b, <2>1, <2>2, SMTT(60)
<1>4. ASSUME NEW a \in Attempts, Effect(a) PROVE IsFiniteSet(Busy(c)') /\ Account'
  <2>1. Place(c)' = Place(c) /\ lapsed'[c] = lapsed[c]
    BY <1>4 DEF Effect, Place
  <2>2. CASE cmd[a] = c
    <3>1. Len(done'[c]) = Len(done[c]) + 1
      BY <1>4, <2>2, SMTT(60) DEF Effect
    <3>2. a \in Busy(c) /\ Busy(c)' = Busy(c) \ {a}
      BY <1>4, <2>2 DEF Effect, Busy
    <3>3. IsFiniteSet(Busy(c)') /\ Cardinality(Busy(c)') = Cardinality(Busy(c)) - 1
      BY <1>d, <3>2, Zenon
    <3> QED BY <1>a1, <1>a2, <1>a3, <2>1, <3>1, <3>3, SMTT(60)
  <2>3. CASE cmd[a] # c
    <3>1. done'[c] = done[c]
      BY <1>4, <2>3, SMTT(60) DEF Effect
    <3>2. Kept
      BY <1>4, <2>3, SMTT(60) DEF Effect, Busy
    <3> QED BY <1>b, <2>1, <3>1, <3>2, SMTT(60)
  <2> QED BY <2>2, <2>3, SMTT(60)
<1>5. ASSUME NEW a \in Attempts, Raise(a) PROVE IsFiniteSet(Busy(c)') /\ Account'
  <2>1. Kept
    BY <1>5 DEF Raise, Busy
  <2>2. done'[c] = done[c] /\ Place(c)' = Place(c) /\ lapsed'[c] = lapsed[c]
    BY <1>5 DEF Raise, Place
  <2> QED BY <1>b, <2>1, <2>2
<1>6. ASSUME NEW a \in Attempts, Abandon(a) PROVE IsFiniteSet(Busy(c)') /\ Account'
  <2>1. Busy(c)' = Busy(c) \ {a}
    BY <1>6 DEF Abandon, Busy
  <2>2. a \in Busy(c) \/ cmd[a] # c
    BY <1>6, SMTT(60) DEF Abandon, Busy
  <2>3. cmd[a] # c => Place(c)' = Place(c)
    BY <1>6, SMTT(60) DEF Abandon, Abandoned, Place
  <2>4. done'[c] = done[c] /\ lapsed'[c] = lapsed[c]
    BY <1>6 DEF Abandon
  <2> QED BY <1>e, <2>1, <2>2, <2>3, <2>4, Zenon
<1>7. ASSUME NEW a \in Attempts, Complete(a) PROVE IsFiniteSet(Busy(c)') /\ Account'
  <2>1. Kept
    BY <1>7, Zenon DEF Complete, Busy
  <2>2. done'[c] = done[c] /\ lapsed'[c] = lapsed[c]
    BY <1>7 DEF Complete
  <2>3. Place(c)' = Place(c)
    <3>1. cmd[a] # c \/ row[c] = None => row'[c] = row[c]
      BY <1>7 DEF Complete, Completed
    <3>2. ASSUME cmd[a] = c, row[c] # None PROVE row'[c] # None
      <4>1. row'[c] = [hash |-> row[c].hash, result |-> TRUE]
        BY <1>7, <3>2 DEF Complete, Completed
      <4>2. row[c] \in Rows
        BY <3>2, SMTT(60)
      <4>3. [hash |-> row[c].hash, result |-> TRUE] \in Rows
        BY <4>2, SMTT(60) DEF Rows
      <4> QED BY <4>1, <4>3, ZenonT(60) DEF Distinct
    <3> QED BY <3>1, <3>2, ZenonT(60) DEF Place
  <2> QED BY <1>b, <2>1, <2>2, <2>3
<1>8. ASSUME NEW a \in Attempts, Cancel(a) PROVE IsFiniteSet(Busy(c)') /\ Account'
  <2>1. done'[c] = done[c] /\ Place(c)' = Place(c)
    BY <1>8 DEF Cancel, Place
  <2>2. CASE cmd[a] = c
    <3>1. a \notin Busy(c) /\ Busy(c)' = Busy(c) \cup {a}
      BY <1>8, <2>2, ZenonT(60) DEF Cancel, Busy
    <3>2. IsFiniteSet(Busy(c)') /\ Cardinality(Busy(c)') = Cardinality(Busy(c)) + 1
      BY <1>c, <3>1, ZenonT(60)
    <3>3. lapsed'[c] = lapsed[c] + 1
      BY <1>8, <2>2 DEF Cancel
    <3> QED BY <1>a1, <1>a2, <1>a3, <2>1, <3>2, <3>3, SMTT(60)
  <2>3. CASE cmd[a] # c
    <3>1. Kept /\ lapsed'[c] = lapsed[c]
      BY <1>8, <2>3 DEF Cancel, Busy
    <3> QED BY <1>b, <2>1, <3>1, Zenon
  <2> QED BY <2>2, <2>3
<1>9. ASSUME NEW a \in Attempts, Crash(a) PROVE IsFiniteSet(Busy(c)') /\ Account'
  <2>1. Busy(c)' = Busy(c) \ {a}
    BY <1>9 DEF Crash, Busy
  <2>2. done'[c] = done[c] /\ Place(c)' = Place(c) /\ lapsed'[c] = lapsed[c]
    BY <1>9 DEF Crash, Place
  <2> QED BY <1>e, <2>1, <2>2, Zenon
<1>10. ASSUME NEW d \in Ids, PurgeStale(d) \/ PurgeCompleted(d)
       PROVE  IsFiniteSet(Busy(c)') /\ Account'
  <2>1. Kept /\ done'[c] = done[c]
    BY <1>10 DEF PurgeStale, PurgeCompleted, Busy
  <2>2. CASE d = c
    <3>1. Place(c) = 0 /\ lapsed'[c] = lapsed[c] + 1
      BY <1>10, <2>2 DEF PurgeStale, PurgeCompleted, Place
    <3> QED BY <1>a1, <1>a2, <1>a3, <2>1, <3>1, SMTT(60)
  <2>3. CASE d # c
    <3>1. Place(c)' = Place(c) /\ lapsed'[c] = lapsed[c]
      BY <1>10, <2>3, Zenon DEF PurgeStale, PurgeCompleted, Place
    <3> QED BY <1>b, <2>1, <3>1
  <2> QED BY <2>2, <2>3
<1>11. CASE UNCHANGED vars
  <2>1. Kept /\ done'[c] = done[c] /\ Place(c)' = Place(c) /\ lapsed'[c] = lapsed[c]
    BY <1>11 DEF vars, Busy, Place
  <2> QED BY <1>b, <2>1, SMTT(60)
<1> QED
  BY <1>1, <1>2, <1>3, <1>4, <1>5, <1>6, <1>7, <1>8, <1>9, <1>10, <1>11, Zenon DEF Next, Step

-----------------------------------------------------------------------------
(* Who holds the row. As long as nothing has lapsed under an id, one attempt *)
(* at most is between its claim and its end, and the pending row carries its *)
(* body; so the result it stores is the result of that body.                 *)
Took(c, b) == \E i \in 1..Len(done[c]) : done[c][i] = b
Holds(a) == pc[a] \in {"run", "done", "abandon"}
Pending(c, b) == row[c] # None /\ row[c].hash = b /\ ~row[c].result
Finished(c) == row[c] # None /\ row[c].result

DoneInv == \A a \in Attempts : pc[a] = "done" => Took(cmd[a], body[a])
HoldInv ==
  /\ \A a \in Attempts : Holds(a) /\ lapsed[cmd[a]] = 0 => Pending(cmd[a], body[a])
  /\ \A a, b \in Attempts :
       Holds(a) /\ Holds(b) /\ cmd[a] = cmd[b] /\ lapsed[cmd[a]] = 0 => a = b
ResultInv ==
  \A c \in Ids : Finished(c) =>
    done[c] # <<>> /\ (lapsed[c] = 0 => Took(c, row[c].hash))
SInv == DoneInv /\ HoldInv /\ ResultInv /\ SuccessIsTrue

(* One more entry at the end of a sequence.                                  *)
LEMMA Appended ==
  ASSUME NEW S, NEW q \in Seq(S), NEW x \in S, NEW r, r = Append(q, x)
  PROVE  /\ Len(q) \in Nat /\ Len(r) = Len(q) + 1
         /\ r[Len(q) + 1] = x
         /\ \A i \in 1..Len(q) : r[i] = q[i]
OBVIOUS

(* Effects are never taken back, nor are lapses.                             *)
LEMMA Grows ==
  ASSUME TInv, [Next]_vars, NEW c \in Ids
  PROVE  /\ lapsed'[c] = 0 => lapsed[c] = 0
         /\ \A b : Took(c, b) => Took(c, b)'
         /\ done[c] # <<>> => done'[c] # <<>>
<1> USE DEF TInv, TypeOK
<1>1. ASSUME NEW a \in Attempts, Effect(a)
      PROVE  lapsed' = lapsed /\ \E b \in Bodies : done'[c] = done[c] \/ done'[c] = Append(done[c], b)
  BY <1>1, Zenon DEF Effect
<1>2. ASSUME done'[c] = done[c] PROVE \A b : Took(c, b) => Took(c, b)'
  BY <1>2, SMTT(60) DEF Took
<1>3. ASSUME NEW d \in Bodies, done'[c] = Append(done[c], d)
      PROVE  (\A b : Took(c, b) => Took(c, b)') /\ done'[c] # <<>>
  <2>1. done[c] \in Seq(Bodies)
    OBVIOUS
  <2> HIDE DEF TInv, TypeOK
  <2>2. /\ Len(done[c]) \in Nat /\ Len(done'[c]) = Len(done[c]) + 1
        /\ \A i \in 1..Len(done[c]) : done'[c][i] = done[c][i]
    BY <1>3, <2>1, Appended
  <2>3. \A i \in 1..Len(done[c]) : i \in 1..Len(done'[c])
    BY <2>2
  <2>4. done'[c] # <<>>
    BY <2>2, SMTT(60)
  <2> QED BY <2>2, <2>3, <2>4 DEF Took
<1>4. CASE \E a \in Attempts : Effect(a)
  BY <1>1, <1>2, <1>3, <1>4
<1>5. CASE done' = done /\ (lapsed' = lapsed \/ \E d \in Ids : lapsed' = [lapsed EXCEPT ![d] = @ + 1])
  <2>1. lapsed'[c] = 0 => lapsed[c] = 0
    BY <1>5
  <2> QED BY <1>2, <1>5, <2>1
<1>6. \/ \E a \in Attempts : Effect(a)
      \/ done' = done /\ lapsed' = lapsed
      \/ done' = done /\ \E d \in Ids : lapsed' = [lapsed EXCEPT ![d] = @ + 1]
  <2>1. ASSUME NEW a \in Attempts, Cancel(a)
        PROVE  done' = done /\ \E d \in Ids : lapsed' = [lapsed EXCEPT ![d] = @ + 1]
    BY <2>1, Zenon DEF Cancel
  <2>2. ASSUME NEW d \in Ids, PurgeStale(d) \/ PurgeCompleted(d)
        PROVE  done' = done /\ lapsed' = [lapsed EXCEPT ![d] = @ + 1]
    BY <2>2, SMTT(60) DEF PurgeStale, PurgeCompleted
  <2>3. ASSUME NEW a \in Attempts, (\E d \in Ids, b \in Bodies : Send(a, d, b)) \/ Claim(a) \/ Lookup(a)
                 \/ Raise(a) \/ Abandon(a) \/ Complete(a) \/ Crash(a)
        PROVE  done' = done /\ lapsed' = lapsed
    BY <2>3 DEF idle, Send, Claim, Lookup, Raise, Abandon, Complete, Crash
  <2>4. CASE UNCHANGED vars
    BY <2>4 DEF vars
  <2> QED BY <2>1, <2>2, <2>3, <2>4 DEF Next, Step
<1> QED BY <1>4, <1>5, <1>6

(* Who reports done has an effect that is there.                             *)
LEMMA NextDoneInv == TInv /\ DoneInv /\ [Next]_vars => DoneInv'
<1> SUFFICES ASSUME TInv, DoneInv, [Next]_vars, NEW a \in Attempts, pc'[a] = "done"
             PROVE  Took(cmd[a], body[a])'
  BY DEF DoneInv
<1> USE DEF TInv, TypeOK
<1>1. CASE Effect(a)
  <2>1. cmd[a] \in Ids /\ done[cmd[a]] \in Seq(Bodies) /\ body[a] \in Bodies
    BY <1>1 DEF Effect
  <2>2. done'[cmd[a]] = Append(done[cmd[a]], body[a]) /\ cmd' = cmd /\ body' = body
    BY <1>1, <2>1, Zenon DEF Effect
  <2>3. /\ Len(done[cmd[a]]) \in Nat /\ Len(done'[cmd[a]]) = Len(done[cmd[a]]) + 1
        /\ done'[cmd[a]][Len(done[cmd[a]]) + 1] = body[a]
    <3> HIDE DEF TInv, TypeOK
    <3> QED BY <2>1, <2>2, Appended
  <2>4. Len(done[cmd[a]]) + 1 \in 1..Len(done'[cmd[a]])
    BY <2>3
  <2> QED BY <2>2, <2>3, <2>4 DEF Took
<1>2. CASE ~Effect(a)
  <2>1. pc[a] = "done" /\ cmd'[a] = cmd[a] /\ body'[a] = body[a]
    BY <1>2, ZenonT(60) DEF Next, Step, vars, idle, Goto, Leave, Send, Claim, Lookup, Effect, Raise, Abandon,
                Complete, Cancel, Crash, PurgeStale, PurgeCompleted
  <2>2. cmd[a] \in Ids /\ Took(cmd[a], body[a])
    BY <2>1 DEF DoneInv
  <2>3. PICK c \in Ids, b \in Bodies : c = cmd[a] /\ b = body[a]
    BY <2>1
  <2>4. Took(c, b)'
    BY <2>2, <2>3, Grows, Zenon
  <2> QED BY <2>1, <2>3, <2>4, Zenon DEF Took
<1> QED BY <1>1, <1>2

(* A claim that succeeds leaves a pending row with the body of the attempt,  *)
LEMMA ClaimRow ==
  ASSUME Distinct, TInv, NEW a \in Attempts, Claim(a)
  PROVE  /\ UNCHANGED <<cmd, body, version, expected, done, lapsed, ok>>
         /\ \/ /\ row[cmd[a]] = None /\ pc' = [pc EXCEPT ![a] = "run"]
               /\ row'[cmd[a]] # None
               /\ row'[cmd[a]].hash = body[a] /\ row'[cmd[a]].result = FALSE
               /\ \A c \in Ids : c # cmd[a] => row'[c] = row[c]
            \/ row' = row /\ pc' = [pc EXCEPT ![a] = "lookup"]
<1> USE DEF TInv, TypeOK, Goto
<1>0. UNCHANGED <<cmd, body, version, expected, done, lapsed, ok>>
  BY SMTT(60) DEF Claim, idle
<1>1. CASE CanInsert(cmd[a])
  <2>1. cmd[a] \in Ids /\ body[a] \in Bodies
    BY Zenon DEF Claim
  <2>2. [hash |-> body[a], result |-> FALSE] \in Rows
    BY <2>1, Zenon DEF Rows
  <2>3. /\ row' = [row EXCEPT ![cmd[a]] = [hash |-> body[a], result |-> FALSE]]
        /\ pc' = [pc EXCEPT ![a] = "run"]
    BY <1>1, Zenon DEF Claim
  <2>4. row'[cmd[a]] = [hash |-> body[a], result |-> FALSE]
    BY <2>1, <2>3
  <2>5. row'[cmd[a]] # None
    BY <2>2, <2>4, Zenon DEF Distinct
  <2>6. row'[cmd[a]].hash = body[a] /\ row'[cmd[a]].result = FALSE
    BY <2>4
  <2>7. \A c \in Ids : c # cmd[a] => row'[c] = row[c]
    BY <2>1, <2>3, SMTT(60)
  <2> QED BY <1>0, <1>1, <2>3, <2>5, <2>6, <2>7, SMTT(60) DEF CanInsert
<1>2. CASE ~CanInsert(cmd[a])
  BY <1>0, <1>2, SMTT(60) DEF Claim
<1> QED BY <1>1, <1>2, Zenon

(* storing a result keeps the body of the row,                               *)
LEMMA CompleteRow ==
  ASSUME TInv, NEW a \in Attempts, Complete(a), NEW c \in Ids
  PROVE  /\ c # cmd[a] => row'[c] = row[c]
         /\ row[c] = None => row'[c] = None
         /\ row[c] # None => row'[c].hash = row[c].hash
<1> USE DEF TInv, TypeOK
<1>1. CASE row[cmd[a]] # None
  <2>1. row' = [row EXCEPT ![cmd[a]] = [hash |-> row[cmd[a]].hash, result |-> TRUE]]
    BY <1>1 DEF Complete, Completed
  <2>2. c # cmd[a] => row'[c] = row[c]
    BY <2>1
  <2>3. c = cmd[a] => row'[c] = [hash |-> row[c].hash, result |-> TRUE]
    BY <2>1
  <2>4. c = cmd[a] => row'[c].hash = row[c].hash
    BY <2>3
  <2> QED BY <1>1, <2>2, <2>4, Zenon
<1>2. CASE row[cmd[a]] = None
  BY <1>2 DEF Complete, Completed
<1> QED BY <1>1, <1>2

(* and abandoning removes it or leaves it alone.                             *)
LEMMA AbandonRow ==
  ASSUME TInv, NEW a \in Attempts, Abandon(a), NEW c \in Ids
  PROVE  /\ c # cmd[a] => row'[c] = row[c]
         /\ row'[c] = None \/ row'[c] = row[c]
BY DEF TInv, TypeOK, Abandon, Abandoned

(* A new holder finds no other one, and none loses its row to another's end. *)
LEMMA NextHoldInv ==
  ASSUME Distinct PROVE TInv /\ HoldInv /\ [Next]_vars => HoldInv'
<1> SUFFICES ASSUME TInv, HoldInv, [Next]_vars PROVE HoldInv'
  OBVIOUS
<1> DEFINE Stays(a) == /\ Holds(a) /\ cmd'[a] = cmd[a] /\ body'[a] = body[a]
                       /\ lapsed'[cmd[a]] = 0 => row'[cmd[a]] = row[cmd[a]]
<1>0. \A c \in Ids : lapsed'[c] = 0 => lapsed[c] = 0
  BY Grows
<1>a. \A a \in Attempts : Holds(a) => cmd[a] \in Ids
  BY Zenon DEF TInv, Holds
<1>b. ASSUME \A a \in Attempts : Holds(a)' => Stays(a) PROVE HoldInv'
  <2>1. ASSUME NEW a \in Attempts, Holds(a)', lapsed'[cmd'[a]] = 0
        PROVE  Pending(cmd[a], body[a])'
    <3>1. Stays(a) /\ cmd[a] \in Ids /\ lapsed[cmd[a]] = 0
      BY <1>0, <1>a, <1>b, <2>1, Zenon
    <3>2. Pending(cmd[a], body[a]) /\ row'[cmd[a]] = row[cmd[a]]
      BY <2>1, <3>1, Zenon DEF HoldInv
    <3> QED BY <3>1, <3>2, Zenon DEF Pending
  <2>2. ASSUME NEW a \in Attempts, NEW d \in Attempts,
               Holds(a)', Holds(d)', cmd'[a] = cmd'[d], lapsed'[cmd'[a]] = 0
        PROVE  a = d
    <3>1. Stays(a) /\ Stays(d) /\ cmd[a] \in Ids /\ lapsed[cmd[a]] = 0
      BY <1>0, <1>a, <1>b, <2>2, SMTT(60)
    <3> QED BY <2>2, <3>1, Zenon DEF HoldInv
  <2> QED BY <2>1, <2>2 DEF HoldInv
<1>c. ASSUME NEW a \in Attempts, NEW d \in Attempts, a # d, Holds(a), Holds(d),
             lapsed'[cmd[a]] = 0
      PROVE  cmd[a] # cmd[d]
  BY <1>0, <1>a, <1>c, SMTT(60) DEF HoldInv
<1> USE DEF TInv, TypeOK, Goto, Leave, Holds, idle
<1>1. ASSUME NEW a \in Attempts, NEW c \in Ids, NEW b \in Bodies, Send(a, c, b) PROVE HoldInv'
  BY <1>b, <1>1 DEF Send
<1>2. ASSUME NEW a \in Attempts, Claim(a) PROVE HoldInv'
  <2>0. UNCHANGED <<cmd, body, lapsed>> /\ cmd[a] \in Ids /\ pc[a] = "claim"
    BY <1>2, Zenon DEF Claim
  <2>1. CASE row' = row /\ pc' = [pc EXCEPT ![a] = "lookup"]
    BY <1>b, <2>0, <2>1, ZenonT(60)
  <2>2. CASE /\ row[cmd[a]] = None /\ pc' = [pc EXCEPT ![a] = "run"]
             /\ row'[cmd[a]] # None
             /\ row'[cmd[a]].hash = body[a] /\ row'[cmd[a]].result = FALSE
             /\ \A c \in Ids : c # cmd[a] => row'[c] = row[c]
    <3>1. \A d \in Attempts : Holds(d)' => d = a \/ Holds(d)
      BY <2>2, Zenon
    <3>2. ASSUME NEW d \in Attempts, Holds(d), lapsed[cmd[d]] = 0 PROVE cmd[d] # cmd[a]
      <4>1. Pending(cmd[d], body[d])
        BY <3>2, Zenon DEF HoldInv
      <4> QED BY <2>2, <4>1 DEF Pending
    <3>3. Pending(cmd[a], body[a])'
      BY <2>0, <2>2, Zenon DEF Pending
    <3>4. ASSUME NEW d \in Attempts, Holds(d), lapsed[cmd[d]] = 0
          PROVE  Pending(cmd[d], body[d])'
      <4>1. Pending(cmd[d], body[d]) /\ cmd[d] \in Ids /\ cmd[d] # cmd[a]
        BY <1>a, <3>2, <3>4 DEF HoldInv
      <4> QED BY <2>0, <2>2, <4>1, Zenon DEF Pending
    <3>5. \A d \in Attempts : Holds(d)' /\ lapsed'[cmd'[d]] = 0 => Pending(cmd[d], body[d])'
      BY <2>0, <3>1, <3>3, <3>4
    <3>6. ASSUME NEW d \in Attempts, NEW e \in Attempts, Holds(d)', Holds(e)',
                 cmd'[d] = cmd'[e], lapsed'[cmd'[d]] = 0
          PROVE  d = e
      <4>1. cmd[d] = cmd[e] /\ lapsed[cmd[d]] = 0
        BY <2>0, <3>6
      <4> HIDE DEF Holds, TInv, TypeOK
      <4>2. Holds(d) => cmd[d] # cmd[a]
        BY <3>2, <4>1
      <4>3. Holds(e) => cmd[e] # cmd[a]
        BY <3>2, <4>1
      <4>4. Holds(d) /\ Holds(e) => d = e
        BY <4>1 DEF HoldInv
      <4> QED BY <3>1, <3>6, <4>1, <4>2, <4>3, <4>4, Zenon
    <3> HIDE DEF Holds
    <3> QED BY <3>5, <3>6 DEF HoldInv
  <2> QED BY <1>2, <2>1, <2>2, ClaimRow, Zenon
<1>3. ASSUME NEW a \in Attempts, Lookup(a) PROVE HoldInv'
  BY <1>b, <1>3, SMTT(60) DEF Lookup
<1>4. ASSUME NEW a \in Attempts, Effect(a) PROVE HoldInv'
  BY <1>b, <1>4 DEF Effect
<1>5. ASSUME NEW a \in Attempts, Raise(a) PROVE HoldInv'
  BY <1>b, <1>5, Zenon DEF Raise
<1>6. ASSUME NEW a \in Attempts, Abandon(a) \/ Complete(a) PROVE HoldInv'
  <2>1. Leave(a) /\ Holds(a) /\ lapsed' = lapsed
    BY <1>6, Zenon DEF Abandon, Complete
  <2>2. ASSUME NEW d \in Attempts, Holds(d)' PROVE Stays(d)
    <3>1. d # a /\ Holds(d) /\ cmd'[d] = cmd[d] /\ body'[d] = body[d] /\ cmd[d] \in Ids
      BY <2>1, <2>2
    <3>2. lapsed'[cmd[d]] = 0 => cmd[d] # cmd[a]
      BY <1>c, <2>1, <3>1, Zenon
    <3>3. cmd[d] # cmd[a] => row'[cmd[d]] = row[cmd[d]]
      BY <1>6, <3>1, AbandonRow, CompleteRow, Zenon
    <3> QED BY <3>1, <3>2, <3>3
  <2> QED BY <1>b, <2>2
<1>7. ASSUME NEW a \in Attempts, Cancel(a) \/ Crash(a) PROVE HoldInv'
  BY <1>b, <1>7 DEF Cancel, Crash
<1>8. ASSUME NEW c \in Ids, PurgeStale(c) \/ PurgeCompleted(c) PROVE HoldInv'
  <2>1. /\ UNCHANGED <<pc, cmd, body>> /\ lapsed'[c] # 0
        /\ \A d \in Ids : d # c => row'[d] = row[d]
    BY <1>8 DEF PurgeStale, PurgeCompleted
  <2> QED BY <1>b, <2>1
<1>9. CASE UNCHANGED vars
  BY <1>b, <1>9, Zenon DEF vars
<1> QED
  BY <1>1, <1>2, <1>3, <1>4, <1>5, <1>6, <1>7, <1>8, <1>9, Zenon DEF Next, Step

(* A stored result is the result of an effect that is there.                 *)
LEMMA NextResultInv ==
  ASSUME Distinct PROVE TInv /\ DoneInv /\ HoldInv /\ ResultInv /\ [Next]_vars => ResultInv'
<1> SUFFICES ASSUME TInv, DoneInv, HoldInv, ResultInv, [Next]_vars,
                    NEW c \in Ids, Finished(c)'
             PROVE  done'[c] # <<>> /\ (lapsed'[c] = 0 => Took(c, row[c].hash)')
  BY DEF ResultInv
<1> DEFINE Goal == done'[c] # <<>> /\ (lapsed'[c] = 0 => Took(c, row[c].hash)')
<1>a. PICK h : h = row'[c].hash
  OBVIOUS
<1>b. ASSUME done[c] # <<>>, lapsed[c] = 0 => Took(c, h) PROVE Goal
  <2>1. done'[c] # <<>> /\ (lapsed'[c] = 0 => Took(c, h)')
    BY <1>b, Grows
  <2>2. Took(c, h)' => Took(c, row[c].hash)'
    BY <1>a, Zenon DEF Took
  <2> QED BY <2>1, <2>2, ZenonT(60)
<1>c. ASSUME row'[c] = row[c] PROVE Goal
  <2>1. Finished(c) /\ row[c].hash = h
    BY <1>a, <1>c, Zenon DEF Finished
  <2>2. done[c] # <<>> /\ (lapsed[c] = 0 => Took(c, row[c].hash))
    BY <2>1 DEF ResultInv
  <2> QED BY <1>b, <2>1, <2>2
<1>d. row'[c] # None
  BY DEF Finished
<1> HIDE DEF Goal
<1>1. ASSUME NEW a \in Attempts, Claim(a) PROVE Goal
  <2>1. CASE row' = row
    BY <1>c, <2>1
  <2>2. CASE /\ row'[cmd[a]].result = FALSE
             /\ \A d \in Ids : d # cmd[a] => row'[d] = row[d]
    <3>1. c # cmd[a]
      BY <2>2 DEF Finished
    <3> QED BY <1>c, <2>2, <3>1
  <2> QED BY <1>1, <2>1, <2>2, ClaimRow, Zenon
<1>2. ASSUME NEW a \in Attempts, Complete(a) PROVE Goal
  <2>1. CASE c # cmd[a]
    BY <1>2, <1>c, <2>1, CompleteRow
  <2>2. CASE c = cmd[a]
    <3>1. row[c] # None /\ row[c].hash = h
      BY <1>2, <1>a, <1>d, CompleteRow, Zenon
    <3>2. pc[a] = "done" /\ Took(c, body[a])
      BY <1>2, <2>2, Zenon DEF Complete, DoneInv
    <3>3. lapsed[c] = 0 => body[a] = h
      BY <2>2, <3>1, <3>2 DEF HoldInv, Holds, Pending
    <3>4. done[c] # <<>>
      BY <3>2 DEF Took
    <3>5. lapsed[c] = 0 => Took(c, h)
      BY <3>2, <3>3, Zenon
    <3> QED BY <1>b, <3>4, <3>5
  <2> QED BY <2>1, <2>2
<1>3. ASSUME NEW a \in Attempts, Abandon(a) PROVE Goal
  BY <1>3, <1>c, <1>d, AbandonRow, Zenon
<1>4. ASSUME NEW d \in Ids, PurgeStale(d) \/ PurgeCompleted(d) PROVE Goal
  <2>1. row'[c] = row[c]
    BY <1>4, <1>d DEF PurgeStale, PurgeCompleted, TInv, TypeOK
  <2> QED BY <1>c, <2>1, Zenon
<1>5. ASSUME row' = row PROVE Goal
  BY <1>5, <1>c, Zenon
<1>6. \/ row' = row
      \/ \E a \in Attempts : Claim(a) \/ Complete(a) \/ Abandon(a)
      \/ \E d \in Ids : PurgeStale(d) \/ PurgeCompleted(d)
  BY ZenonT(60) DEF Next, Step, vars, Send, Lookup, Effect, Raise, Cancel, Crash
<1> QED BY <1>1, <1>2, <1>3, <1>4, <1>5, <1>6, ZenonT(60) DEF Goal

(* Every success told to a client is an effect that is there.                *)
LEMMA NextSuccess ==
  TInv /\ DoneInv /\ ResultInv /\ SuccessIsTrue /\ [Next]_vars => SuccessIsTrue'
<1> SUFFICES ASSUME TInv, DoneInv, ResultInv, SuccessIsTrue, [Next]_vars,
                    NEW c \in Ids, NEW b \in ok'[c]
             PROVE  done'[c] # <<>> /\ (lapsed'[c] = 0 => Took(c, b)')
  BY DEF SuccessIsTrue, Took
<1> DEFINE Goal == done'[c] # <<>> /\ (lapsed'[c] = 0 => Took(c, b)')
<1>a. ASSUME done[c] # <<>>, lapsed[c] = 0 => Took(c, b) PROVE Goal
  BY <1>a, Grows
<1>b. ASSUME b \in ok[c] PROVE Goal
  BY <1>a, <1>b DEF SuccessIsTrue, Took
<1>c. ASSUME NEW a \in Attempts, pc[a] # "free", Answer(a) \/ UNCHANGED ok
      PROVE  b \in ok[c] \/ (c = cmd[a] /\ b = body[a])
  BY <1>c DEF Answer, TInv, TypeOK
<1> HIDE DEF Goal
<1>1. ASSUME NEW a \in Attempts, Lookup(a) PROVE Goal
  <2>1. CASE ~Replays(a)
    BY <1>1, <1>b, <2>1, ZenonT(60) DEF Lookup
  <2>2. CASE Replays(a)
    <3>1. pc[a] # "free" /\ Answer(a)
      BY <1>1, <2>2 DEF Lookup
    <3>2. ASSUME c = cmd[a], b = body[a] PROVE Goal
      <4>1. Finished(c) /\ row[c].hash = b
        BY <2>2, <3>2 DEF Replays, Finished
      <4> QED BY <1>a, <4>1, Zenon DEF ResultInv
    <3> QED BY <1>b, <1>c, <3>1, <3>2
  <2> QED BY <2>1, <2>2, Zenon
<1>2. ASSUME NEW a \in Attempts, Complete(a) PROVE Goal
  <2>1. pc[a] = "done" /\ (Answer(a) \/ UNCHANGED ok)
    BY <1>2 DEF Complete
  <2>2. ASSUME c = cmd[a], b = body[a] PROVE Goal
    <3>1. Took(c, b)
      BY <2>1, <2>2 DEF DoneInv
    <3>2. done[c] # <<>>
      BY <3>1 DEF Took
    <3> QED BY <1>a, <3>1, <3>2, Zenon
  <2> QED BY <1>b, <1>c, <2>1, <2>2
<1>3. ASSUME ok' = ok PROVE Goal
  BY <1>3, <1>b, Zenon
<1>4. ok' = ok \/ \E a \in Attempts : Lookup(a) \/ Complete(a)
  BY Zenon DEF Next, Step, vars, Send, Claim, Effect, Raise, Abandon, Cancel, Crash,
         PurgeStale, PurgeCompleted
<1> QED BY <1>1, <1>2, <1>3, <1>4, SMTT(60) DEF Goal

-----------------------------------------------------------------------------
(* However often clients repeat their commands, whatever is cancelled, dies  *)
(* or is purged: a command with a version guard takes effect at most once,   *)
(* any other at most once more per lapse, and a success answered to a client *)
(* is a committed effect, of that very body as long as nothing lapsed.       *)
THEOREM CommandsAreTrue ==
  ASSUME Distinct PROVE Spec => []CommandsTellTruth
<1> DEFINE AInv == TInv /\ GInv /\ CInv /\ SInv
<1>1. Init => AInv
  <2> SUFFICES ASSUME Init PROVE AInv
    BY Zenon
  <2>1. TInv
    BY DEF Init, TInv, TypeOK
  <2>2. GInv
    BY DEF Init, GInv, GuardedAtMostOnce, Distinct
  <2>3. \A c \in Ids : Busy(c) = {} /\ done[c] = <<>> /\ row[c] = None /\ lapsed[c] = 0
    BY ZenonT(60) DEF Init, Busy
  <2>4. CInv
    <3> SUFFICES ASSUME NEW c \in Ids
                 PROVE  /\ IsFiniteSet(Busy(c))
                        /\ Len(done[c]) + Cardinality(Busy(c)) + Place(c) <= 1 + lapsed[c]
      BY ZenonT(60) DEF CInv
    <3>1. IsFiniteSet(Busy(c)) /\ Cardinality(Busy(c)) = 0
      BY <2>3, FS_EmptySet, Zenon
    <3>2. Len(done[c]) = 0 /\ Place(c) = 1 /\ lapsed[c] = 0
      BY <2>3 DEF Place
    <3> QED BY <3>1, <3>2
  <2>5. SInv
    BY DEF Init, SInv, DoneInv, HoldInv, Holds, ResultInv, Finished, SuccessIsTrue
  <2> QED BY <2>1, <2>2, <2>4, <2>5
<1>2. AInv /\ [Next]_vars => AInv'
  BY NextTInv, NextGInv, NextCInv, NextDoneInv, NextHoldInv, NextResultInv, NextSuccess DEF SInv
<1>3. AInv => CommandsTellTruth
  <2> SUFFICES ASSUME AInv PROVE RepeatsAreLapses
    BY DEF CommandsTellTruth, GInv, SInv
  <2> SUFFICES ASSUME NEW c \in Ids PROVE Len(done[c]) <= 1 + lapsed[c]
    BY ZenonT(60) DEF RepeatsAreLapses
  <2>1. Len(done[c]) + Cardinality(Busy(c)) + Place(c) <= 1 + lapsed[c]
    BY DEF CInv
  <2>2. Cardinality(Busy(c)) \in Nat
    BY BusyCounts, Zenon
  <2>3. Place(c) \in Nat /\ Len(done[c]) \in Nat /\ lapsed[c] \in Nat
    BY DEF Place, TInv, TypeOK
  <2> HIDE DEF AInv
  <2> QED BY <2>1, <2>2, <2>3
<1> HIDE DEF AInv
<1> QED BY <1>1, <1>2, <1>3, PTL DEF Spec
=============================================================================
