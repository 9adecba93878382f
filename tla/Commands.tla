------------------------------ MODULE Commands ------------------------------
(***************************************************************************)
(* Command deduplication (server/bbz_core/infra/idempotency.py) around the *)
(* bodies that use it: creates, which run unguarded, and commands guarded  *)
(* by an expected version. A client may send one X-Command-Id several      *)
(* times, at once or after a lost answer; every sending is an attempt with *)
(* its own database session. The claim, the body's transaction and the     *)
(* completion commit separately.                                           *)
(***************************************************************************)
EXTENDS Naturals, Sequences

CONSTANTS
  Ids,           \* command ids
  Guarded,       \* the ids whose body checks an expected version
  Bodies,        \* request bodies, as far as request_hash tells them apart
  Attempts,      \* requests in flight
  MaxSends,      \* bound: how often clients send
  MaxFaults,     \* bound: crashes and cancellations
  Housekeeping,  \* TRUE when something calls purge_stale
  None           \* no row, no result, no attempt

VARIABLES
  row,       \* the commands row of an id: body hash and whether it has a result
  pc,        \* where an attempt is
  cmd,       \* cmd[a] and body[a]: what attempt a carries
  body,
  version,   \* version of the aggregate the guarded commands address
  expected,  \* the expected version sent with a guarded id, None before
  done,      \* done[c]: bodies whose effect committed under id c, in order
  ok,        \* ok[c]: bodies a client has got a success answer for
  lapsed,    \* lapsed[c]: committed effects whose row was dropped unfinished
  sends, faults

vars == <<row, pc, cmd, body, version, expected, done, ok, lapsed, sends, faults>>
idle == <<version, expected, done, lapsed>>

Rows == [hash : Bodies, result : BOOLEAN]

TypeOK ==
  /\ row \in [Ids -> Rows \cup {None}]
  /\ pc \in [Attempts -> {"free", "claim", "lookup", "run", "done", "abandon"}]
  /\ cmd \in [Attempts -> Ids \cup {None}]
  /\ body \in [Attempts -> Bodies \cup {None}]
  /\ version \in Nat
  /\ expected \in [Ids -> Nat \cup {None}]
  /\ done \in [Ids -> Seq(Bodies)]
  /\ ok \in [Ids -> SUBSET Bodies]
  /\ lapsed \in [Ids -> Nat]
  /\ sends \in Nat /\ faults \in Nat

Init ==
  /\ row = [c \in Ids |-> None]
  /\ pc = [a \in Attempts |-> "free"]
  /\ cmd = [a \in Attempts |-> None] /\ body = [a \in Attempts |-> None]
  /\ version = 1 /\ expected = [c \in Ids |-> None]
  /\ done = [c \in Ids |-> <<>>] /\ ok = [c \in Ids |-> {}]
  /\ lapsed = [c \in Ids |-> 0]
  /\ sends = 0 /\ faults = 0

-----------------------------------------------------------------------------
Goto(a, l) == pc' = [pc EXCEPT ![a] = l]

(* The attempt is over; its session and its request go away.                 *)
Leave(a) ==
  /\ Goto(a, "free")
  /\ cmd' = [cmd EXCEPT ![a] = None]
  /\ body' = [body EXCEPT ![a] = None]

Answer(a) == ok' = [ok EXCEPT ![cmd[a]] = @ \cup {body[a]}]

(* A client sends id c with body b: the first time with the version it sees, *)
(* later with the same header.                                               *)
Send(a, c, b) ==
  /\ pc[a] = "free" /\ sends < MaxSends
  /\ sends' = sends + 1
  /\ Goto(a, "claim")
  /\ cmd' = [cmd EXCEPT ![a] = c]
  /\ body' = [body EXCEPT ![a] = b]
  /\ expected' = IF expected[c] = None THEN [expected EXCEPT ![c] = version] ELSE expected
  /\ UNCHANGED <<row, version, done, ok, lapsed, faults>>

(* claim: INSERT ... ON CONFLICT DO NOTHING and its commit ...               *)
CanInsert(c) == row[c] = None

Claim(a) ==
  /\ pc[a] = "claim"
  /\ IF CanInsert(cmd[a])
     THEN /\ row' = [row EXCEPT ![cmd[a]] = [hash |-> body[a], result |-> FALSE]]
          /\ Goto(a, "run")
     ELSE /\ Goto(a, "lookup")
          /\ UNCHANGED row
  /\ UNCHANGED <<cmd, body, idle, ok, sends, faults>>

(* ... then, in another statement, the row that was in the way: gone (an     *)
(* error), another body (conflict), unfinished (in progress) or a result to  *)
(* replay. Only the last one is a success.                                   *)
Replays(a) ==
  /\ row[cmd[a]] # None
  /\ row[cmd[a]].hash = body[a]
  /\ row[cmd[a]].result

Lookup(a) ==
  /\ pc[a] = "lookup"
  /\ Leave(a)
  /\ IF Replays(a) THEN Answer(a) ELSE UNCHANGED ok
  /\ UNCHANGED <<row, idle, sends, faults>>

(* The guarded UPDATE ... WHERE version = expected of the body.              *)
VersionIgnored(c) == TRUE                                            \* mutant
VersionMatches(c) == c \in Guarded => version = expected[c]

(* The body of idempotent(): its transaction commits the effect ...          *)
Effect(a) ==
  /\ pc[a] = "run" /\ VersionMatches(cmd[a])
  /\ done' = [done EXCEPT ![cmd[a]] = Append(@, body[a])]
  /\ version' = IF cmd[a] \in Guarded THEN version + 1 ELSE version
  /\ Goto(a, "done")
  /\ UNCHANGED <<row, cmd, body, expected, ok, lapsed, sends, faults>>

(* ... or the body raises: a stale version, a domain error.                  *)
Raise(a) ==
  /\ pc[a] = "run"
  /\ Goto(a, "abandon")
  /\ UNCHANGED <<row, cmd, body, idle, ok, sends, faults>>

(* The request is cancelled at the await that follows the commit            *)
(* (notify_event_appended): the effect stays, the body still raises.         *)
Cancel(a) ==
  /\ pc[a] = "done" /\ faults < MaxFaults
  /\ faults' = faults + 1
  /\ lapsed' = [lapsed EXCEPT ![cmd[a]] = @ + 1]
  /\ Goto(a, "abandon")
  /\ UNCHANGED <<row, cmd, body, version, expected, done, ok, sends>>

(* abandon: DELETE ... WHERE result_status IS NULL.                          *)
Abandoned(a) ==
  IF row[cmd[a]] # None /\ ~row[cmd[a]].result THEN [row EXCEPT ![cmd[a]] = None] ELSE row

Abandon(a) ==
  /\ pc[a] = "abandon"
  /\ row' = Abandoned(a)
  /\ Leave(a)
  /\ UNCHANGED <<idle, ok, sends, faults>>

(* complete: the row gets the result; scalar_one raises if it was purged.    *)
Completed(a) ==
  IF row[cmd[a]] # None
  THEN [row EXCEPT ![cmd[a]] = [hash |-> @.hash, result |-> TRUE]] ELSE row

Complete(a) ==
  /\ pc[a] = "done"
  /\ row' = Completed(a)
  /\ Leave(a)
  /\ IF row[cmd[a]] # None THEN Answer(a) ELSE UNCHANGED ok
  /\ UNCHANGED <<idle, sends, faults>>

(* The node dies under the attempt; its row stays as it is.                  *)
Crash(a) ==
  /\ pc[a] \notin {"free", "claim"} /\ faults < MaxFaults
  /\ faults' = faults + 1
  /\ Leave(a)
  /\ UNCHANGED <<row, idle, ok, sends>>

(* purge_stale: a pending row past the cutoff is deleted, whether its        *)
(* attempt is dead or only slow. purge_completed forgets a finished one.     *)
PurgeStale(c) ==
  /\ Housekeeping /\ row[c] # None /\ ~row[c].result
  /\ row' = [row EXCEPT ![c] = None]
  /\ lapsed' = [lapsed EXCEPT ![c] = @ + 1]
  /\ UNCHANGED <<pc, cmd, body, version, expected, done, ok, sends, faults>>

PurgeCompleted(c) ==
  /\ Housekeeping /\ row[c] # None /\ row[c].result
  /\ row' = [row EXCEPT ![c] = None]
  /\ lapsed' = [lapsed EXCEPT ![c] = @ + 1]
  /\ UNCHANGED <<pc, cmd, body, version, expected, done, ok, sends, faults>>

Step(a) ==
  \/ Claim(a) \/ Lookup(a) \/ Effect(a) \/ Raise(a) \/ Abandon(a) \/ Complete(a)

Next ==
  \/ \E a \in Attempts, c \in Ids, b \in Bodies : Send(a, c, b)
  \/ \E a \in Attempts : Step(a) \/ Cancel(a) \/ Crash(a)
  \/ \E c \in Ids : PurgeStale(c) \/ PurgeCompleted(c)

Spec == Init /\ [][Next]_vars

-----------------------------------------------------------------------------
(* A command guarded by a version takes effect at most once, even when the   *)
(* bookkeeping row is purged under a running attempt, abandoned after the    *)
(* commit or left by a crash: the second run finds the version moved on.     *)
GuardedAtMostOnce == \A c \in Guarded : Len(done[c]) <= 1

(* A create repeats only if its row was dropped: every effect beyond the     *)
(* first is accounted for by a cancellation after the commit or by a purge.  *)
RepeatsAreLapses == \A c \in Ids : Len(done[c]) <= 1 + lapsed[c]

(* A success answer, fresh or replayed, tells the truth: the effect of that  *)
(* very body has committed under that id (unless purges mixed two bodies).   *)
SuccessIsTrue ==
  \A c \in Ids : \A b \in ok[c] :
    /\ done[c] # <<>>
    /\ lapsed[c] = 0 => \E i \in 1..Len(done[c]) : done[c][i] = b

(* What deduplication promises a client that repeats its commands.           *)
CommandsTellTruth == GuardedAtMostOnce /\ RepeatsAreLapses /\ SuccessIsTrue
=============================================================================
