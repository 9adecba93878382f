------------------------------- MODULE SignIn -------------------------------
(***************************************************************************)
(* Signing in to one local account: the password check with its lockout,   *)
(* the second factors (time codes, recovery codes, security keys), the     *)
(* policy that asks for one, the sessions it opens and the operations that *)
(* end them.  The statements of a request run on either node and           *)
(* interleave; a request's read and its commit are separate steps.  A      *)
(* password is its version number, a factor's secret its generation.       *)
(***************************************************************************)
EXTENDS Naturals, FiniteSets

CONSTANTS Requests,      \* request slots
          Uses,          \* the operations the slots perform
          MaxPassword,   \* bound: password versions
          MaxFailed,     \* settings.login_max_failed_attempts
          MaxSessions,   \* bound: sessions open at a time
          MaxSecret,     \* bound: time-code secrets ever enrolled
          MaxStep,       \* bound: time steps that pass
          MaxChallenge,  \* bound: challenges ever issued, by kind
          Keys           \* security keys the operator owns

VARIABLES cred, active, presence, totp, codes, keys, chal, policy, session,
          req, now, mark

vars == <<cred, active, presence, totp, codes, keys, chal, policy, session,
          req, now, mark>>

Idle == [at |-> "idle"]
Sids == 1..MaxSessions
Kinds == {"authenticate", "register"}
Step(n) == [kind |-> "step", gen |-> totp.gen, no |-> n]
Code == [kind |-> "code", gen |-> totp.gen, no |-> 0]
Chal(k, n) == [kind |-> k, gen |-> 0, no |-> n]

\* A row of the sessions table.  Revoked and expired rows are filtered out by
\* every reader: they count as none.
Session == [state : {"live"}, mfa : {"no", "fresh", "old"},
            pw : 1..MaxPassword, late : BOOLEAN, owed : BOOLEAN]
NoSession == [state |-> "none"]

Live(s) == session[s].state = "live"
LiveIds == {s \in Sids : Live(s)}

SignInInit ==
  /\ cred = [pw |-> 1, old |-> TRUE, failed |-> 0, lock |-> "none"]
  /\ active = TRUE
  /\ presence = "offline"
  /\ totp = [state |-> "none", gen |-> 0, last |-> 0, proven |-> 0, crossed |-> FALSE]
  /\ codes = {}
  /\ keys = {}
  /\ chal = [k \in Kinds |-> [rows |-> {}, next |-> 1]]
  /\ policy = [required |-> FALSE, grace |-> TRUE]
  /\ session = [s \in Sids |-> NoSession]
  /\ req = [r \in Requests |-> Idle]
  /\ now = 1
  /\ mark = [raced |-> FALSE, lost |-> FALSE, spent |-> {}, twice |-> {},
             shared |-> {}, torn |-> FALSE]

\* A request in flight: what it has read, the code or challenge it presents.
NoItem == [kind |-> "none", gen |-> 0, no |-> 0]
Unread == [pw |-> 0, old |-> FALSE, failed |-> 0, lock |-> "none"]
Begun(use, at, s) == [at |-> at, use |-> use, sid |-> s, pw |-> cred.pw, old |-> cred.old,
                      behind |-> FALSE, owed |-> FALSE, item |-> NoItem, seen |-> Unread,
                      rows |-> {}]
Go(r, m) == req' = [req EXCEPT ![r] = m]
Done(r) == Go(r, Idle)
\* Another request holds this code or challenge, read and not yet used up.
HeldElsewhere(r, i) == \E q \in Requests \ {r} : req[q].at \in {"record", "delete", "activate"} /\ req[q].item = i
MarkRead(r, i) == mark' = [mark EXCEPT !.shared = IF HeldElsewhere(r, i) THEN @ \cup {i} ELSE @]
Spend(m, i) == [m EXCEPT !.spent = @ \cup {i},
                         !.twice = IF i \in m.spent THEN @ \cup {i} ELSE @]
(***************************************************************************)
(* The password and the lockout.                                           *)
(***************************************************************************)
\* authenticate: the row is read and compared; a locked or a disabled
\* account, and a wrong password, end without a session.
Login(r, right) ==
  /\ "login" \in Uses /\ req[r] = Idle
  /\ cred.lock # "set" /\ active /\ (right \/ "mistype" \in Uses)
  /\ Go(r, IF right THEN Begun("login", "authed", 0) ELSE [at |-> "failed", seen |-> cred.failed])
  /\ UNCHANGED <<cred, active, presence, totp, codes, keys, chal, policy, session, now, mark>>

LockAfterLate(seen) == IF seen >= MaxFailed THEN "set" ELSE "none"   \* mutant
\* The lock a failed attempt writes, from the counter it has read.
LockAfter(seen) == IF seen + 1 >= MaxFailed THEN "set" ELSE "none"

\* The counter is incremented in the database, the lock is computed before.
RecordFailure(r) ==
  /\ req[r].at = "failed" /\ cred.failed <= MaxFailed
  /\ cred' = [cred EXCEPT !.failed = @ + 1, !.lock = LockAfter(req[r].seen)]
  /\ mark' = [mark EXCEPT !.raced = req[r].seen # cred.failed]
  /\ Done(r)
  /\ UNCHANGED <<active, presence, totp, codes, keys, chal, policy, session, now>>

ResetFailures(r) ==
  /\ req[r].at = "authed"
  /\ cred' = [cred EXCEPT !.failed = 0, !.lock = "none"]
  /\ mark' = [mark EXCEPT !.raced = FALSE]
  /\ Go(r, [req[r] EXCEPT !.at = IF req[r].old THEN "rehash" ELSE "inside"])
  /\ UNCHANGED <<active, presence, totp, codes, keys, chal, policy, session, now>>

\* A hash made with old parameters is written again from the password given.
UpdateHash(r) ==
  /\ req[r].at = "rehash"
  /\ cred' = [cred EXCEPT !.pw = req[r].pw, !.old = FALSE]
  /\ mark' = [mark EXCEPT !.lost = @ \/ req[r].behind]
  /\ Go(r, [req[r] EXCEPT !.at = "inside"])
  /\ UNCHANGED <<active, presence, totp, codes, keys, chal, policy, session, now>>

LockExpires ==
  /\ cred.lock = "set"
  /\ cred' = [cred EXCEPT !.lock = "past"]
  /\ UNCHANGED <<active, presence, totp, codes, keys, chal, policy, session, req, now, mark>>
(***************************************************************************)
(* The second factor.                                                      *)
(***************************************************************************)
TotpActive == totp.state = "active"
MfaSatisfied == TotpActive \/ keys # {}
\* _enforce_mfa_policy: required, not satisfied, and the grace period over.
Blocks(satisfied) == policy.required /\ ~satisfied /\ ~policy.grace

\* The gate of login: what the request supplies decides the way on; a factor
\* that exists and was not supplied is asked for, a security key first.
GatePasses(supplied) ==
  CASE Blocks(MfaSatisfied) -> "idle"
    [] ~Blocks(MfaSatisfied) /\ supplied = "key" /\ keys # {} -> "assert"
    [] ~Blocks(MfaSatisfied) /\ ~(supplied = "key" /\ keys # {}) /\ supplied = "code" /\ TotpActive -> "code"
    [] OTHER -> IF keys # {} THEN "stash" ELSE IF TotpActive THEN "idle" ELSE "open"

Gate(r, supplied) ==
  /\ req[r].at = "inside"
  /\ Go(r, IF GatePasses(supplied) = "idle" THEN Idle
           ELSE [req[r] EXCEPT !.at = GatePasses(supplied),
                               !.owed = MfaSatisfied \/ Blocks(MfaSatisfied)])
  /\ UNCHANGED <<cred, active, presence, totp, codes, keys, chal, policy, session, now, mark>>

\* step_up: a live session presents a code or an assertion again.
StepUp(r, s, supplied) ==
  /\ "stepup" \in Uses /\ req[r] = Idle /\ Live(s)
  /\ Go(r, Begun("stepup", IF supplied = "key" THEN "assert" ELSE "code", s))
  /\ UNCHANGED <<cred, active, presence, totp, codes, keys, chal, policy, session, now, mark>>

\* verify_code: a step next to the clock's that is later than the last used.
VerifyCode(n) == n \in {now - 1, now, now + 1} /\ n \in 1..MaxStep /\ n > totp.last

\* challenge: a time code that verifies, else an unused recovery code.
Challenge(r) ==
  /\ req[r].at = "code"
  /\ \/ \E i \in {Step(n) : n \in {m \in 1..MaxStep : TotpActive /\ VerifyCode(m)}}
               \cup {Code : c \in {g \in codes : TotpActive /\ g = totp.gen}} :
          Go(r, [req[r] EXCEPT !.at = "record", !.item = i]) /\ MarkRead(r, i)
     \/ Done(r) /\ UNCHANGED mark
  /\ UNCHANGED <<cred, active, presence, totp, codes, keys, chal, policy, session, now>>

\* Which way an accepted factor leads: a login opens its session, a step-up
\* stamps its own.
Accepted(r) == Go(r, [req[r] EXCEPT !.at = IF req[r].use = "login" THEN "open" ELSE "stamp"])

\* record_step and consume_recovery write by key, whatever the row says now.
\* A step written back below a later one leaves the later code usable again.
RecordStep(r) ==
  /\ req[r].at = "record"
  /\ LET i == req[r].item IN
     /\ totp' = IF i.kind = "step" /\ totp.state # "none" THEN [totp EXCEPT !.last = i.no] ELSE totp
     /\ codes' = IF i.kind = "code" THEN codes \ {i.gen} ELSE codes
     /\ mark' = Spend([mark EXCEPT !.shared = @ \cup
                   {Step(n) : n \in {m \in 1..MaxStep : i.kind = "step" /\ m > i.no /\ m <= totp.last}}], i)
  /\ Accepted(r)
  /\ UNCHANGED <<cred, active, presence, keys, chal, policy, session, now>>

\* _consume reads the one pending challenge: none, or two, and the request
\* fails.
ConsumeRead(r) ==
  /\ req[r].at = "assert"
  /\ LET k == IF req[r].use = "register" THEN "register" ELSE "authenticate" IN
     \/ /\ Cardinality(chal[k].rows) = 1
        /\ \E n \in chal[k].rows :
             Go(r, [req[r] EXCEPT !.at = "delete", !.item = Chal(k, n)]) /\ MarkRead(r, Chal(k, n))
     \/ Cardinality(chal[k].rows) # 1 /\ Done(r) /\ UNCHANGED mark
  /\ UNCHANGED <<cred, active, presence, totp, codes, keys, chal, policy, session, now>>

\* The row is deleted before the answer is verified; an expired challenge and
\* an answer that does not verify fail.  A registration adds its key.
ConsumeDelete(r, accepted) ==
  /\ req[r].at = "delete"
  /\ LET i == req[r].item IN
     /\ chal' = [chal EXCEPT ![i.kind].rows = @ \ {i.no}]
     /\ mark' = IF accepted THEN Spend(mark, i) ELSE mark
     /\ IF ~accepted THEN Done(r) /\ UNCHANGED keys
        ELSE IF req[r].use = "register"
        THEN \E k \in Keys \ keys : keys' = keys \cup {k} /\ Done(r)
        ELSE keys # {} /\ Accepted(r) /\ UNCHANGED keys
  /\ UNCHANGED <<cred, active, presence, totp, codes, policy, session, now>>

\* begin_registration and authenticate_options of a live session.
BeginCeremony(r, s, use) ==
  /\ use \in Uses /\ req[r] = Idle /\ Live(s)
  /\ use = "options" => keys # {}
  /\ Go(r, Begun(use, "stash", s))
  /\ UNCHANGED <<cred, active, presence, totp, codes, keys, chal, policy, session, now, mark>>
CompleteRegistration(r, s) ==
  /\ "register" \in Uses /\ req[r] = Idle /\ Live(s)
  /\ Go(r, Begun("register", "assert", s))
  /\ UNCHANGED <<cred, active, presence, totp, codes, keys, chal, policy, session, now, mark>>

\* _stash deletes the challenges it sees and inserts its own; the statements
\* of two requests may interleave, and then neither deletes the other's.
StashDelete(r) ==
  /\ req[r].at = "stash"
  /\ LET k == IF req[r].use = "register" THEN "register" ELSE "authenticate" IN
     Go(r, [req[r] EXCEPT !.at = "insert", !.item = Chal(k, 0), !.rows = chal[k].rows])
  /\ UNCHANGED <<cred, active, presence, totp, codes, keys, chal, policy, session, now, mark>>
StashInsert(r) ==
  /\ req[r].at = "insert"
  /\ LET k == req[r].item.kind IN
     /\ chal[k].next <= MaxChallenge[k]
     /\ mark' = [mark EXCEPT !.torn = @ \/ ~(chal[k].rows \subseteq req[r].rows)]
     /\ chal' = [chal EXCEPT ![k] = [rows |-> (@.rows \ req[r].rows) \cup {@.next}, next |-> @.next + 1]]
  /\ Done(r)
  /\ UNCHANGED <<cred, active, presence, totp, codes, keys, policy, session, now>>

\* Enrolment replaces the secret and the recovery codes and turns the factor
\* off until a code of the new secret is given.
Enrol(s) ==
  /\ Live(s) /\ totp.gen < MaxSecret
  /\ totp' = [state |-> "pending", gen |-> totp.gen + 1, last |-> 0, proven |-> totp.proven, crossed |-> FALSE]
  /\ codes' = {totp.gen + 1}
  /\ UNCHANGED <<cred, active, presence, keys, chal, policy, session, req, now, mark>>
Activate(r, s) ==
  /\ "activate" \in Uses /\ req[r] = Idle /\ Live(s) /\ totp.state = "pending"
  /\ \E n \in 1..MaxStep : VerifyCode(n) /\ MarkRead(r, Step(n))
                             /\ Go(r, [Begun("activate", "activate", s) EXCEPT !.item = Step(n)])
  /\ UNCHANGED <<cred, active, presence, totp, codes, keys, chal, policy, session, now>>
ActivateCommit(r) ==
  /\ req[r].at = "activate"
  /\ LET i == req[r].item IN
     /\ totp' = IF totp.state = "none" THEN totp
                ELSE [totp EXCEPT !.state = "active", !.last = i.no, !.proven = i.gen,
                                  !.crossed = i.gen # totp.gen]
     /\ mark' = [Spend(mark, i) EXCEPT !.shared = @ \cup
                   {Step(n) : n \in {m \in 1..MaxStep : m >= i.no /\ m <= totp.last}}]
  /\ Done(r)
  /\ UNCHANGED <<cred, active, presence, codes, keys, chal, policy, session, now>>
Disable(s) ==
  /\ Live(s) /\ totp.state # "none"
  /\ totp' = [totp EXCEPT !.state = "none", !.last = 0]
  /\ codes' = {}
  /\ UNCHANGED <<cred, active, presence, keys, chal, policy, session, req, now, mark>>
RemoveCredential(s, k) ==
  /\ Live(s) /\ k \in keys
  /\ keys' = keys \ {k}
  /\ UNCHANGED <<cred, active, presence, totp, codes, chal, policy, session, req, now, mark>>

\* Policies are written by a session whose second factor is fresh.
RequireStepup(s) == Live(s) /\ session[s].mfa = "fresh"
SetPolicy(s) ==
  /\ "policy" \in Uses /\ RequireStepup(s)
  /\ policy' = [required |-> TRUE, grace |-> TRUE]
  /\ UNCHANGED <<cred, active, presence, totp, codes, keys, chal, session, req, now, mark>>
DeletePolicy(s) ==
  /\ RequireStepup(s) /\ policy.required
  /\ policy' = [policy EXCEPT !.required = FALSE]
  /\ UNCHANGED <<cred, active, presence, totp, codes, keys, chal, session, req, now, mark>>
GraceEnds ==
  /\ policy.required /\ policy.grace
  /\ policy' = [policy EXCEPT !.grace = FALSE]
  /\ UNCHANGED <<cred, active, presence, totp, codes, keys, chal, session, req, now, mark>>
(***************************************************************************)
(* Sessions.                                                               *)
(***************************************************************************)
\* A new session has an id and a refresh token never used before; a factor given
\* at the sign-in counts as verified.
InUse == {req[q].sid : q \in {p \in Requests : req[p].at \notin {"idle", "failed"}}}
Start == {s \in Sids : session[s] = NoSession /\ s \notin InUse}
Create(m) == [state |-> "live", mfa |-> IF m.item = NoItem THEN "no" ELSE "fresh",
              pw |-> m.pw, late |-> m.behind, owed |-> m.owed]
IssueSession(r) ==
  /\ req[r].at = "open"
  /\ \E s \in Start : session' = [session EXCEPT ![s] = Create(req[r])]
  /\ Done(r)
  /\ UNCHANGED <<cred, active, presence, totp, codes, keys, chal, policy, now, mark>>
MarkMfaVerified(r) ==
  /\ req[r].at = "stamp"
  /\ session' = IF Live(req[r].sid) THEN [session EXCEPT ![req[r].sid].mfa = "fresh"] ELSE session
  /\ Done(r)
  /\ UNCHANGED <<cred, active, presence, totp, codes, keys, chal, policy, now, mark>>

\* What ends every session but one, and leaves the sign-ins under way behind.
Revoked(keep) == [s \in Sids |-> IF Live(s) /\ s # keep THEN NoSession ELSE session[s]]
Overtaken(r) == [q \in Requests |-> IF q = r THEN Idle
                 ELSE IF req[q].at \in {"idle", "failed"} THEN req[q] ELSE [req[q] EXCEPT !.behind = TRUE]]
\* The columns an assignment writes are those that differ from the row read.
Cleared(seen) == [cred EXCEPT !.failed = IF seen.failed = 0 THEN @ ELSE 0,
                              !.lock = IF seen.lock = "none" THEN @ ELSE "none"]

Moved(seen) == seen.failed # cred.failed \/ (seen.lock = "none") # (cred.lock = "none")

\* change_password by a live session that gives the current password.
ChangePassword(r, s) ==
  /\ "change" \in Uses /\ req[r] = Idle /\ Live(s)
  /\ Go(r, [Begun("change", "change", s) EXCEPT !.seen = cred])
  /\ UNCHANGED <<cred, active, presence, totp, codes, keys, chal, policy, session, now, mark>>
ChangeCommit(r) ==
  /\ req[r].at = "change" /\ cred.pw < MaxPassword
  /\ LET new == cred.pw + 1  s == req[r].sid IN
     /\ cred' = [Cleared(req[r].seen) EXCEPT !.pw = new, !.old = FALSE]
     /\ session' = IF Live(s) THEN [Revoked(s) EXCEPT ![s].pw = new] ELSE Revoked(s)
     /\ mark' = [mark EXCEPT !.raced = Moved(req[r].seen)]
  /\ req' = Overtaken(r)
  /\ UNCHANGED <<active, presence, totp, codes, keys, chal, policy, now>>

\* The administrator's reset, and (de)activation: the row is read, then the
\* change and the revocation of the sessions are committed together.
Administer(r, use) ==
  /\ use \in Uses /\ use \in {"reset", "deactivate", "reactivate"} /\ req[r] = Idle
  /\ Go(r, [Begun(use, use, 0) EXCEPT !.seen = cred])
  /\ UNCHANGED <<cred, active, presence, totp, codes, keys, chal, policy, session, now, mark>>
ResetPassword(r) ==
  /\ req[r].at = "reset" /\ cred.pw < MaxPassword
  /\ cred' = [Cleared(req[r].seen) EXCEPT !.pw = cred.pw + 1, !.old = FALSE]
  /\ mark' = [mark EXCEPT !.raced = Moved(req[r].seen)]
  /\ session' = Revoked(0) /\ req' = Overtaken(r)
  /\ UNCHANGED <<active, presence, totp, codes, keys, chal, policy, now>>
SetActive(r) ==
  /\ req[r].at \in {"deactivate", "reactivate"}
  /\ active' = (req[r].at = "reactivate")
  /\ IF active' THEN Done(r) /\ UNCHANGED session ELSE session' = Revoked(0) /\ req' = Overtaken(r)
  /\ UNCHANGED <<cred, presence, totp, codes, keys, chal, policy, now, mark>>

RevokeByRefresh(s) == [session EXCEPT ![s] = NoSession]
Logout(s) ==
  /\ Live(s)
  /\ session' = RevokeByRefresh(s)
  /\ UNCHANGED <<cred, active, presence, totp, codes, keys, chal, policy, req, now, mark>>
SessionExpires(s) ==
  /\ Live(s)
  /\ session' = [session EXCEPT ![s] = NoSession]
  /\ UNCHANGED <<cred, active, presence, totp, codes, keys, chal, policy, req, now, mark>>
\* A time step passes; a verification older than the limit no longer counts.
Tick ==
  /\ now < MaxStep
  /\ now' = now + 1
  /\ session' = [s \in Sids |-> IF Live(s) /\ session[s].mfa = "fresh"
                                THEN [session[s] EXCEPT !.mfa = "old"] ELSE session[s]]
  /\ UNCHANGED <<cred, active, presence, totp, codes, keys, chal, policy, req, mark>>

SetPresence(s, state) ==
  /\ "presence" \in Uses /\ Live(s) /\ presence # state
  /\ presence' = state
  /\ UNCHANGED <<cred, active, totp, codes, keys, chal, policy, session, req, now, mark>>
\* The roster shows the stored state of an account with a live session.
Effective == IF LiveIds # {} THEN presence ELSE "offline"

SignInNext ==
  \/ \E r \in Requests : \/ \E right \in BOOLEAN : Login(r, right)
                         \/ RecordFailure(r) \/ ResetFailures(r) \/ UpdateHash(r)
                         \/ \E supplied \in {"none", "code", "key"} : Gate(r, supplied)
                         \/ Challenge(r) \/ RecordStep(r)
                         \/ ConsumeRead(r) \/ \E a \in BOOLEAN : ConsumeDelete(r, a)
                         \/ StashDelete(r) \/ StashInsert(r)
                         \/ ActivateCommit(r) \/ IssueSession(r) \/ MarkMfaVerified(r)
                         \/ ChangeCommit(r) \/ ResetPassword(r) \/ SetActive(r)
                         \/ \E use \in Uses : Administer(r, use)
  \/ \E r \in Requests, s \in Sids :
       \/ \E supplied \in {"code", "key"} : StepUp(r, s, supplied)
       \/ \E use \in {"register", "options"} : BeginCeremony(r, s, use)
       \/ CompleteRegistration(r, s) \/ Activate(r, s) \/ ChangePassword(r, s)
  \/ \E s \in Sids : \/ Enrol(s) \/ Disable(s) \/ SetPolicy(s) \/ DeletePolicy(s)
                     \/ Logout(s) \/ SessionExpires(s)
                     \/ \E k \in Keys : RemoveCredential(s, k)
                     \/ SetPresence(s, "available")
  \/ LockExpires \/ GraceEnds \/ Tick
-----------------------------------------------------------------------------
SignInTypeOK ==
  /\ cred \in [pw : 1..MaxPassword, old : BOOLEAN, failed : 0..(MaxFailed + 1), lock : {"none", "set", "past"}]
  /\ active \in BOOLEAN /\ presence \in {"offline", "available", "pause"}
  /\ totp.state \in {"none", "pending", "active"} /\ codes \subseteq 1..MaxSecret /\ keys \subseteq Keys
  /\ session \in [Sids -> Session \cup {NoSession}]

\* The lock is set exactly from the attempt that reaches the limit on: an
\* account is not locked earlier and no later attempt goes uncounted, unless
\* two attempts overlapped and the last one wrote what it had computed from a
\* counter that has moved since (LocalAuthService.authenticate).
AttemptsAreCounted == mark.raced \/ (cred.lock # "none" <=> cred.failed >= MaxFailed)

\* A time code, a recovery code or a challenge is accepted once, unless two
\* requests had read it at the same time; a sign-in whose account has a factor
\* opens no session without it; an active time-code factor was proven with a
\* code of the secret it holds, unless the proof overlapped an enrolment.
FactorsAreHonoured ==
  /\ mark.twice \subseteq mark.shared
  /\ \A s \in LiveIds : session[s].owed => session[s].mfa # "no"
  /\ TotpActive => totp.proven = totp.gen \/ totp.crossed
  /\ Cardinality(chal["authenticate"].rows) > 1 \/ Cardinality(chal["register"].rows) > 1 => mark.torn

\* A live session was opened with the password the account has, and a
\* deactivated account has none and shows as offline: changing or resetting a
\* password and deactivating the account end every session opened before.  The
\* exceptions are a sign-in under way at that moment and a change that a
\* sign-in's rehash has overwritten.
SessionsFollowAccount ==
  /\ ~mark.lost => \A s \in LiveIds : session[s].pw = cred.pw \/ session[s].late
  /\ ~active => (\A s \in LiveIds : session[s].late) /\ (LiveIds = {} => Effective = "offline")
=============================================================================
