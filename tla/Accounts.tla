------------------------------ MODULE Accounts ------------------------------
(***************************************************************************)
(* The identities of accounts: an account signs in through any identity    *)
(* linked to it (a local name, a directory entry, an identity at the       *)
(* OpenID provider).  Accounts are created by an administrator or on the   *)
(* first external sign-in; identities are linked and unlinked by their     *)
(* owner.  An OpenID sign-in or link leaves a flow row behind, goes to the *)
(* provider, and comes back to read the row, delete it, and only then use  *)
(* it.  A check is a read; the commit it guards is a step of its own.      *)
(***************************************************************************)
EXTENDS Naturals, FiniteSets

CONSTANTS Users,     \* account ids; 1 is the only administrator's
          Subjects,  \* names at a provider
          Flows,     \* bound: OpenID flows ever started
          Requests,  \* request slots
          Jit        \* settings.oidc_jit_provisioning, ldap_jit_provisioning

VARIABLES user,      \* accounts that exist
          identity,  \* rows of auth_identities
          flow,      \* rows of oidc_login_flows, and what became of each
          asked,     \* requests under way
          had,       \* accounts that ever had an identity
          crossed    \* accounts two of whose changes overlapped

idvars == <<user, identity, flow, asked, had, crossed>>

Provider == {"local", "ldap_ad", "entra_oidc"}
AuthIdentity == [user : Users, provider : Provider, subject : Subjects]
Identity(u, p, s) == [user |-> u, provider |-> p, subject |-> s]
OidcLoginFlow == [row : {"none", "live", "gone"}, link : {0} \cup Users, uses : 0..2, shared : BOOLEAN]
Unstarted == [row |-> "none", link |-> 0, uses |-> 0, shared |-> FALSE]
Idle == [at |-> "idle"]

Of(u) == {i \in identity : i.user = u}
Having(p, s) == {i \in identity : i.provider = p /\ i.subject = s}
IsLastActiveAdmin(u) == u = 1

AccountsInit ==
  \E s \in Subjects :
    /\ user = {1} /\ had = {1}
    /\ identity = {Identity(1, "local", s)}
    /\ flow = [f \in Flows |-> Unstarted]
    /\ asked = [r \in Requests |-> Idle]
    /\ crossed = {}

\* r goes on as m; a change of u that begins while another is under way
\* crosses it.
Now(r, m) == asked' = [asked EXCEPT ![r] = m]
Changing(u) == {r \in Requests : asked[r].at \in {"link", "unlink"} /\ asked[r].user = u}
Change(r, u, m) ==
  /\ Now(r, m)
  /\ crossed' = IF Changing(u) \ {r} = {} THEN crossed ELSE crossed \cup {u}
  /\ UNCHANGED <<user, identity, had>>
Insert(i) == identity' = identity \cup {i} /\ had' = had \cup {i.user}

-----------------------------------------------------------------------------
(* Linking and unlinking.                                                  *)

EnsureNoProvider(u, p) == ~\E i \in Of(u) : i.provider = p
EnsureSubjectFree(p, s) == Having(p, s) = {}

\* mutant: only the name is checked
BeginLinkNamed(r, u, p, s) ==
  /\ EnsureSubjectFree(p, s)
  /\ Change(r, u, [at |-> "link", user |-> u, provider |-> p, subject |-> s])
BeginLink(r, u, p, s) ==
  /\ EnsureNoProvider(u, p) /\ EnsureSubjectFree(p, s)
  /\ Change(r, u, [at |-> "link", user |-> u, provider |-> p, subject |-> s])

LinkLocal(r, u, s) == asked[r] = Idle /\ u \in user /\ BeginLink(r, u, "local", s) /\ UNCHANGED flow
\* The directory has accepted the name and the password.
LinkLdap(r, u, s) == asked[r] = Idle /\ u \in user /\ BeginLink(r, u, "ldap_ad", s) /\ UNCHANGED flow

\* The insert: the unique constraint refuses a name taken since the check.
\* Nothing but the check keeps an account from two identities of a provider.
LinkCommit(r) ==
  /\ asked[r].at = "link"
  /\ LET i == Identity(asked[r].user, asked[r].provider, asked[r].subject) IN
     IF EnsureSubjectFree(i.provider, i.subject) THEN Insert(i) ELSE UNCHANGED <<identity, had>>
  /\ Now(r, Idle)
  /\ UNCHANGED <<user, flow, crossed>>

UnlinkIdentity(r, i) ==
  /\ asked[r] = Idle
  /\ i \in identity
  /\ Cardinality(Of(i.user)) > 1
  /\ ~IsLastActiveAdmin(i.user)
  /\ Change(r, i.user, [at |-> "unlink", user |-> i.user, id |-> i])
  /\ UNCHANGED flow

Unlink(r) ==
  /\ asked[r].at = "unlink"
  /\ identity' = identity \ {asked[r].id}
  /\ Now(r, Idle)
  /\ UNCHANGED <<user, flow, had, crossed>>

-----------------------------------------------------------------------------
(* Accounts made by an administrator, or at a first external sign-in.      *)

NewAccount(u) == u \notin user /\ user' = user \cup {u}

\* The name is looked up and inserted in one transaction; the flush fails on
\* the constraint when it was taken in between.
CreateUser(u, names) ==
  /\ NewAccount(u)
  /\ \A s \in names : EnsureSubjectFree("local", s)
  /\ identity' = identity \cup {Identity(u, "local", s) : s \in names}
  /\ had' = IF names = {} THEN had ELSE had \cup {u}
  /\ UNCHANGED <<flow, asked, crossed>>

\* A principal the provider vouches for: an account is found, made, or the
\* sign-in is refused.
ResolveUser(r, p, s, used) ==
  /\ IF Having(p, s) # {}
     THEN Now(r, Idle) /\ used
     ELSE IF Jit THEN Now(r, [at |-> "make", provider |-> p, subject |-> s]) /\ used
     ELSE Now(r, Idle) /\ UNCHANGED flow
  /\ UNCHANGED <<user, identity, had, crossed>>

\* The insert of the account and its identity; fails when a second request
\* has made it, and the account with it.
MakeUser(r, u) ==
  /\ asked[r].at = "make"
  /\ IF EnsureSubjectFree(asked[r].provider, asked[r].subject)
     THEN NewAccount(u) /\ Insert(Identity(u, asked[r].provider, asked[r].subject))
     ELSE UNCHANGED <<user, identity, had>>
  /\ Now(r, Idle)
  /\ UNCHANGED <<flow, crossed>>

\* Tried after the local password; the directory has accepted the bind.
TryLdapLogin(r, s) == asked[r] = Idle /\ ResolveUser(r, "ldap_ad", s, UNCHANGED flow)

-----------------------------------------------------------------------------
(* The OpenID flow.                                                        *)

\* The row is stored before the browser is sent away.
BeginFlow(f, u) ==
  /\ flow[f] = Unstarted
  /\ flow' = [flow EXCEPT ![f].row = "live", ![f].link = u]
  /\ UNCHANGED <<user, identity, asked, had, crossed>>
OidcStart(f) == BeginFlow(f, 0)
LinkOidcStart(f, u) == u \in user /\ BeginFlow(f, u)

Reading(f) == {r \in Requests : asked[r].at = "read" /\ asked[r].flow = f}

\* _consume_flow, the read: for is 0 for a sign-in, the caller for a link.
ConsumeRead(r, f, for) ==
  /\ asked[r] = Idle /\ flow[f].row = "live"
  /\ Now(r, [at |-> "read", flow |-> f, for |-> for])
  /\ flow' = [flow EXCEPT ![f].shared = @ \/ Reading(f) # {}]
  /\ UNCHANGED <<user, identity, had, crossed>>
OidcCallback(r, f) == ConsumeRead(r, f, 0)
LinkOidcCallback(r, f, u) == u \in user /\ ConsumeRead(r, f, u)

\* The delete, whether the row is still there or not; an expired row is
\* refused after it.
ConsumeFlow(r) ==
  /\ asked[r].at = "read"
  /\ flow' = [flow EXCEPT ![asked[r].flow].row = "gone"]
  /\ \/ Now(r, [asked[r] EXCEPT !.at = "used"])
     \/ Now(r, Idle)
  /\ UNCHANGED <<user, identity, had, crossed>>

Used(f) == flow' = [flow EXCEPT ![f].uses = @ + 1]

\* The exchange and the token check fail, or name the principal.
Complete(r, s) ==
  /\ asked[r].at = "used" /\ asked[r].for = 0
  /\ ResolveUser(r, "entra_oidc", s, Used(asked[r].flow))
\* A flow started for another account, or for none, is refused.
CompleteLink(r, s) ==
  /\ asked[r].at = "used" /\ asked[r].for # 0
  /\ flow[asked[r].flow].link = asked[r].for
  /\ BeginLink(r, asked[r].for, "entra_oidc", s)
  /\ Used(asked[r].flow)
FlowFails(r) ==
  /\ asked[r].at = "used"
  /\ Now(r, Idle)
  /\ UNCHANGED <<user, identity, flow, had, crossed>>

AccountsNext ==
  \/ \E f \in Flows : OidcStart(f)
  \/ \E f \in Flows, u \in Users : LinkOidcStart(f, u)
  \/ \E u \in Users, names \in {{}} \cup {{s} : s \in Subjects} : CreateUser(u, names)
  \/ \E r \in Requests :
       \/ \E u \in Users, s \in Subjects : LinkLocal(r, u, s) \/ LinkLdap(r, u, s)
       \/ \E i \in identity : UnlinkIdentity(r, i)
       \/ \E s \in Subjects : TryLdapLogin(r, s) \/ Complete(r, s) \/ CompleteLink(r, s)
       \/ \E f \in Flows : OidcCallback(r, f)
       \/ \E f \in Flows, u \in Users : LinkOidcCallback(r, f, u)
       \/ \E u \in Users : MakeUser(r, u)
       \/ LinkCommit(r) \/ Unlink(r) \/ ConsumeFlow(r) \/ FlowFails(r)

-----------------------------------------------------------------------------
\* The rows and the requests have the shape the code gives them.
AccountsTypeOK ==
  /\ user \subseteq Users /\ had \subseteq user /\ crossed \subseteq user
  /\ identity \subseteq AuthIdentity
  /\ flow \in [Flows -> OidcLoginFlow]

\* unlink refuses an account's only identity and linking refuses a second one
\* of a provider: an account that ever had a way to sign in keeps one, with at
\* most one per provider, unless two of its own changes overlapped; a name at
\* a provider belongs to one account whatever overlaps.
AccountsReachable ==
  /\ \A u \in had \ crossed :
       /\ Of(u) # {}
       /\ \A i, j \in Of(u) : i.provider = j.provider => i = j
  /\ \A i, j \in identity : (i.provider = j.provider /\ i.subject = j.subject) => i = j

\* "single-use: the row is gone before anything else" (_consume_flow): a flow
\* signs in or links once, unless two callbacks had read its row before either
\* deleted it.
FlowsFinishOnce == \A f \in Flows : flow[f].uses <= 1 \/ flow[f].shared
=============================================================================
