---------------------------- MODULE DirectorySync ----------------------------
(***************************************************************************)
(* The directory synchronisation (the worker's tick and the administrator's *)
(* button, which may overlap): enumerate the directory, load the accounts  *)
(* linked to it, provision the new ones in one transaction, disable the    *)
(* vanished ones in a transaction each, reconcile the present ones one by  *)
(* one, record the result.  Meanwhile people sign in, which provisions an  *)
(* account by itself, and administrators switch accounts on and off.  A    *)
(* dry run only reads and is left out.                                     *)
(***************************************************************************)
EXTENDS FiniteSets, Naturals

CONSTANTS
  Uids,              \* accounts of the directory
  Runs,              \* the worker's tick and the administrators' requests
  MaxDeactivations   \* settings.ldap_sync_max_deactivations

VARIABLES
  dir,      \* accounts in the directory now (external)
  account,  \* status of the users row linked to the account, "none" without one
  live,     \* users with a session that is not revoked
  sync,     \* the runs under way
  state,    \* the row of directory_sync_state
  quiet     \* auxiliary: nothing changed from outside since that run listed, and
            \* no run with an older listing wrote anything after it

dvars == <<dir, account, live, sync, state, quiet>>

Off == [at |-> "off"]
Statuses == {"none", "active", "disabled"}
DirectorySyncState == [ok : BOOLEAN, errors : BOOLEAN]

DirInit ==
  /\ dir \in SUBSET Uids
  /\ account = [u \in Uids |-> IF u \in dir THEN "active" ELSE "none"]
  /\ live = {} /\ sync = [r \in Runs |-> Off]
  /\ state = [ok |-> FALSE, errors |-> FALSE]
  /\ quiet = FALSE

\* A change from outside makes every listing under way an old one.
Disturb ==
  /\ quiet' = FALSE
  /\ sync' = [r \in Runs |-> IF sync[r].at = "off" THEN Off
                              ELSE [sync[r] EXCEPT !.fresh = FALSE]]

-----------------------------------------------------------------------------
(* Outside the run.  *)

\* External: an account is created in the directory, or removed from it.
DirectoryChanges(u) ==
  /\ dir' = IF u \in dir THEN dir \ {u} ELSE dir \cup {u}
  /\ Disturb
  /\ UNCHANGED <<account, live, state>>

\* LdapLoginService._resolve_user and the session that follows: the first
\* sign-in provisions the account.
Login(u) ==
  /\ u \in dir
  /\ account' = [account EXCEPT ![u] = IF @ = "none" THEN "active" ELSE @]
  /\ live' = live \cup {u}
  /\ UNCHANGED <<dir, sync, state, quiet>>

\* set_active: disabling revokes the sessions.
SetActive(u, on) ==
  /\ account[u] # "none"
  /\ account' = [account EXCEPT ![u] = IF on THEN "active" ELSE "disabled"]
  /\ live' = IF on THEN live ELSE live \ {u}
  /\ Disturb
  /\ UNCHANGED <<dir, state>>

-----------------------------------------------------------------------------
(* One run.  *)

Run(r, rec) == sync' = [sync EXCEPT ![r] = rec]

\* The worker's tick or POST /run, and enumerate_principals.
RunDirectorySync(r, force) ==
  /\ sync[r].at = "off"
  /\ Run(r, [at |-> "listed", found |-> dir, force |-> force, fresh |-> TRUE])
  /\ UNCHANGED <<dir, account, live, state, quiet>>

\* _store_state
StoreState(ok, errors, r) ==
  /\ state' = [ok |-> ok, errors |-> errors]
  /\ quiet' = sync[r].fresh

\* _fail: the directory cannot be read or lists nobody, or the cap is exceeded.
Fail(r) ==
  /\ StoreState(FALSE, FALSE, r)
  /\ Run(r, Off)
  /\ UNCHANGED <<dir, account, live>>

ListingFails(r) == sync[r].at = "listed" /\ Fail(r)

Vanished(r) == {u \in Uids \ sync[r].found : account[u] = "active"}
New(r) == {u \in sync[r].found : account[u] = "none"}
OverCap(r) == ~sync[r].force /\ Cardinality(Vanished(r)) > MaxDeactivations

\* _load_bbz_users and the cap.
LoadBbzUsers(r) ==
  /\ sync[r].at = "listed" /\ sync[r].found # {}
  /\ IF OverCap(r) THEN Fail(r)
     ELSE /\ Run(r, [at |-> "loaded", new |-> New(r), gone |-> Vanished(r),
                     present |-> {u \in sync[r].found : account[u] = "active"},
                     errors |-> FALSE, fresh |-> sync[r].fresh])
          /\ UNCHANGED <<dir, account, live, state, quiet>>

\* _provision: all new accounts in one transaction.  An account provisioned by a
\* login or by the other run meanwhile makes the insert fail, and the exception
\* is not caught: the run ends there.
Provision(r) ==
  /\ sync[r].at = "loaded"
  /\ IF \E u \in sync[r].new : account[u] # "none"
       THEN /\ Run(r, Off) /\ UNCHANGED <<account, quiet>>
       ELSE LET old == ~sync[r].fresh /\ sync[r].new # {}
                next == [at |-> "work", gone |-> sync[r].gone, errors |-> FALSE,
                         present |-> sync[r].present \cup sync[r].new,
                         fresh |-> sync[r].fresh]
            IN
            /\ account' = [u \in Uids |-> IF u \in sync[r].new THEN "active"
                                          ELSE account[u]]
            /\ sync' = [q \in Runs |->
                 IF q = r THEN next
                 ELSE IF sync[q].at = "off" THEN Off
                      ELSE [sync[q] EXCEPT !.fresh = @ /\ ~old]]
            /\ quiet' = (quiet /\ ~old)
  /\ UNCHANGED <<dir, live, state>>

\* _deactivate, one user: status and sessions in one transaction.
Deactivate(r, u) ==
  /\ sync[r].at = "work" /\ u \in sync[r].gone
  /\ account' = [account EXCEPT ![u] = "disabled"]
  /\ live' = live \ {u}
  /\ Run(r, [sync[r] EXCEPT !.gone = @ \ {u}])
  /\ UNCHANGED <<dir, state, quiet>>

DeactivateUncounted(r, u) ==                                      \* mutant
  /\ sync[r].at = "work" /\ u \in sync[r].gone
  /\ Run(r, [sync[r] EXCEPT !.gone = @ \ {u}])
  /\ UNCHANGED <<dir, account, live, state, quiet>>

\* One user fails: counted, and the run goes on with the next.
DeactivateFails(r, u) ==
  /\ sync[r].at = "work" /\ u \in sync[r].gone
  /\ Run(r, [sync[r] EXCEPT !.gone = @ \ {u}, !.errors = TRUE])
  /\ UNCHANGED <<dir, account, live, state, quiet>>

\* _reconcile_present, one user: profile and roles (see Grants).
ReconcilePresent(r, u, fails) ==
  /\ sync[r].at = "work" /\ sync[r].gone = {} /\ u \in sync[r].present
  /\ Run(r, [sync[r] EXCEPT !.present = @ \ {u}, !.errors = @ \/ fails])
  /\ UNCHANGED <<dir, account, live, state, quiet>>

\* _succeed: also after errors with single users.
Succeed(r) ==
  /\ sync[r].at = "work" /\ sync[r].gone = {} /\ sync[r].present = {}
  /\ StoreState(TRUE, sync[r].errors, r)
  /\ Run(r, Off)
  /\ UNCHANGED <<dir, account, live>>

DirNext ==
  \/ \E u \in Uids : DirectoryChanges(u) \/ Login(u)
                     \/ SetActive(u, TRUE) \/ SetActive(u, FALSE)
  \/ \E r \in Runs :
       \/ \E force \in BOOLEAN : RunDirectorySync(r, force)
       \/ ListingFails(r) \/ LoadBbzUsers(r) \/ Provision(r) \/ Succeed(r)
       \/ \E u \in Uids : \/ Deactivate(r, u) \/ DeactivateFails(r, u)
                          \/ ReconcilePresent(r, u, TRUE)
                          \/ ReconcilePresent(r, u, FALSE)

DirSpec == DirInit /\ [][DirNext]_dvars

-----------------------------------------------------------------------------
DirTypeOK ==
  /\ dir \subseteq Uids /\ live \subseteq Uids /\ account \in [Uids -> Statuses]
  /\ state \in DirectorySyncState
  /\ quiet \in BOOLEAN

\* A recorded success without single errors means that the accounts follow the
\* directory: everybody it lists has an account and nobody else has an active
\* one, as long as nothing was changed from outside since that run listed it.
\* Two runs that overlap do not spoil it.
SyncConverges ==
  (state.ok /\ ~state.errors /\ quiet) =>
       /\ \A u \in dir : account[u] # "none"
       /\ \A u \in Uids \ dir : account[u] # "active"
=============================================================================
