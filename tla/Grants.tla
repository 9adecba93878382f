------------------------------- MODULE Grants -------------------------------
(***************************************************************************)
(* Who may manage permissions: roles, their assignment to users and to     *)
(* groups of users, the roles that the groups of a directory or an         *)
(* identity provider grant at login, the temporary delegation of the       *)
(* permission, and the activation of accounts.                             *)
(*                                                                         *)
(* Only one permission matters here, permissions.manage: `manage' holds    *)
(* the roles that carry it.  A request that takes something away computes  *)
(* its guard on what is committed plus its own change (READ COMMITTED) and *)
(* commits later; another request may do the same in between.              *)
(***************************************************************************)
EXTENDS FiniteSets, Naturals

CONSTANTS
  People, Roles, Teams,   \* users, roles and groups of users
  AdminRoles,             \* roles that manage permissions at the start
  Builtin,                \* roles that are not deleted
  Member,                 \* user_groups: pairs of a user and a group
  Providers, Mappable,    \* providers; pairs of a user and a provider they log in with
  Loans,                  \* bound: delegations in force at a time
  Requests

VARIABLES
  role,      \* rows of roles
  manage,    \* roles with a role_permissions row for permissions.manage
  userRole,  \* rows of user_roles
  teamRole,  \* rows of group_roles
  mapping,   \* rows of auth_group_mappings: provider (of the one group), role
  ext,       \* rows of external_role_assignments
  claim,     \* who is in the mapped group, as the provider would say now
  active,    \* users whose status is active
  loan,      \* rows of permission_delegations for permissions.manage, in force
  req,       \* the requests under way
  hand,      \* auxiliary: roles assigned by hand and not revoked since
  undone,    \* auxiliary: roles taken by hand, or by a sync of another provider
  excused    \* auxiliary: a path without the guard, or an overlap, took a role

tables == <<role, manage, userRole, teamRole, mapping, ext, claim, active, loan>>
notes == <<hand, undone, excused>>
gvars == <<tables, req, notes>>

Idle == [st |-> "idle"]

UserRole == People \X Roles
GroupRole == Teams \X Roles
AuthGroupMapping == Providers \X Roles
ExternalRoleAssignment == People \X Roles \X Providers
PermissionDelegation == [from : People, to : People, backed : BOOLEAN]
NoLoan == [from |-> "none"]

(* _holds_admin: directly, or through a group; the validity of the           *)
(* assignment is not looked at.                                              *)
HoldsAdmin(u, ur, tr, mg) ==
  \E r \in mg : \/ <<u, r>> \in ur
                \/ \E t \in Teams : <<u, t>> \in Member /\ <<t, r>> \in tr

(* _any_admin: nor is the user's status.                                     *)
AnyAdmin(ur, tr, mg) == \E u \in People : HoldsAdmin(u, ur, tr, mg)

(* _is_last_active_admin: u manages, and no other active user does.          *)
IsLastActiveAdmin(u) ==
  /\ HoldsAdmin(u, userRole, teamRole, manage)
  /\ ~\E v \in active \ {u} : HoldsAdmin(v, userRole, teamRole, manage)

(* grants_for_user: the roles of a user, and what others lend them at the    *)
(* moment.                                                                   *)
GrantsForUser(u) ==
  {<<"role", r>> : r \in {x \in manage : HoldsAdmin(u, userRole, teamRole, {x})}}
    \cup {<<"loan", l>> : l \in {x \in Loans : loan[x] # NoLoan /\ loan[x].to = u}}
Authorize(u) == GrantsForUser(u) # {}

(* What a change leaves of the assignments and of the roles that manage: a   *)
(* revocation, the cascade of a deleted role, the replaced permissions.      *)
RevokedFrom(S, ch) == {x \in S : ~(ch.op = "revoke" /\ x = <<ch.who, ch.role>>)}
DroppedFrom(S, ch) == {x \in S : ~(ch.op = "delete_role" /\ x[2] = ch.role)}
Kept(S, ch) == DroppedFrom(RevokedFrom(S, ch), ch)
ManageAfter(ch) ==
  IF ch.op \in {"delete_role", "set_permissions"} THEN manage \ {ch.role} ELSE manage

GrantsInit ==
  /\ role = Roles /\ manage = AdminRoles /\ userRole = UserRole
  /\ teamRole = {} /\ mapping = {} /\ ext = {} /\ claim = {}
  /\ active = People /\ loan = [l \in Loans |-> NoLoan] /\ req = [q \in Requests |-> Idle]
  /\ hand = UserRole /\ undone = {} /\ excused = FALSE

(* The others under way have read what this commit changes.                  *)
Settle(q) ==
  req' = [p \in Requests |-> IF p = q THEN Idle
                             ELSE IF req[p] = Idle THEN Idle ELSE [req[p] EXCEPT !.stale = TRUE]]

Begin(q, rec) == req[q] = Idle /\ req' = [req EXCEPT ![q] = rec] /\ UNCHANGED <<tables, notes>>

-----------------------------------------------------------------------------
(* Role administration.                                                      *)

GuardNobody(q, ch) ==                                             \* mutant
  /\ ch.role \in role
  /\ \A p \in Requests : req[p].st = "change" => req[p].ch # ch
  /\ Begin(q, [st |-> "change", ch |-> ch, stale |-> FALSE])

(* _guard_last_admin: the change is flushed and the guard evaluated on the   *)
(* result; a change that would remove the last administrator is rolled back. *)
(* (A second change of the same rows waits for the first.)                   *)
GuardLastAdmin(q, ch) ==
  /\ ch.role \in role
  /\ \A p \in Requests : req[p].st = "change" => req[p].ch # ch
  /\ AnyAdmin(userRole, teamRole, manage)
       => AnyAdmin(Kept(userRole, ch), Kept(teamRole, ch), ManageAfter(ch))
  /\ Begin(q, [st |-> "change", ch |-> ch, stale |-> FALSE])

RevokeUserRole(q, u, r) == GuardLastAdmin(q, [op |-> "revoke", who |-> u, role |-> r])
RevokeGroupRole(q, t, r) == GuardLastAdmin(q, [op |-> "revoke", who |-> t, role |-> r])
SetRolePermissions(q, r) == GuardLastAdmin(q, [op |-> "set_permissions", who |-> r, role |-> r])
DeleteRole(q, r) ==
  r \notin Builtin /\ GuardLastAdmin(q, [op |-> "delete_role", who |-> r, role |-> r])

CommitChange(q) ==
  LET ch == req[q].ch IN
  /\ req[q].st = "change"
  /\ userRole' = Kept(userRole, ch)
  /\ teamRole' = Kept(teamRole, ch)
  /\ manage' = ManageAfter(ch)
  /\ role' = IF ch.op = "delete_role" THEN role \ {ch.role} ELSE role
  /\ ext' = DroppedFrom(ext, ch)
  /\ hand' = Kept(hand, ch)
  /\ undone' = undone \cup (userRole \ userRole')
  /\ excused' = (excused \/ req[q].stale)
  /\ Settle(q)
  /\ UNCHANGED <<mapping, claim, active, loan>>

CreateRole(r) ==
  /\ r \notin role
  /\ role' = role \cup {r}
  /\ UNCHANGED <<manage, userRole, teamRole, mapping, ext, claim, active, loan, req, notes>>

(* set_role_permissions with the permission in the new set.                  *)
GivePermission(r) ==
  /\ r \in role
  /\ manage' = manage \cup {r}
  /\ UNCHANGED <<role, userRole, teamRole, mapping, ext, claim, active, loan, req, notes>>

AssignUserRole(u, r) ==
  /\ r \in role
  /\ userRole' = userRole \cup {<<u, r>>}
  /\ hand' = hand \cup {<<u, r>>} /\ undone' = undone \ {<<u, r>>}
  /\ UNCHANGED <<role, manage, teamRole, mapping, ext, claim, active, loan, req, excused>>

AssignGroupRole(t, r) ==
  /\ r \in role
  /\ teamRole' = teamRole \cup {<<t, r>>}
  /\ UNCHANGED <<role, manage, userRole, mapping, ext, claim, active, loan, req, notes>>

-----------------------------------------------------------------------------
(* Accounts: set_active(False) checks, then writes; set_active(True) only    *)
(* writes.                                                                   *)
DeactivateUser(q, u) ==
  /\ u \in active /\ ~IsLastActiveAdmin(u)
  /\ \A p \in Requests : req[p].st = "off" => req[p].who # u
  /\ Begin(q, [st |-> "off", who |-> u, stale |-> FALSE])

SetActive(q) ==
  /\ req[q].st = "off"
  /\ active' = active \ {req[q].who}
  /\ excused' = (excused \/ req[q].stale)
  /\ Settle(q)
  /\ UNCHANGED <<loan, role, manage, userRole, teamRole, mapping, ext, claim, hand, undone>>

ActivateUser(u) ==
  /\ active' = active \cup {u}
  /\ UNCHANGED <<loan, role, manage, userRole, teamRole, mapping, ext, claim, req, notes>>

-----------------------------------------------------------------------------
(* Roles granted by the groups of a provider.                                *)
CreateMapping(p, r) ==
  /\ r \in role /\ mapping' = mapping \cup {<<p, r>>}
  /\ UNCHANGED <<role, manage, userRole, teamRole, ext, claim, active, loan, req, notes>>

DeleteMapping(m) ==
  /\ m \in mapping /\ mapping' = mapping \ {m}
  /\ UNCHANGED <<role, manage, userRole, teamRole, ext, claim, active, loan, req, notes>>

(* External: somebody is put into the mapped group, or taken out of it.      *)
GroupChanges(m) ==
  /\ claim' = IF m \in claim THEN claim \ {m} ELSE claim \cup {m}
  /\ UNCHANGED <<role, manage, userRole, teamRole, mapping, ext, active, loan, req, notes>>

(* _roles_for_groups, _role_ids: what the mapping wants for this user.       *)
RolesForGroups(u, p) == {r \in role : <<p, r>> \in mapping /\ <<u, p>> \in claim}

(* sync_user_roles, first transaction: what is wanted against what earlier   *)
(* synchronisations of this provider assigned.                               *)
SyncRead(q, u, p) ==
  LET wanted  == RolesForGroups(u, p)
      current == {r \in Roles : <<u, r, p>> \in ext}
  IN
  /\ wanted # current
  /\ Begin(q, [st |-> "sync", who |-> u, from |-> p, add |-> wanted \ current,
               remove |-> current \ wanted, stale |-> FALSE])

(* Second transaction. The insert into user_roles skips a row that exists;   *)
(* the one into external_role_assignments fails on a row that exists, and on *)
(* a role that was deleted meanwhile.                                        *)
SyncUserRoles(q) ==
  LET s == req[q]
      added   == {<<s.who, r>> : r \in s.add}
      removed == {<<s.who, r>> : r \in s.remove}
  IN
  /\ s.st = "sync"
  /\ s.add \subseteq role
  /\ \A r \in s.add : <<s.who, r, s.from>> \notin ext
  /\ userRole' = (userRole \cup added) \ removed
  /\ ext' = (ext \cup {<<s.who, r, s.from>> : r \in s.add})
              \ {<<s.who, r, s.from>> : r \in s.remove}
  /\ hand' = hand \ removed
  /\ undone' = (undone \cup removed) \ added
  /\ excused' = (excused \/ removed # {})
  /\ Settle(q)
  /\ UNCHANGED <<role, manage, teamRole, mapping, claim, active, loan>>

(* Delegation: an active user who may manage permissions lends that to       *)
(* another one for a time. What the lender holds is read before the row is   *)
(* inserted.                                                                 *)
CreateDelegation(q, u, v, l) ==
  /\ u \in active /\ u # v /\ Authorize(u)
  /\ loan[l] = NoLoan /\ \A p \in Requests : req[p].st = "lend" => req[p].row # l
  /\ Begin(q, [st |-> "lend", who |-> u, to |-> v, row |-> l, stale |-> FALSE])

Delegate(q) ==
  LET s == req[q] IN
  /\ s.st = "lend"
  /\ loan' = [loan EXCEPT ![s.row] = [from |-> s.who, to |-> s.to, backed |-> Authorize(s.who) \/ s.stale]]
  /\ req' = [req EXCEPT ![q] = Idle]
  /\ UNCHANGED <<role, manage, userRole, teamRole, mapping, ext, claim, active, notes>>

(* Revoked, or its time over: the requests under way may have counted on it. *)
EndLoan(l) ==
  /\ loan[l] # NoLoan
  /\ loan' = [loan EXCEPT ![l] = NoLoan]
  /\ req' = [p \in Requests |-> IF req[p] = Idle THEN Idle ELSE [req[p] EXCEPT !.stale = TRUE]]
  /\ UNCHANGED <<role, manage, userRole, teamRole, mapping, ext, claim, active, notes>>
RevokeDelegation(u, l) == u \in active /\ Authorize(u) /\ EndLoan(l)
DelegationExpires(l) == EndLoan(l)

(* An error, or the process going away, before the commit.                   *)
GiveUp(q) ==
  /\ req[q] # Idle
  /\ req' = [req EXCEPT ![q] = Idle]
  /\ UNCHANGED <<tables, notes>>

GrantsNext ==
  \/ \E q \in Requests :
       \/ \E r \in Roles : \/ SetRolePermissions(q, r) \/ DeleteRole(q, r)
                           \/ \E u \in People : RevokeUserRole(q, u, r)
                           \/ \E t \in Teams : RevokeGroupRole(q, t, r)
       \/ \E u \in People : DeactivateUser(q, u)
       \/ \E m \in Mappable : SyncRead(q, m[1], m[2])
       \/ CommitChange(q) \/ SetActive(q) \/ SyncUserRoles(q) \/ GiveUp(q) \/ Delegate(q)
       \/ \E u, v \in People, l \in Loans : CreateDelegation(q, u, v, l)
  \/ \E r \in Roles :
       \/ CreateRole(r) \/ GivePermission(r)
       \/ \E u \in People : AssignUserRole(u, r)
       \/ \E t \in Teams : AssignGroupRole(t, r)
       \/ \E p \in Providers : CreateMapping(p, r)
  \/ \E m \in mapping : DeleteMapping(m)
  \/ \E m \in Mappable : GroupChanges(m)
  \/ \E u \in People : ActivateUser(u) \/ \E l \in Loans : RevokeDelegation(u, l)
  \/ \E l \in Loans : DelegationExpires(l)

GrantsSpec == GrantsInit /\ [][GrantsNext]_gvars

-----------------------------------------------------------------------------
GrantsTypeOK ==
  /\ role \subseteq Roles /\ manage \subseteq role
  /\ userRole \subseteq UserRole /\ teamRole \subseteq GroupRole
  /\ ext \subseteq ExternalRoleAssignment /\ mapping \subseteq AuthGroupMapping
  /\ claim \subseteq Mappable /\ active \subseteq People
  /\ loan \in [Loans -> PermissionDelegation \cup {NoLoan}]

(* _guard_last_admin: somebody holds permissions.manage as long as every     *)
(* change that takes roles away went through the guard and no two of them    *)
(* overlapped.                                                               *)
LastAdminKept == AdminRoles # {} /\ ~excused => AnyAdmin(userRole, teamRole, manage)

(* sync_user_roles: a role a user holds was assigned by hand or is recorded  *)
(* as granted by a provider's groups, so that some later step can take it    *)
(* back; and a role recorded as granted is held, unless it was revoked by    *)
(* hand or another provider's synchronisation took it.                       *)
RolesAreAccounted ==
  /\ \A x \in userRole : x \in hand \/ \E p \in Providers : <<x[1], x[2], p>> \in ext
  /\ \A x \in ext : <<x[1], x[2]>> \in userRole \cup undone

(* DelegationService.delegate: a delegation in force was lent by somebody    *)
(* who was allowed to manage permissions themselves, or who lost that while  *)
(* the request was under way.                                                *)
LoansAreBacked == \A l \in Loans : loan[l] # NoLoan => loan[l].backed
=============================================================================
