------------------------------- MODULE Access -------------------------------
(***************************************************************************)
(* Who may capture into a root, and what is left of a root that is deleted. *)
(* A capture request checks its caller before it stores anything; it checks *)
(* again inside its transaction, statement by statement, and locks every    *)
(* row it relied on until it commits.  Administrators change roles, keys,   *)
(* groups, grants and denies meanwhile; a change of a locked row waits.     *)
(* Root deletion fences captures, erases the artifacts and then the row;    *)
(* the background sweep repeats the erasure, because uploads and index      *)
(* writes begun earlier may still land.                                     *)
(*                                                                         *)
(* One root, one group, one captured path.  Every user has at most one key. *)
(***************************************************************************)
EXTENDS Integers, FiniteSets

CONSTANTS
    Users, NoUser,
    Requests,       \* requests in progress at the same time
    Keyed,          \* the users whose requests use their API key
    Scopes,         \* the scopes of a root that is created
    FirstRoles,     \* the roles that users have at first
    Grantable,      \* the permissions that grants carry
    Deniable,       \* the targets that denies name
    MaxChanges,     \* bound: administrative changes
    MaxFaults       \* bound: failures of the object store, the index and requests

Roles == {"owner", "admin", "editor", "viewer"}
Permissions == {"read", "sync", "delete", "admin"}
Standings == Roles \cup {"none", "deleted"}
Principals == {"org", "group"} \cup Users
Targets == Users \cup Roles \cup {"*"}
Artifacts == {"rows", "objects"}    \* the index namespace; the three S3 prefixes

ASSUME AccessAssumption ==
    /\ NoUser \notin Users /\ Keyed \subseteq Users
    /\ Scopes \subseteq {"org", "user", "restricted"} /\ Grantable \subseteq Permissions
    /\ FirstRoles \subseteq Standings /\ Deniable \subseteq Targets
    /\ MaxChanges \in Nat /\ MaxFaults \in Nat

VARIABLES
    org,            \* the organization exists
    member,         \* org_members.role, "none" without a row, "deleted" without a user
    key,            \* users whose key exists
    group,          \* group_members of the group
    grant,          \* root_grants: the permissions of each principal
    deny,           \* root_acls that cover the path
    root,           \* the row of roots
    req,            \* requests in progress
    flying,         \* index writes of workers that have not landed
    stored,         \* artifacts of the root that exist
    targets,        \* root_cleanup_targets: artifacts to erase again and again
    changes, faults

access == <<org, member, key, group, grant, deny>>
artifacts == <<flying, stored, targets>>
bounds == <<changes, faults>>
vars == <<access, root, req, artifacts, bounds>>

Root == [state: {"none", "live", "deleting", "gone"}, scope: {"org", "user", "restricted"},
         owner: Users \cup {NoUser}]
Pc == {"idle", "upload", "lock", "member", "key", "groups", "grants", "denies", "commit",
       "prepare", "erase rows", "erase objects", "delete", "delete user"}
Request == [pc: Pc, user: Users \cup {NoUser}, role: Standings, group: BOOLEAN,
            kind: {"root", "user", "org"}, failed: BOOLEAN]
Idle == [pc |-> "idle", user |-> NoUser, role |-> "none", group |-> FALSE, kind |-> "root", failed |-> FALSE]

TypeOK ==
    /\ org \in BOOLEAN /\ member \in [Users -> Standings] /\ key \subseteq Users /\ group \subseteq Users
    /\ grant \in [Principals -> SUBSET Permissions] /\ deny \subseteq Targets
    /\ root \in Root /\ req \in [Requests -> Request]
    /\ flying \subseteq Artifacts /\ stored \subseteq Artifacts
    /\ targets \subseteq Artifacts
    /\ changes \in 0..MaxChanges /\ faults \in 0..MaxFaults

Init ==
    /\ org = TRUE /\ member \in [Users -> FirstRoles] /\ key = Users /\ group \in SUBSET Users
    /\ grant = [p \in Principals |-> {}] /\ deny = {}
    /\ root = [state |-> "none", scope |-> "org", owner |-> NoUser]
    /\ req = [r \in Requests |-> Idle]
    /\ flying = {} /\ stored = {} /\ targets = {}
    /\ changes = 0 /\ faults = 0

----------------------------------------------------------------------------
(* Permissions.                                                            *)

RoleLevel(role) == CASE role = "owner" -> 4 [] role = "admin" -> 3 [] role = "editor" -> 2
                     [] role = "viewer" -> 1 [] OTHER -> 0
HasMinRole(role, min) == RoleLevel(role) >= RoleLevel(min)

AddRootPermission(p) == CASE p = "admin" -> Permissions [] p = "delete" -> {"read", "delete"}
                          [] p = "sync" -> {"read", "sync"} [] OTHER -> {"read"}

RolePermissions(u, role) ==
    IF HasMinRole(role, "admin") \/ (root.scope = "user" /\ root.owner = u) THEN Permissions
    ELSE IF root.scope # "org" THEN {}
    ELSE IF HasMinRole(role, "editor") THEN {"read", "sync"} ELSE {"read"}

Granted(grants, principals) == UNION {AddRootPermission(p) : p \in UNION {grants[x] : x \in principals}}

EffectiveRootPermissions(u, role, principals) == RolePermissions(u, role) \cup Granted(grant, principals)

Principal(u) == {"org", u} \cup (IF u \in group THEN {"group"} ELSE {})
Denied(u, role) == deny \cap {u, role, "*"} # {}
HasKey(u) == u \in Keyed => u \in key

Exists == root.state \in {"live", "deleting"}
RootForPermission(u, permission) ==
    /\ Exists /\ member[u] \in Roles
    /\ permission \in EffectiveRootPermissions(u, member[u], Principal(u))

----------------------------------------------------------------------------
(* Row locks that capture transactions hold until they commit or fail.     *)

At(r, pc) == req[r].pc = pc
Go(r, pc) == req' = [req EXCEPT ![r].pc = pc]
Finish(r) == req' = [req EXCEPT ![r] = Idle]
GoOn(r, cond, pc) == req' = [req EXCEPT ![r] = IF cond THEN [@ EXCEPT !.pc = pc] ELSE Idle]

Holding(pcs, u) == \E r \in Requests : req[r].pc \in pcs /\ req[r].user = u
RootLocked == \E r \in Requests : req[r].pc \in {"member", "key", "groups", "grants", "denies", "commit"}
MemberLocked(u) == Holding({"key", "groups", "grants", "denies", "commit"}, u)
KeyLocked(u) == Holding({"groups", "grants", "denies", "commit"}, u) /\ u \in Keyed

\* Mutant of GroupLocked: the membership is read without FOR SHARE.
GroupUnlocked(u) == FALSE

GroupLocked(u) == \E r \in Requests : /\ req[r].pc \in {"grants", "denies", "commit"}
                                      /\ req[r].user = u /\ req[r].group
LockedPrincipals(q) == {"org", q.user} \cup (IF q.group THEN {"group"} ELSE {})
GrantLocked(p) == \E r \in Requests : req[r].pc \in {"denies", "commit"} /\ p \in LockedPrincipals(req[r])

----------------------------------------------------------------------------
(* Capture.                                                                *)

CaptureIdentity(r, u) ==
    /\ At(r, "idle") /\ HasKey(u) /\ RootForPermission(u, "sync") /\ ~Denied(u, member[u])
    /\ req' = [req EXCEPT ![r] = [Idle EXCEPT !.pc = "upload", !.user = u]]
    /\ UNCHANGED <<access, root, artifacts, bounds>>

UploadManifests(r) ==
    /\ At(r, "upload") /\ stored' = stored \cup {"objects"} /\ Go(r, "lock")
    /\ UNCHANGED <<access, root, flying, targets, bounds>>

LockRoot(r) ==
    /\ At(r, "lock") /\ ~RootLocked /\ GoOn(r, root.state = "live", "member")
    /\ UNCHANGED <<access, root, artifacts, bounds>>

LockMember(r) ==
    /\ At(r, "member")
    /\ LET role == member[req[r].user]
       IN req' = [req EXCEPT ![r] = IF role \notin Roles THEN Idle ELSE [@ EXCEPT !.pc = "key", !.role = role]]
    /\ UNCHANGED <<access, root, artifacts, bounds>>

LockKey(r) ==
    /\ At(r, "key") /\ GoOn(r, HasKey(req[r].user), "groups")
    /\ UNCHANGED <<access, root, artifacts, bounds>>

\* Only a membership that a grant of this moment makes useful is locked.
UsesGroup(u) == u \in group /\ grant["group"] # {}

LockGroups(r) ==
    /\ At(r, "groups")
    /\ req' = [req EXCEPT ![r].pc = "grants", ![r].group = UsesGroup(req[r].user)]
    /\ UNCHANGED <<access, root, artifacts, bounds>>

LockGrants(r) ==
    /\ At(r, "grants")
    /\ LET q == req[r]
       IN GoOn(r, "sync" \in EffectiveRootPermissions(q.user, q.role, LockedPrincipals(q)), "denies")
    /\ UNCHANGED <<access, root, artifacts, bounds>>

ReadDenies(r) ==
    /\ At(r, "denies") /\ GoOn(r, ~Denied(req[r].user, req[r].role), "commit")
    /\ UNCHANGED <<access, root, artifacts, bounds>>

\* The versions and their work: workers write rows and objects for them.
Commit(r) ==
    /\ At(r, "commit") /\ flying' = Artifacts /\ Finish(r)
    /\ UNCHANGED <<access, root, stored, targets, bounds>>

\* The client goes away, the process stops or a statement fails: rollback.
Abort(r) ==
    /\ ~At(r, "idle") /\ faults < MaxFaults /\ faults' = faults + 1 /\ Finish(r)
    /\ UNCHANGED <<access, root, artifacts, changes>>

----------------------------------------------------------------------------
(* Administration.                                                         *)

Change == changes < MaxChanges /\ changes' = changes + 1

ChangeOrgMember(u, role) ==
    /\ Change /\ org /\ member[u] # "deleted" /\ ~MemberLocked(u) /\ member' = [member EXCEPT ![u] = role]
    /\ UNCHANGED <<org, key, group, grant, deny, root, req, artifacts, faults>>

DeleteAPIKey(u) ==
    /\ Change /\ u \in key /\ ~KeyLocked(u) /\ key' = key \ {u}
    /\ UNCHANGED <<org, member, group, grant, deny, root, req, artifacts, faults>>

AddGroupMember(u) ==
    /\ Change /\ org /\ member[u] \in Roles /\ group' = group \cup {u}
    /\ UNCHANGED <<org, member, key, grant, deny, root, req, artifacts, faults>>

DeleteGroupMember(u) ==
    /\ Change /\ u \in group /\ ~GroupLocked(u) /\ group' = group \ {u}
    /\ UNCHANGED <<org, member, key, grant, deny, root, req, artifacts, faults>>

ValidRootGrantPrincipal(p) == p \in Users => member[p] \in Roles

CreateRootGrant(p, permissions) ==
    /\ Change /\ Exists /\ ValidRootGrantPrincipal(p)
    /\ IF grant[p] = {} THEN ~RootLocked ELSE ~GrantLocked(p)   \* a new row refers to the root
    /\ grant' = [grant EXCEPT ![p] = permissions]
    /\ UNCHANGED <<org, member, key, group, deny, root, req, artifacts, faults>>

DeleteRootGrant(p) ==
    /\ Change /\ grant[p] # {} /\ ~GrantLocked(p) /\ grant' = [grant EXCEPT ![p] = {}]
    /\ UNCHANGED <<org, member, key, group, deny, root, req, artifacts, faults>>

CreateACL(t) ==
    /\ Change /\ root.state = "live" /\ ~RootLocked /\ deny' = deny \cup {t}
    /\ UNCHANGED <<org, member, key, group, grant, root, req, artifacts, faults>>

DeleteACL(t) ==
    /\ Change /\ t \in deny /\ deny' = deny \ {t}
    /\ UNCHANGED <<org, member, key, group, grant, root, req, artifacts, faults>>

MayCreate(u, scope, owner) ==
    /\ HasKey(u)
    /\ CASE scope = "org" -> HasMinRole(member[u], "editor")
         [] scope = "user" -> /\ member[u] \in Roles /\ owner \in Users /\ member[owner] \in Roles
                              /\ (owner = u \/ HasMinRole(member[u], "admin"))
         [] OTHER -> HasMinRole(member[u], "admin")

\* Ids are never used again: this row is inserted once.
CreateRoot(scope, owner) ==
    /\ org /\ root.state = "none" /\ (scope = "user" <=> owner # NoUser)
    /\ \E u \in Users : MayCreate(u, scope, owner)
    /\ root' = [state |-> "live", scope |-> scope, owner |-> owner]
    /\ UNCHANGED <<access, req, artifacts, bounds>>

AdminCreateRoot(scope, owner) ==
    /\ org /\ root.state = "none" /\ (scope = "user" <=> owner # NoUser)
    /\ (scope = "user" => member[owner] \in Roles)
    /\ root' = [state |-> "live", scope |-> scope, owner |-> owner]
    /\ UNCHANGED <<access, req, artifacts, bounds>>

----------------------------------------------------------------------------
(* Deletion of the root, of a user with the root, of the organization.     *)

HandleDeleteRoot(r, u) ==
    /\ At(r, "idle") /\ HasKey(u) /\ RootForPermission(u, "delete")
    /\ req' = [req EXCEPT ![r] = [Idle EXCEPT !.pc = "prepare"]]
    /\ UNCHANGED <<access, root, artifacts, bounds>>

HandleAdminDeleteRoot(r) ==
    /\ At(r, "idle") /\ Change /\ Exists
    /\ req' = [req EXCEPT ![r] = [Idle EXCEPT !.pc = "prepare"]]
    /\ UNCHANGED <<access, root, artifacts, faults>>

HandleAdminDeleteUser(r, u) ==
    /\ At(r, "idle") /\ Change /\ member[u] # "deleted"
    /\ req' = [req EXCEPT ![r] = [Idle EXCEPT !.user = u, !.kind = "user",
          !.pc = IF Exists /\ root.owner = u THEN "prepare" ELSE "delete user"]]
    /\ UNCHANGED <<access, root, artifacts, faults>>

HandleAdminDeleteOrg(r) ==
    /\ At(r, "idle") /\ Change /\ org
    /\ req' = [req EXCEPT ![r] = [Idle EXCEPT !.kind = "org", !.pc = IF Exists THEN "prepare" ELSE "delete"]]
    /\ UNCHANGED <<access, root, artifacts, faults>>

RetainTargets == targets' = Artifacts

PrepareRootDeletion(r) ==
    /\ At(r, "prepare") /\ ~RootLocked /\ GoOn(r, Exists, "erase rows")
    /\ IF Exists THEN root' = [root EXCEPT !.state = "deleting"] /\ RetainTargets
                 ELSE UNCHANGED <<root, targets>>
    /\ UNCHANGED <<access, flying, stored, bounds>>

\* Both erasures are tried; an error of either ends the request afterwards.
EraseRows(r) ==
    /\ At(r, "erase rows") /\ stored' = stored \ {"rows"} /\ Go(r, "erase objects")
    /\ UNCHANGED <<access, root, flying, targets, bounds>>

EraseObjects(r) ==
    /\ At(r, "erase objects") /\ stored' = stored \ {"objects"} /\ GoOn(r, ~req[r].failed, "delete")
    /\ UNCHANGED <<access, root, flying, targets, bounds>>

EraseFails(r) ==
    /\ req[r].pc \in {"erase rows", "erase objects"} /\ faults < MaxFaults /\ faults' = faults + 1
    /\ req' = [req EXCEPT ![r] = IF @.pc = "erase rows" THEN [@ EXCEPT !.failed = TRUE, !.pc = "erase objects"]
                                 ELSE Idle]
    /\ UNCHANGED <<access, root, artifacts, changes>>

GoneRoot == root' = [root EXCEPT !.state = "gone"] /\ RetainTargets

\* The row goes, with its grants and denies; its cleanup targets stay.
DeleteRoot(r) ==
    /\ At(r, "delete") /\ req[r].kind # "org" /\ ~RootLocked
    /\ GoOn(r, Exists /\ req[r].kind = "user", "delete user")
    /\ IF Exists THEN GoneRoot /\ grant' = [p \in Principals |-> {}] /\ deny' = {}
                 ELSE UNCHANGED <<root, targets, grant, deny>>
    /\ UNCHANGED <<org, member, key, group, flying, stored, bounds>>

DeleteUser(r) ==
    /\ At(r, "delete user")
    /\ LET u == req[r].user IN
       /\ ~MemberLocked(u) /\ ~KeyLocked(u) /\ ~GroupLocked(u) /\ (root.owner = u => ~RootLocked)
       /\ member' = [member EXCEPT ![u] = "deleted"] /\ key' = key \ {u} /\ group' = group \ {u}
       /\ root' = [root EXCEPT !.owner = IF @ = u THEN NoUser ELSE @]
    /\ Finish(r) /\ UNCHANGED <<org, grant, deny, artifacts, bounds>>

DeleteOrganization(r) ==
    /\ At(r, "delete") /\ req[r].kind = "org" /\ ~RootLocked
    /\ org' = FALSE /\ key' = {} /\ group' = {}
    /\ member' = [u \in Users |-> IF member[u] = "deleted" THEN "deleted" ELSE "none"]
    /\ grant' = [p \in Principals |-> {}] /\ deny' = {}
    /\ IF Exists THEN GoneRoot ELSE UNCHANGED <<root, targets>>
    /\ Finish(r) /\ UNCHANGED <<flying, stored, bounds>>

----------------------------------------------------------------------------
(* Writes of workers that were begun before, and the recurring sweep.      *)

WriteLands(a) ==
    /\ a \in flying /\ flying' = flying \ {a} /\ stored' = stored \cup {a}
    /\ UNCHANGED <<access, root, req, targets, bounds>>

\* Mutant of Reschedule: a target that was swept is done with.
SweptForGood(a) == targets' = targets \ {a}

\* A target stays for ever and is due again a day later; a pass that fails or
\* runs out of time leaves it due sooner (cleanup_deleted_roots).
Reschedule(a) == UNCHANGED targets

SweepTarget(a) ==
    /\ a \in targets /\ root.state # "live"
    /\ stored' = stored \ {a} /\ Reschedule(a)
    /\ UNCHANGED <<access, root, req, flying, bounds>>

----------------------------------------------------------------------------

Capture(r) ==
    \/ \E u \in Users : CaptureIdentity(r, u)
    \/ UploadManifests(r) \/ LockRoot(r) \/ LockMember(r) \/ LockKey(r) \/ LockGroups(r)
    \/ LockGrants(r) \/ ReadDenies(r) \/ Commit(r)

Deletion(r) ==
    \/ \E u \in Users : HandleDeleteRoot(r, u) \/ HandleAdminDeleteUser(r, u)
    \/ HandleAdminDeleteRoot(r) \/ HandleAdminDeleteOrg(r)
    \/ PrepareRootDeletion(r) \/ EraseRows(r) \/ EraseObjects(r) \/ EraseFails(r)
    \/ DeleteRoot(r) \/ DeleteUser(r) \/ DeleteOrganization(r)

Administration ==
    \/ \E u \in Users : \/ \E role \in Roles \cup {"none"} : ChangeOrgMember(u, role)
                        \/ DeleteAPIKey(u) \/ AddGroupMember(u) \/ DeleteGroupMember(u)
    \/ \E p \in Principals : DeleteRootGrant(p) \/ \E g \in Grantable : CreateRootGrant(p, {g})
    \/ \E t \in Deniable : CreateACL(t) \/ DeleteACL(t)
    \/ \E scope \in Scopes, owner \in Users \cup {NoUser} :
          CreateRoot(scope, owner) \/ AdminCreateRoot(scope, owner)

Next ==
    \/ \E r \in Requests : Capture(r) \/ Deletion(r) \/ Abort(r)
    \/ Administration
    \/ \E a \in Artifacts : WriteLands(a) \/ SweepTarget(a)

Spec == Init /\ [][Next]_vars

\* Requests end, writes land or fail, and the maintenance loop comes round.
Fairness ==
    /\ \A r \in Requests : WF_vars(~At(r, "idle") /\ (Capture(r) \/ Deletion(r)))
    /\ \A a \in Artifacts : WF_vars(WriteLands(a)) /\ WF_vars(SweepTarget(a))

FairSpec == Spec /\ Fairness

----------------------------------------------------------------------------

\* What a capture transaction is about to commit is allowed by the rows as they
\* are now: no revocation, deny or deletion committed since it read them.
CommitIsAuthorized ==
    \A r \in Requests : At(r, "commit") =>
        LET u == req[r].user IN
        root.state = "live" /\ HasKey(u) /\ RootForPermission(u, "sync") /\ ~Denied(u, member[u])

\* Whatever lands late, in the end nothing of a deleted root is left.
DeletedRootVanishes == <>[](root.state = "gone" => stored = {})

====
