---------------------------- MODULE AccessProofs ----------------------------
(***************************************************************************)
(* Type correctness of Access, and the authorization of every capture that  *)
(* commits, for every number of users, requests and changes.                *)
(***************************************************************************)
EXTENDS Access, TLAPS

Holding0 == {"member", "key", "groups", "grants", "denies", "commit"}

\* What a capture transaction has read so far still stands: the row locks keep it.
Held(q) ==
    /\ q.pc \in {"upload", "lock"} \cup Holding0 => q.user \in Users
    /\ q.pc \in Holding0 => root.state = "live"
    /\ q.pc \in {"key", "groups", "grants", "denies", "commit"} =>
          member[q.user] = q.role /\ q.role \in Roles
    /\ q.pc \in {"groups", "grants", "denies", "commit"} => HasKey(q.user)
    /\ q.pc \in {"grants", "denies", "commit"} => (q.group => q.user \in group)
    /\ q.pc \in {"denies", "commit"} =>
          "sync" \in RolePermissions(q.user, q.role) \cup Granted(grant, LockedPrincipals(q))
    /\ q.pc = "commit" => ~Denied(q.user, q.role)

ReadsStand == \A r \in Requests : Held(req[r])

----------------------------------------------------------------------------

LEMMA GrantedSync ==
    ASSUME NEW g, NEW ps
    PROVE  "sync" \in Granted(g, ps) <=> \E x \in ps : \E p \in g[x] : "sync" \in AddRootPermission(p)
BY DEF Granted

LEMMA GrantedMore ==
    ASSUME NEW g, NEW ps, NEW qs, ps \subseteq qs, "sync" \in Granted(g, ps)
    PROVE  "sync" \in Granted(g, qs)
BY GrantedSync

LEMMA GrantedSame ==
    ASSUME NEW g, NEW h, NEW ps, \A x \in ps : g[x] = h[x], "sync" \in Granted(g, ps)
    PROVE  "sync" \in Granted(h, ps)
BY GrantedSync

LEMMA StandsIsAuthorized ==
    ASSUME TypeOK, ReadsStand
    PROVE  CommitIsAuthorized
<1> SUFFICES ASSUME NEW r \in Requests, At(r, "commit")
             PROVE  LET u == req[r].user IN
                    root.state = "live" /\ HasKey(u) /\ RootForPermission(u, "sync") /\ ~Denied(u, member[u])
    BY DEF CommitIsAuthorized
<1> DEFINE u == req[r].user
<1>1. Held(req[r]) /\ req[r].pc = "commit"
    BY DEF ReadsStand, At
<1>2. root.state = "live" /\ HasKey(u) /\ member[u] = req[r].role /\ member[u] \in Roles /\ ~Denied(u, member[u])
    BY <1>1 DEF Held, Holding0
<1>3. LockedPrincipals(req[r]) \subseteq Principal(u)
    BY <1>1 DEF Held, LockedPrincipals, Principal
<1>4. "sync" \in RolePermissions(u, member[u]) \cup Granted(grant, LockedPrincipals(req[r]))
    BY <1>1, <1>2 DEF Held
<1>5. "sync" \in EffectiveRootPermissions(u, member[u], Principal(u))
    BY <1>3, <1>4, GrantedMore DEF EffectiveRootPermissions
<1> QED
    BY <1>2, <1>5 DEF RootForPermission, Exists

----------------------------------------------------------------------------
(* Steps that leave the rows alone.                                        *)

LEMMA Unmoved ==
    ASSUME NEW r \in Requests, Held(req[r]), req'[r] = req[r], UNCHANGED <<access, root>>
    PROVE  Held(req[r])'
BY DEF Held, access, RolePermissions, HasKey, Denied, LockedPrincipals, Granted

\* A request that holds no row needs none to stand.
LEMMA HoldsNothing ==
    ASSUME NEW r \in Requests, req'[r].pc \notin Holding0,
           req'[r].pc \in {"upload", "lock"} => req'[r].user \in Users
    PROVE  Held(req[r])'
BY DEF Held, Holding0

LEMMA RequestType ==
    ASSUME TypeOK, NEW r \in Requests
    PROVE  /\ req[r] \in Request /\ req[r].pc \in Pc /\ req[r].user \in Users \cup {NoUser}
           /\ req[r].role \in Standings /\ req[r].group \in BOOLEAN
BY DEF TypeOK, Request

\* One request moves and the rows stay: the others keep what they read.
LEMMA OneMoves ==
    ASSUME TypeOK, ReadsStand, NEW r \in Requests, NEW q, req' = [req EXCEPT ![r] = q],
           UNCHANGED <<access, root>>, Held(req[r])'
    PROVE  ReadsStand'
<1> SUFFICES ASSUME NEW s \in Requests PROVE Held(req[s])'
    BY DEF ReadsStand
<1>1. CASE s = r
    BY <1>1
<1>2. CASE s # r
  <2>1. req'[s] = req[s]
      BY <1>2 DEF TypeOK
  <2> QED
      BY <2>1, Unmoved DEF ReadsStand
<1> QED
    BY <1>1, <1>2

LEMMA NewPc ==
    ASSUME TypeOK, NEW r \in Requests, NEW q, req' = [req EXCEPT ![r] = q]
    PROVE  req'[r] = q
BY DEF TypeOK

LEMMA MovedHoldsNothing ==
    ASSUME TypeOK, ReadsStand, NEW r \in Requests, NEW q, req' = [req EXCEPT ![r] = q],
           UNCHANGED <<access, root>>, q.pc \notin Holding0,
           q.pc \in {"upload", "lock"} => q.user \in Users
    PROVE  ReadsStand'
<1>1. req'[r] = q
    BY NewPc
<1> QED
    BY <1>1, HoldsNothing, OneMoves

LEMMA CaptureIdentityStands ==
    ASSUME TypeOK, ReadsStand, NEW r \in Requests, NEW u \in Users, CaptureIdentity(r, u)
    PROVE  ReadsStand'
<1> DEFINE q == [Idle EXCEPT !.pc = "upload", !.user = u]
<1>1. req' = [req EXCEPT ![r] = q] /\ UNCHANGED <<access, root>>
    BY DEF CaptureIdentity
<1>2. q.pc = "upload" /\ q.user = u
    BY DEF Idle
<1> QED
    BY <1>1, <1>2, MovedHoldsNothing DEF Holding0

LEMMA UploadStands ==
    ASSUME TypeOK, ReadsStand, NEW r \in Requests, UploadManifests(r)
    PROVE  ReadsStand'
<1> DEFINE q == [req[r] EXCEPT !.pc = "lock"]
<1>1. req' = [req EXCEPT ![r] = q] /\ UNCHANGED <<access, root>>
    BY DEF UploadManifests, Go
<1>2. q.pc = "lock" /\ q.user \in Users
    BY RequestType DEF UploadManifests, At, ReadsStand, Held, Request
<1> QED
    BY <1>1, <1>2, MovedHoldsNothing DEF Holding0

\* One statement of the capture transaction: what it read is what stands.
LEMMA StatementStands ==
    ASSUME TypeOK, ReadsStand, NEW r \in Requests,
           LockRoot(r) \/ LockMember(r) \/ LockKey(r) \/ LockGroups(r) \/ LockGrants(r) \/ ReadDenies(r)
    PROVE  ReadsStand'
<1>0. Held(req[r]) /\ req[r] \in Request
    BY RequestType DEF ReadsStand
<1>i. Idle.pc = "idle"
    BY DEF Idle
<1>1. CASE LockRoot(r)
  <2> DEFINE q == IF root.state = "live" THEN [req[r] EXCEPT !.pc = "member"] ELSE Idle
  <2>1. req' = [req EXCEPT ![r] = q] /\ UNCHANGED <<access, root>> /\ req[r].pc = "lock"
      BY <1>1 DEF LockRoot, GoOn, At
  <2>2. req'[r] = q
      BY <2>1, NewPc
  <2>3. Held(req[r])'
      BY <2>1, <2>2, <1>0, <1>i DEF Held, Holding0, Request
  <2> QED
      BY <2>1, <2>3, OneMoves
<1>2. CASE LockMember(r)
  <2> DEFINE role == member[req[r].user]
             q == IF role \notin Roles THEN Idle ELSE [req[r] EXCEPT !.pc = "key", !.role = role]
  <2>1. req' = [req EXCEPT ![r] = q] /\ UNCHANGED <<access, root>> /\ req[r].pc = "member"
      BY <1>2 DEF LockMember, At
  <2>2. req'[r] = q
      BY <2>1, NewPc
  <2>3. Held(req[r])'
      BY <2>1, <2>2, <1>0, <1>i DEF Held, Holding0, Request, access
  <2> QED
      BY <2>1, <2>3, OneMoves
<1>3. CASE LockKey(r)
  <2> DEFINE q == IF HasKey(req[r].user) THEN [req[r] EXCEPT !.pc = "groups"] ELSE Idle
  <2>1. req' = [req EXCEPT ![r] = q] /\ UNCHANGED <<access, root>> /\ req[r].pc = "key"
      BY <1>3 DEF LockKey, GoOn, At
  <2>2. req'[r] = q
      BY <2>1, NewPc
  <2>3. Held(req[r])'
      BY <2>1, <2>2, <1>0, <1>i DEF Held, Holding0, Request, access, HasKey
  <2> QED
      BY <2>1, <2>3, OneMoves
<1>4. CASE LockGroups(r)
  <2> DEFINE q == [req[r] EXCEPT !.pc = "grants", !.group = UsesGroup(req[r].user)]
  <2>1. req' = [req EXCEPT ![r] = q] /\ UNCHANGED <<access, root>> /\ req[r].pc = "groups"
      BY <1>4 DEF LockGroups, At, TypeOK
  <2>2. req'[r] = q
      BY <2>1, NewPc
  <2>3. q.pc = "grants" /\ q.user = req[r].user /\ q.role = req[r].role
      BY <1>0 DEF Request
  <2>g. q.group = UsesGroup(req[r].user)
      BY <1>0, Zenon DEF Request
  <2>u. q.group => req[r].user \in group
      BY <2>g, Zenon DEF UsesGroup
  <2> HIDE DEF q
  <2>4. Held(req[r])'
      BY <2>1, <2>2, <2>3, <2>u, <1>0 DEF Held, Holding0, access, HasKey
  <2> QED
      BY <2>1, <2>4, OneMoves
<1>5. CASE LockGrants(r)
  <2> DEFINE ok == "sync" \in EffectiveRootPermissions(req[r].user, req[r].role, LockedPrincipals(req[r]))
             q == IF ok THEN [req[r] EXCEPT !.pc = "denies"] ELSE Idle
  <2>1. req' = [req EXCEPT ![r] = q] /\ UNCHANGED <<access, root>> /\ req[r].pc = "grants"
      BY <1>5 DEF LockGrants, GoOn, At
  <2>2. req'[r] = q
      BY <2>1, NewPc
  <2>3. CASE ok
    <3>1. /\ req'[r].pc = "denies" /\ req'[r].user = req[r].user /\ req'[r].role = req[r].role
          /\ req'[r].group = req[r].group
        BY <2>2, <2>3, <1>0 DEF Request
    <3>2. "sync" \in RolePermissions(req[r].user, req[r].role) \cup Granted(grant, LockedPrincipals(req[r]))
        BY <2>3 DEF EffectiveRootPermissions
    <3>3. Held(req[r])'
        BY <2>1, <3>1, <3>2, <1>0 DEF Held, Holding0, access, HasKey, RolePermissions, LockedPrincipals, Granted
    <3> QED
        BY <2>1, <3>3, OneMoves
  <2>4. CASE ~ok
      BY <2>1, <2>4, <1>i, MovedHoldsNothing DEF Holding0
  <2> QED
      BY <2>3, <2>4
<1>6. CASE ReadDenies(r)
  <2> DEFINE ok == ~Denied(req[r].user, req[r].role)
             q == IF ok THEN [req[r] EXCEPT !.pc = "commit"] ELSE Idle
  <2>1. req' = [req EXCEPT ![r] = q] /\ UNCHANGED <<access, root>> /\ req[r].pc = "denies"
      BY <1>6 DEF ReadDenies, GoOn, At
  <2>2. req'[r] = q
      BY <2>1, NewPc
  <2>3. CASE ok
    <3>1. /\ req'[r].pc = "commit" /\ req'[r].user = req[r].user /\ req'[r].role = req[r].role
          /\ req'[r].group = req[r].group
        BY <2>2, <2>3, <1>0 DEF Request
    <3>2. Held(req[r])'
        BY <2>1, <2>3, <3>1, <1>0 DEF Held, Holding0, access, HasKey, RolePermissions, LockedPrincipals, Granted, Denied
    <3> QED
        BY <2>1, <3>2, OneMoves
  <2>4. CASE ~ok
      BY <2>1, <2>4, <1>i, MovedHoldsNothing DEF Holding0
  <2> QED
      BY <2>3, <2>4
<1> QED
    BY <1>1, <1>2, <1>3, <1>4, <1>5, <1>6

----------------------------------------------------------------------------
(* Steps of requests that hold no row before or after.                     *)

LEMMA IdleStands ==
    ASSUME TypeOK, ReadsStand, NEW r \in Requests, NEW q, req' = [req EXCEPT ![r] = q],
           UNCHANGED <<access, root>>, q.pc \notin {"upload", "lock"} \cup Holding0
    PROVE  ReadsStand'
BY MovedHoldsNothing

LEMMA RequestStands ==
    ASSUME TypeOK, ReadsStand, NEW r \in Requests,
           \/ Commit(r) \/ Abort(r)
           \/ \E u \in Users : HandleDeleteRoot(r, u) \/ HandleAdminDeleteUser(r, u)
           \/ HandleAdminDeleteRoot(r) \/ HandleAdminDeleteOrg(r)
           \/ EraseRows(r) \/ EraseObjects(r) \/ EraseFails(r)
    PROVE  ReadsStand'
<1>0. req[r] \in Request /\ Idle.pc = "idle"
    BY RequestType DEF Idle
<1>1. CASE Commit(r) \/ Abort(r)
  <2>1. req' = [req EXCEPT ![r] = Idle] /\ UNCHANGED <<access, root>>
      BY <1>1 DEF Commit, Abort, Finish
  <2> QED
      BY <2>1, <1>0, IdleStands DEF Holding0
<1>2. ASSUME NEW u \in Users, HandleDeleteRoot(r, u)
      PROVE  ReadsStand'
  <2>1. req' = [req EXCEPT ![r] = [Idle EXCEPT !.pc = "prepare"]] /\ UNCHANGED <<access, root>>
      BY <1>2 DEF HandleDeleteRoot
  <2>2. [Idle EXCEPT !.pc = "prepare"].pc = "prepare"
      BY DEF Idle
  <2> QED
      BY <2>1, <2>2, IdleStands DEF Holding0
<1>3. CASE HandleAdminDeleteRoot(r)
  <2>1. req' = [req EXCEPT ![r] = [Idle EXCEPT !.pc = "prepare"]] /\ UNCHANGED <<access, root>>
      BY <1>3 DEF HandleAdminDeleteRoot
  <2>2. [Idle EXCEPT !.pc = "prepare"].pc = "prepare"
      BY DEF Idle
  <2> QED
      BY <2>1, <2>2, IdleStands DEF Holding0
<1>4. ASSUME NEW u \in Users, HandleAdminDeleteUser(r, u)
      PROVE  ReadsStand'
  <2> DEFINE q == [Idle EXCEPT !.user = u, !.kind = "user",
                     !.pc = IF Exists /\ root.owner = u THEN "prepare" ELSE "delete user"]
  <2>1. req' = [req EXCEPT ![r] = q] /\ UNCHANGED <<access, root>>
      BY <1>4 DEF HandleAdminDeleteUser
  <2>2. q.pc \in {"prepare", "delete user"}
      BY DEF Idle
  <2> HIDE DEF q
  <2> QED
      BY <2>1, <2>2, IdleStands DEF Holding0
<1>5. CASE HandleAdminDeleteOrg(r)
  <2> DEFINE q == [Idle EXCEPT !.kind = "org", !.pc = IF Exists THEN "prepare" ELSE "delete"]
  <2>1. req' = [req EXCEPT ![r] = q] /\ UNCHANGED <<access, root>>
      BY <1>5 DEF HandleAdminDeleteOrg
  <2>2. q.pc \in {"prepare", "delete"}
      BY DEF Idle
  <2> HIDE DEF q
  <2> QED
      BY <2>1, <2>2, IdleStands DEF Holding0
<1>6. CASE EraseRows(r)
  <2>1. req' = [req EXCEPT ![r] = [req[r] EXCEPT !.pc = "erase objects"]] /\ UNCHANGED <<access, root>>
      BY <1>6 DEF EraseRows, Go
  <2>2. [req[r] EXCEPT !.pc = "erase objects"].pc = "erase objects"
      BY <1>0 DEF Request
  <2> QED
      BY <2>1, <2>2, IdleStands DEF Holding0
<1>7. CASE EraseObjects(r)
  <2> DEFINE q == IF ~req[r].failed THEN [req[r] EXCEPT !.pc = "delete"] ELSE Idle
  <2>1. req' = [req EXCEPT ![r] = q] /\ UNCHANGED <<access, root>>
      BY <1>7 DEF EraseObjects, GoOn
  <2>2. q.pc \in {"delete", "idle"}
      BY <1>0 DEF Request
  <2> HIDE DEF q
  <2> QED
      BY <2>1, <2>2, IdleStands DEF Holding0
<1>8. CASE EraseFails(r)
  <2> DEFINE q == IF req[r].pc = "erase rows" THEN [req[r] EXCEPT !.failed = TRUE, !.pc = "erase objects"]
                  ELSE Idle
  <2>1. req' = [req EXCEPT ![r] = q] /\ UNCHANGED <<access, root>>
      BY <1>8 DEF EraseFails
  <2>2. q.pc \in {"erase objects", "idle"}
      BY <1>0 DEF Request
  <2> HIDE DEF q
  <2> QED
      BY <2>1, <2>2, IdleStands DEF Holding0
<1> QED
    BY <1>1, <1>2, <1>3, <1>4, <1>5, <1>6, <1>7, <1>8

----------------------------------------------------------------------------
(* Steps that change rows: each waits for the locks on what it changes.    *)

\* A new role, a deleted key, a membership that ends: of users nobody relies on.
LEMMA UserRowsStand ==
    ASSUME TypeOK, ReadsStand, NEW u, NEW s \in Requests, req'[s] = req[s],
           UNCHANGED <<grant, deny>>, root' = root,
           \A x \in Users : x # u => member'[x] = member[x],
           \A x \in Users : x # u => (x \in key <=> x \in key') /\ (x \in group => x \in group'),
           member'[u] = member[u] \/ ~MemberLocked(u),
           u \in key' \/ u \notin key \/ ~KeyLocked(u),
           u \in group' \/ u \notin group \/ ~GroupLocked(u)
    PROVE  Held(req[s])'
<1> DEFINE q == req[s]
<1>0. Held(q)
    BY DEF ReadsStand
<1>1. q.pc \in {"upload", "lock"} \cup Holding0 => q.user \in Users
    BY <1>0 DEF Held
<1>2. q.pc \in {"key", "groups", "grants", "denies", "commit"} => member'[q.user] = q.role /\ q.role \in Roles
    BY <1>0, <1>1 DEF Held, MemberLocked, Holding, Holding0
<1>3. q.pc \in {"groups", "grants", "denies", "commit"} => (q.user \in Keyed => q.user \in key')
    BY <1>0, <1>1 DEF Held, KeyLocked, Holding, Holding0, HasKey
<1>4. q.pc \in {"grants", "denies", "commit"} => (q.group => q.user \in group')
    BY <1>0, <1>1 DEF Held, GroupLocked, Holding0
<1> QED
    BY <1>0, <1>1, <1>2, <1>3, <1>4 DEF Held, HasKey, RolePermissions, LockedPrincipals, Granted, Denied

LEMMA AdministrationStands ==
    ASSUME TypeOK, ReadsStand, Administration
    PROVE  ReadsStand'
<1> SUFFICES ASSUME NEW s \in Requests PROVE Held(req[s])'
    BY DEF ReadsStand
<1>0. Held(req[s]) /\ req[s] \in Request
    BY RequestType DEF ReadsStand
<1>1. ASSUME NEW u \in Users, NEW role, ChangeOrgMember(u, role)
      PROVE  Held(req[s])'
    BY <1>1, UserRowsStand DEF ChangeOrgMember, TypeOK
<1>2. ASSUME NEW u \in Users, DeleteAPIKey(u) \/ AddGroupMember(u) \/ DeleteGroupMember(u)
      PROVE  Held(req[s])'
    BY <1>2, UserRowsStand DEF DeleteAPIKey, AddGroupMember, DeleteGroupMember, TypeOK
<1>3. ASSUME NEW p \in Principals, NEW g, CreateRootGrant(p, g) \/ DeleteRootGrant(p)
      PROVE  Held(req[s])'
  <2>1. req'[s] = req[s] /\ UNCHANGED <<member, key, group, deny, root>>
      BY <1>3 DEF CreateRootGrant, DeleteRootGrant
  <2>2. ASSUME req[s].pc \in {"denies", "commit"}, "sync" \in Granted(grant, LockedPrincipals(req[s]))
        PROVE  "sync" \in Granted(grant', LockedPrincipals(req[s]))
    <3>1. p \notin LockedPrincipals(req[s])
        BY <1>3, <2>2 DEF CreateRootGrant, DeleteRootGrant, RootLocked, GrantLocked
    <3>2. LockedPrincipals(req[s]) \subseteq Principals
        BY <1>0, <2>2 DEF Held, Holding0, LockedPrincipals, Principals
    <3>3. \A x \in LockedPrincipals(req[s]) : grant[x] = grant'[x]
        BY <1>3, <3>1, <3>2 DEF CreateRootGrant, DeleteRootGrant, TypeOK
    <3> QED
        BY <2>2, <3>3, GrantedSame
  <2> QED
      BY <2>1, <2>2, <1>0 DEF Held, HasKey, RolePermissions, LockedPrincipals, Denied
<1>4. ASSUME NEW t, CreateACL(t) \/ DeleteACL(t)
      PROVE  Held(req[s])'
  <2>1. req'[s] = req[s] /\ UNCHANGED <<member, key, group, grant, root>>
      BY <1>4 DEF CreateACL, DeleteACL
  <2>2. req[s].pc = "commit" => ~Denied(req[s].user, req[s].role)'
      BY <1>0, <1>4, <2>1 DEF CreateACL, DeleteACL, RootLocked, Denied, Held
  <2> QED
      BY <2>1, <2>2, <1>0 DEF Held, HasKey, RolePermissions, LockedPrincipals, Granted
<1>5. ASSUME NEW scope, NEW owner, CreateRoot(scope, owner) \/ AdminCreateRoot(scope, owner)
      PROVE  Held(req[s])'
  <2>1. req'[s] = req[s] /\ req[s].pc \notin Holding0
      BY <1>0, <1>5 DEF CreateRoot, AdminCreateRoot, Held
  <2> QED
      BY <2>1, <1>0, HoldsNothing DEF Held
<1> QED
    BY <1>1, <1>2, <1>3, <1>4, <1>5 DEF Administration

LEMMA RootGoes ==
    ASSUME TypeOK, ReadsStand, NEW r \in Requests,
           PrepareRootDeletion(r) \/ DeleteRoot(r) \/ DeleteOrganization(r)
    PROVE  ReadsStand'
<1> SUFFICES ASSUME NEW s \in Requests PROVE Held(req[s])'
    BY DEF ReadsStand
<1>0. Held(req[s]) /\ req[r] \in Request /\ Idle.pc = "idle"
    BY RequestType DEF ReadsStand, Idle
<1>1. req[s].pc \notin Holding0
    BY DEF PrepareRootDeletion, DeleteRoot, DeleteOrganization, RootLocked, Holding0
<1>2. s # r => req'[s] = req[s]
    BY DEF PrepareRootDeletion, DeleteRoot, DeleteOrganization, GoOn, Finish, TypeOK
<1>3. req'[r].pc \in {"erase rows", "delete user", "idle"}
  <2>1. CASE PrepareRootDeletion(r)
    <3>1. req'[r] = IF Exists THEN [req[r] EXCEPT !.pc = "erase rows"] ELSE Idle
        BY <2>1 DEF PrepareRootDeletion, GoOn, TypeOK
    <3> QED
        BY <3>1, <1>0 DEF Request
  <2>2. CASE DeleteRoot(r)
    <3>1. req'[r] = IF Exists /\ req[r].kind = "user" THEN [req[r] EXCEPT !.pc = "delete user"] ELSE Idle
        BY <2>2 DEF DeleteRoot, GoOn, TypeOK
    <3> QED
        BY <3>1, <1>0 DEF Request
  <2>3. CASE DeleteOrganization(r)
      BY <2>3, <1>0 DEF DeleteOrganization, Finish, TypeOK
  <2> QED
      BY <2>1, <2>2, <2>3
<1>4. CASE s = r
    BY <1>3, <1>4, HoldsNothing DEF Holding0
<1>5. CASE s # r
    BY <1>0, <1>1, <1>2, <1>5, HoldsNothing DEF Held
<1> QED
    BY <1>4, <1>5

LEMMA UserGoes ==
    ASSUME TypeOK, ReadsStand, NEW r \in Requests, DeleteUser(r)
    PROVE  ReadsStand'
<1> SUFFICES ASSUME NEW s \in Requests PROVE Held(req[s])'
    BY DEF ReadsStand
<1> DEFINE u == req[r].user
<1>0. Held(req[s]) /\ Idle.pc = "idle"
    BY DEF ReadsStand, Idle
<1>1. CASE s = r
  <2>1. req'[s] = Idle
      BY <1>1 DEF DeleteUser, Finish, TypeOK
  <2> QED
      BY <2>1, <1>0, HoldsNothing DEF Holding0
<1>2. CASE s # r
  <2>1. req'[s] = req[s]
      BY <1>2 DEF DeleteUser, Finish, TypeOK
  <2>2. CASE root.owner # u
    <3>1. root' = root
        BY <2>2 DEF DeleteUser, TypeOK, Root
    <3> QED
        BY <2>1, <3>1, UserRowsStand DEF DeleteUser, TypeOK
  <2>3. CASE root.owner = u
    <3>1. req[s].pc \notin Holding0
        BY <2>3 DEF DeleteUser, RootLocked, Holding0
    <3> QED
        BY <2>1, <3>1, <1>0, HoldsNothing DEF Held
  <2> QED
      BY <2>2, <2>3
<1> QED
    BY <1>1, <1>2

----------------------------------------------------------------------------
(* Types.                                                                  *)

LEMMA RequestMoves ==
    ASSUME TypeOK, NEW r \in Requests, NEW q \in Request, req' = [req EXCEPT ![r] = q]
    PROVE  req' \in [Requests -> Request]
BY DEF TypeOK

LEMMA IdleType == Idle \in Request
BY DEF Idle, Request, Pc, Standings

LEMMA NewType ==
    ASSUME NEW u \in Users \cup {NoUser}, NEW kind \in {"root", "user", "org"}, NEW pc \in Pc
    PROVE  [Idle EXCEPT !.user = u, !.kind = kind, !.pc = pc] \in Request
BY DEF Idle, Request, Standings

LEMMA PcType ==
    ASSUME NEW q \in Request, NEW pc \in Pc
    PROVE  [q EXCEPT !.pc = pc] \in Request
BY DEF Request

LEMMA CaptureType ==
    ASSUME TypeOK, NEW r \in Requests, Capture(r) \/ Abort(r)
    PROVE  TypeOK'
<1>0. req[r] \in Request /\ Idle \in Request
    BY RequestType, IdleType
<1>1. req' \in [Requests -> Request]
  <2>1. ASSUME NEW u \in Users, CaptureIdentity(r, u)
        PROVE  req' \in [Requests -> Request]
    <3>1. [Idle EXCEPT !.pc = "upload", !.user = u] \in Request
        BY DEF Idle, Request, Pc, Standings
    <3> QED
        BY <2>1, <3>1, RequestMoves DEF CaptureIdentity
  <2>2. CASE UploadManifests(r)
      BY <2>2, <1>0, PcType, RequestMoves DEF UploadManifests, Go, Pc
  <2>3. CASE LockRoot(r) \/ LockKey(r) \/ LockGrants(r) \/ ReadDenies(r)
      BY <2>3, <1>0, PcType, RequestMoves DEF LockRoot, LockKey, LockGrants, ReadDenies, GoOn, Pc
  <2>4. CASE LockMember(r)
    <3> DEFINE role == member[req[r].user]
               q == [req[r] EXCEPT !.pc = "key", !.role = role]
    <3>1. role \in Roles => q \in Request
        BY <1>0 DEF Request, Pc, Standings
    <3> QED
        BY <2>4, <3>1, <1>0, RequestMoves DEF LockMember
  <2>5. CASE LockGroups(r)
    <3> DEFINE g == UsesGroup(req[r].user)
               q == [req[r] EXCEPT !.pc = "grants", !.group = g]
    <3>1. g \in BOOLEAN
        BY DEF UsesGroup
    <3> HIDE DEF g
    <3>2. q \in Request
        BY <1>0, <3>1 DEF Request, Pc
    <3>3. req' = [req EXCEPT ![r] = q]
        BY <2>5 DEF LockGroups, TypeOK, g
    <3> QED
        BY <3>2, <3>3, RequestMoves
  <2>6. CASE Commit(r) \/ Abort(r)
      BY <2>6, <1>0, RequestMoves DEF Commit, Abort, Finish
  <2> QED
      BY <2>1, <2>2, <2>3, <2>4, <2>5, <2>6 DEF Capture
<1>2. /\ UNCHANGED <<access, root, targets, changes>>
      /\ flying' \subseteq Artifacts /\ stored' \subseteq Artifacts
      /\ UNCHANGED faults \/ (faults < MaxFaults /\ faults' = faults + 1)
    BY DEF Capture, Abort, CaptureIdentity, UploadManifests, LockRoot, LockMember, LockKey, LockGroups,
       LockGrants, ReadDenies, Commit, artifacts, bounds, TypeOK, Artifacts
<1>3. faults' \in 0..MaxFaults
    BY <1>2, AccessAssumption DEF TypeOK
<1> QED
    BY <1>1, <1>2, <1>3 DEF TypeOK, access

LEMMA DeletionType ==
    ASSUME TypeOK, NEW r \in Requests, Deletion(r)
    PROVE  TypeOK'
<1>0. req[r] \in Request /\ Idle \in Request
    BY RequestType, IdleType
<1>1. req' \in [Requests -> Request]
  <2>1. CASE (\E u \in Users : HandleDeleteRoot(r, u)) \/ HandleAdminDeleteRoot(r)
      BY <2>1, <1>0, PcType, RequestMoves DEF HandleDeleteRoot, HandleAdminDeleteRoot, Pc
  <2>2. ASSUME NEW u \in Users, HandleAdminDeleteUser(r, u)
        PROVE  req' \in [Requests -> Request]
    <3> DEFINE pc == IF Exists /\ root.owner = u THEN "prepare" ELSE "delete user"
    <3>1. pc \in Pc /\ req' = [req EXCEPT ![r] = [Idle EXCEPT !.user = u, !.kind = "user", !.pc = pc]]
        BY <2>2 DEF HandleAdminDeleteUser, Pc
    <3> HIDE DEF pc
    <3>2. [Idle EXCEPT !.user = u, !.kind = "user", !.pc = pc] \in Request
        BY <3>1, NewType
    <3> QED
        BY <3>1, <3>2, RequestMoves
  <2>3. CASE HandleAdminDeleteOrg(r)
    <3> DEFINE pc == IF Exists THEN "prepare" ELSE "delete"
               q == [Idle EXCEPT !.kind = "org", !.pc = pc]
    <3>1. pc \in Pc /\ req' = [req EXCEPT ![r] = q]
        BY <2>3 DEF HandleAdminDeleteOrg, Pc
    <3> HIDE DEF pc
    <3>2. q \in Request
        BY <3>1 DEF Idle, Request, Standings
    <3> HIDE DEF q
    <3> QED
        BY <3>1, <3>2, RequestMoves
  <2>4. CASE PrepareRootDeletion(r) \/ DeleteRoot(r) \/ EraseObjects(r)
      BY <2>4, <1>0, PcType, RequestMoves DEF PrepareRootDeletion, DeleteRoot, EraseObjects, GoOn, Pc
  <2>5. CASE EraseRows(r)
      BY <2>5, <1>0, PcType, RequestMoves DEF EraseRows, Go, Pc
  <2>6. CASE EraseFails(r)
    <3>1. [req[r] EXCEPT !.failed = TRUE, !.pc = "erase objects"] \in Request
        BY <1>0 DEF Request, Pc
    <3> QED
        BY <2>6, <3>1, <1>0, RequestMoves DEF EraseFails
  <2>7. CASE DeleteUser(r) \/ DeleteOrganization(r)
      BY <2>7, <1>0, RequestMoves DEF DeleteUser, DeleteOrganization, Finish
  <2> QED
      BY <2>1, <2>2, <2>3, <2>4, <2>5, <2>6, <2>7 DEF Deletion
<1>2. root' \in Root
  <2>1. ASSUME NEW state \in {"none", "live", "deleting", "gone"}
        PROVE  [root EXCEPT !.state = state] \in Root
      BY DEF TypeOK, Root
  <2>2. CASE DeleteUser(r)
    <3> DEFINE owner == IF root.owner = req[r].user THEN NoUser ELSE root.owner
    <3>1. owner \in Users \cup {NoUser} /\ root' = [root EXCEPT !.owner = owner]
        BY <2>2 DEF DeleteUser, TypeOK, Root
    <3> HIDE DEF owner
    <3> QED
        BY <3>1 DEF TypeOK, Root
  <2>3. CASE ~DeleteUser(r)
    <3>1. \/ UNCHANGED root \/ root' = [root EXCEPT !.state = "deleting"] \/ root' = [root EXCEPT !.state = "gone"]
        BY <2>3 DEF Deletion, HandleDeleteRoot, HandleAdminDeleteRoot, HandleAdminDeleteUser, HandleAdminDeleteOrg,
           PrepareRootDeletion, EraseRows, EraseObjects, EraseFails, DeleteRoot, DeleteOrganization, GoneRoot
    <3> QED
        BY <2>1, <3>1 DEF TypeOK
  <2> QED
      BY <2>2, <2>3
<1>3. org' \in BOOLEAN /\ member' \in [Users -> Standings] /\ key' \subseteq Users /\ group' \subseteq Users
  <2>1. CASE DeleteUser(r)
      BY <2>1 DEF DeleteUser, TypeOK, Standings
  <2>2. CASE DeleteOrganization(r)
      BY <2>2 DEF DeleteOrganization, TypeOK, Standings
  <2>3. CASE ~DeleteUser(r) /\ ~DeleteOrganization(r)
    <3>1. UNCHANGED <<org, member, key, group>>
        BY <2>3 DEF Deletion, HandleDeleteRoot, HandleAdminDeleteRoot, HandleAdminDeleteUser, HandleAdminDeleteOrg,
           PrepareRootDeletion, EraseRows, EraseObjects, EraseFails, DeleteRoot, access
    <3> QED
        BY <3>1 DEF TypeOK
  <2> QED
      BY <2>1, <2>2, <2>3
<1>4. grant' \in [Principals -> SUBSET Permissions] /\ deny' \subseteq Targets
    BY DEF Deletion, HandleDeleteRoot, HandleAdminDeleteRoot, HandleAdminDeleteUser, HandleAdminDeleteOrg,
       PrepareRootDeletion, EraseRows, EraseObjects, EraseFails, DeleteRoot, DeleteUser, DeleteOrganization,
       access, TypeOK
<1>5. flying' \subseteq Artifacts /\ stored' \subseteq Artifacts /\ targets' \subseteq Artifacts
    BY DEF Deletion, HandleDeleteRoot, HandleAdminDeleteRoot, HandleAdminDeleteUser, HandleAdminDeleteOrg,
       PrepareRootDeletion, EraseRows, EraseObjects, EraseFails, DeleteRoot, DeleteUser, DeleteOrganization,
       artifacts, TypeOK, RetainTargets, GoneRoot
<1>6. /\ UNCHANGED changes \/ (changes < MaxChanges /\ changes' = changes + 1)
      /\ UNCHANGED faults \/ (faults < MaxFaults /\ faults' = faults + 1)
    BY DEF Deletion, HandleDeleteRoot, HandleAdminDeleteRoot, HandleAdminDeleteUser,
       HandleAdminDeleteOrg, PrepareRootDeletion, EraseRows, EraseObjects, EraseFails, DeleteRoot, DeleteUser,
       DeleteOrganization, bounds, Change
<1>7. changes' \in 0..MaxChanges /\ faults' \in 0..MaxFaults
    BY <1>6, AccessAssumption DEF TypeOK
<1> QED
    BY <1>1, <1>2, <1>3, <1>4, <1>5, <1>7 DEF TypeOK

LEMMA AdministrationType ==
    ASSUME TypeOK, Administration
    PROVE  TypeOK'
<1>1. ASSUME NEW u \in Users, NEW role \in Roles \cup {"none"}, ChangeOrgMember(u, role)
      PROVE  TypeOK'
    BY <1>1, AccessAssumption DEF ChangeOrgMember, Change, TypeOK, Standings, artifacts
<1>2. ASSUME NEW u \in Users, DeleteAPIKey(u) \/ AddGroupMember(u) \/ DeleteGroupMember(u)
      PROVE  TypeOK'
    BY <1>2, AccessAssumption DEF DeleteAPIKey, AddGroupMember, DeleteGroupMember, Change, TypeOK, artifacts
<1>3. ASSUME NEW p \in Principals, (\E g \in Grantable : CreateRootGrant(p, {g})) \/ DeleteRootGrant(p)
      PROVE  TypeOK'
    BY <1>3, AccessAssumption DEF CreateRootGrant, DeleteRootGrant, Change, TypeOK, artifacts
<1>4. ASSUME NEW t \in Deniable, CreateACL(t) \/ DeleteACL(t)
      PROVE  TypeOK'
    BY <1>4, AccessAssumption DEF CreateACL, DeleteACL, Change, TypeOK, artifacts
<1>5. ASSUME NEW scope \in Scopes, NEW owner \in Users \cup {NoUser},
             CreateRoot(scope, owner) \/ AdminCreateRoot(scope, owner)
      PROVE  TypeOK'
    BY <1>5, AccessAssumption DEF CreateRoot, AdminCreateRoot, TypeOK, Root, access, artifacts, bounds
<1> QED
    BY <1>1, <1>2, <1>3, <1>4, <1>5 DEF Administration

LEMMA ArtifactType ==
    ASSUME TypeOK, NEW a \in Artifacts, WriteLands(a) \/ SweepTarget(a)
    PROVE  TypeOK'
BY DEF WriteLands, SweepTarget, Reschedule, TypeOK, access, bounds

----------------------------------------------------------------------------
(* The theorems.                                                           *)

\* Every reachable state is well typed, for any users, requests and bounds.
THEOREM TypeCorrect == Spec => []TypeOK
<1>1. Init => TypeOK
    BY IdleType, AccessAssumption DEF Init, TypeOK, Root, Standings
<1>2. TypeOK /\ [Next]_vars => TypeOK'
  <2> SUFFICES ASSUME TypeOK, [Next]_vars PROVE TypeOK'
      OBVIOUS
  <2>1. CASE UNCHANGED vars
      BY <2>1 DEF vars, access, artifacts, bounds, TypeOK
  <2>2. CASE Next
      BY <2>2, CaptureType, DeletionType, AdministrationType, ArtifactType DEF Next
  <2> QED
      BY <2>1, <2>2
<1> QED
    BY <1>1, <1>2, PTL DEF Spec

\* Between a capture's own reads and its commit nothing it relies on can be
\* revoked: the role, the key, the group membership, the grants and the denies
\* it read still authorize it when it commits, and the root is not being
\* deleted (authorizeCaptureCommit, RegisterFileVersions).
THEOREM CapturesAreAuthorized == Spec => []CommitIsAuthorized
<1>1. Init => ReadsStand
  <2> SUFFICES ASSUME Init, NEW r \in Requests PROVE Held(req[r])
      BY DEF ReadsStand
  <2>1. req[r].pc = "idle"
      BY DEF Init, Idle
  <2> QED
      BY <2>1 DEF Held, Holding0
<1>2. TypeOK /\ ReadsStand /\ [Next]_vars => ReadsStand'
  <2> SUFFICES ASSUME TypeOK, ReadsStand, [Next]_vars PROVE ReadsStand'
      OBVIOUS
  <2>1. CASE UNCHANGED vars \/ \E a \in Artifacts : WriteLands(a) \/ SweepTarget(a)
    <3>1. UNCHANGED <<access, root, req>>
        BY <2>1 DEF vars, WriteLands, SweepTarget
    <3> QED
        BY <3>1, Unmoved DEF ReadsStand
  <2>2. ASSUME NEW r \in Requests, Capture(r) \/ Abort(r)
        PROVE  ReadsStand'
      BY <2>2, CaptureIdentityStands, UploadStands, StatementStands, RequestStands DEF Capture
  <2>3. ASSUME NEW r \in Requests, Deletion(r)
        PROVE  ReadsStand'
      BY <2>3, RequestStands, RootGoes, UserGoes DEF Deletion
  <2> QED
      BY <2>1, <2>2, <2>3, AdministrationStands DEF Next
<1>3. TypeOK /\ ReadsStand => CommitIsAuthorized
    BY StandsIsAuthorized
<1> QED
    BY <1>1, <1>2, <1>3, TypeCorrect, PTL DEF Spec

====
