------------------------------ MODULE Accounts ------------------------------
(***************************************************************************)
(* Users, the members of one organization ("the team"), its invitations,   *)
(* API keys and sessions, and the logins that create all of them.  A        *)
(* request reads the caller's identity once, in the middleware, and its     *)
(* statements run later, one transaction each, between those of other       *)
(* requests; a login is a sequence of separate statements.  The platform    *)
(* administrator's requests are single statements.                          *)
(*                                                                         *)
(* A user is a number that is never used twice; 0 is no user.  Personal     *)
(* organizations appear only as the membership that decides where a login   *)
(* lands.                                                                   *)
(***************************************************************************)
EXTENDS Integers, FiniteSets

CONSTANTS
    Emails,         \* addresses that log in or are invited
    NoEmail,        \* users.email of a row that does not exist
    Assignable,     \* the roles that requests name
    Requests,       \* requests the server handles at the same time
    MaxAttempts,    \* emailLoginMaxAttempts
    RateLimit,      \* emailLoginRateLimitMax
    MaxUsers, MaxKeys, MaxCodes, MaxInvites,    \* bounds: rows ever inserted
    MaxCalls        \* bound: requests begun and sessions expired

Roles == {"owner", "admin", "editor", "viewer"}
Privileged == {"owner", "admin"}
Users == 1..MaxUsers
Keys == 1..MaxKeys
Codes == 1..MaxCodes
Platform == 0

ASSUME AccountsAssumption ==
    /\ {MaxAttempts, RateLimit, MaxUsers, MaxKeys, MaxCodes, MaxInvites,
        MaxCalls} \subseteq Nat
    /\ MaxUsers > 1 /\ MaxAttempts > 0
    /\ Assignable \subseteq Roles /\ NoEmail \notin Emails

VARIABLES
    mail,           \* users.email, by user
    member,         \* org_members.role in the team, "none" without a row
    personal,       \* the membership of a personal organization: none, or older
                    \* or newer than that of the team
    invite,         \* org_invites of the team, by email
    key,            \* api_keys of the team
    session,        \* users with an unexpired JWT for the team
    code,           \* email_login_challenges
    req,            \* the requests in progress
    made,           \* rows ever inserted, whose ids are never used again
    calls,          \* requests begun and sessions expired
    spent,          \* history: how often each code was redeemed
    by, owners,     \* history: who gave each role; who has been an owner
    owned           \* history: the team had an owner after the platform's last change

rows == <<mail, member, personal, invite, key>>
logins == <<session, code, spent>>
history == <<by, owners, owned>>
vars == <<rows, logins, req, made, calls, history>>

Flows == {"web", "cli"}
Someone == Users \cup {0}
MaybeRole == Roles \cup {"none"}
Scopes == {"cli", "admin"}      \* sync, query, root:delete; org:admin, api_keys:write
Invite == [id: 0..MaxInvites, role: MaybeRole, by: Someone]
Key == [uid: Someone, scope: Scopes]
\* age 0 within the resend delay, 1 within the lifetime, 2 within the hour of
\* the rate limit, 3 later (DeleteExpiredEmailLoginChallenges may have removed it)
Code == [email: Emails \cup {NoEmail}, flow: Flows, sent: BOOLEAN, age: 0..3,
         attempts: Nat, consumed: BOOLEAN]
Request == [pc: {"idle", "mail", "wrong", "consume", "find", "create", "identity", "invited",
                 "join", "membership", "workspace", "owner", "enter", "change", "invite",
                 "get invite", "revoke", "new key", "drop key"},
            flow: Flows, email: Emails \cup {NoEmail}, code: 0..MaxCodes, team: BOOLEAN,
            uid: Someone, role: MaybeRole, key: 0..MaxKeys, mode: {"upsert", "update", "delete"},
            target: Someone, grant: MaybeRole, row: 0..MaxInvites, by: Someone]

NoInvite == [id |-> 0, role |-> "none", by |-> 0]
NoAPIKey == [uid |-> 0, scope |-> "cli"]
NoCode == [email |-> NoEmail, flow |-> "web", sent |-> FALSE, age |-> 3,
           attempts |-> 0, consumed |-> FALSE]
Idle == [pc |-> "idle", flow |-> "web", email |-> NoEmail, code |-> 0, team |-> FALSE, uid |-> 0,
         role |-> "none", key |-> 0, mode |-> "upsert", target |-> 0, grant |-> "none", row |-> 0, by |-> 0]

HasOwner == \E u \in Users : member[u] = "owner"

TypeOK ==
    /\ mail \in [Users -> Emails \cup {NoEmail}]
    /\ \A u, v \in Users : mail[u] = mail[v] /\ mail[u] # NoEmail => u = v
    /\ member \in [Users -> MaybeRole] /\ personal \in [Users -> {"none", "older", "newer"}]
    /\ invite \in [Emails -> Invite] /\ key \in [Keys -> Key]
    /\ \A u \in Users : mail[u] = NoEmail =>
          /\ member[u] = "none" /\ personal[u] = "none"
          /\ \A e \in Emails : invite[e].by # u
          /\ \A k \in Keys : key[k].uid # u
    /\ session \subseteq Users /\ code \in [Codes -> Code]
    /\ req \in [Requests -> Request] /\ spent \in [Codes -> Nat]
    /\ made \in [user: Users, key: 0..MaxKeys, code: 0..MaxCodes, invite: 0..MaxInvites]
    /\ calls \in 0..MaxCalls /\ by \in [Users -> Someone] /\ owners \subseteq Users /\ owned \in BOOLEAN

\* An owner and, when there is a second user, that one in any role.
Init ==
    /\ \E e, f \in Emails, second \in {0, 2} :
          /\ e # f /\ mail = [u \in Users |-> IF u = 1 THEN e ELSE IF u = second THEN f ELSE NoEmail]
          /\ made = [user |-> IF second = 2 THEN 2 ELSE 1, key |-> 0, code |-> 0, invite |-> 0]
          /\ \E role \in Assignable \cup {"none"} : /\ second = 0 => role = "none"
                /\ member = [u \in Users |-> IF u = 1 THEN "owner" ELSE IF u = 2 THEN role ELSE "none"]
                /\ owners = IF role = "owner" THEN {1, 2} ELSE {1}
          /\ session = IF second = 2 THEN {1, 2} ELSE {1}
    /\ personal = [u \in Users |-> "none"]
    /\ invite = [e \in Emails |-> NoInvite] /\ key = [k \in Keys |-> NoAPIKey]
    /\ code = [c \in Codes |-> NoCode]
    /\ req = [r \in Requests |-> Idle] /\ spent = [c \in Codes |-> 0]
    /\ calls = 0 /\ by = [u \in Users |-> Platform] /\ owned = TRUE

----------------------------------------------------------------------------
(* Steps of a request and the effect of a change of membership.            *)

At(r, pc) == req[r].pc = pc
Call == calls < MaxCalls /\ calls' = calls + 1
Go(r, pc) == req' = [req EXCEPT ![r].pc = pc]
Finish(r) == req' = [req EXCEPT ![r] = Idle]
GoOn(r, cond, pc) == req' = [req EXCEPT ![r] = IF cond THEN [@ EXCEPT !.pc = pc] ELSE Idle]

NewUser(e) ==
    /\ made.user < MaxUsers /\ made' = [made EXCEPT !.user = @ + 1]
    /\ mail' = [mail EXCEPT ![made.user + 1] = e]
NewKey(u, scope) ==
    /\ made.key < MaxKeys /\ made' = [made EXCEPT !.key = @ + 1]
    /\ key' = [key EXCEPT ![made.key + 1] = [uid |-> u, scope |-> scope]]

SetRole(u, role, actor) ==
    /\ member' = [member EXCEPT ![u] = role]
    /\ by' = [by EXCEPT ![u] = IF role = member[u] THEN @ ELSE actor]
    /\ owners' = IF role = "owner" THEN owners \cup {u} ELSE owners
    /\ personal' = [personal EXCEPT ![u] = IF member[u] = "none" /\ @ # "none" THEN "older" ELSE @]

\* The connection, the process or a statement fails: what is committed stays.
Abort(r) == ~At(r, "idle") /\ Finish(r) /\ UNCHANGED <<rows, logins, made, history, calls>>

----------------------------------------------------------------------------
(* Login codes.                                                            *)

CountRecent(e, age) == Cardinality({c \in Codes : code[c].email = e /\ code[c].age <= age})

HandleEmailLoginStart(r, e, flow) ==
    /\ At(r, "idle") /\ Call /\ CountRecent(e, 0) = 0 /\ CountRecent(e, 2) < RateLimit
    /\ req' = [req EXCEPT ![r] = [Idle EXCEPT !.pc = "mail", !.email = e, !.flow = flow]]
    /\ UNCHANGED <<rows, logins, made, history>>

\* The row is inserted before the message is sent, which may fail.
CreateEmailLoginChallenge(r, sent) ==
    /\ At(r, "mail") /\ made.code < MaxCodes /\ made' = [made EXCEPT !.code = @ + 1]
    /\ code' = [code EXCEPT ![made.code + 1] =
          [NoCode EXCEPT !.email = req[r].email, !.flow = req[r].flow, !.sent = sent, !.age = 0]]
    /\ Finish(r) /\ UNCHANGED <<rows, session, spent, history, calls>>

TimePasses(c) ==
    /\ code[c].email # NoEmail /\ code[c].age < 3 /\ \A d \in 1..(c - 1) : code[d].age > code[c].age
    /\ code' = [code EXCEPT ![c].age = @ + 1]
    /\ UNCHANGED <<rows, session, spent, req, made, history, calls>>

Usable(c) == ~code[c].consumed /\ code[c].age <= 1 /\ code[c].attempts < MaxAttempts

HandleEmailLoginVerify(r, c, right) ==
    /\ At(r, "idle") /\ Call /\ code[c].email # NoEmail /\ Usable(c) /\ (right => code[c].sent)
    /\ req' = [req EXCEPT ![r] = [Idle EXCEPT !.pc = IF right THEN "consume" ELSE "wrong",
          !.email = code[c].email, !.flow = code[c].flow, !.code = c]]
    /\ UNCHANGED <<rows, logins, made, history>>

IncrementAttempts(r) ==
    /\ At(r, "wrong") /\ code' = [code EXCEPT ![req[r].code].attempts = @ + 1]
    /\ Finish(r) /\ UNCHANGED <<rows, session, spent, made, history, calls>>

\* Mutant of Unconsumed: consumed_at IS NULL was checked when the code was read.
UnconsumedWhenRead(c) == TRUE

Unconsumed(c) == ~code[c].consumed

ConsumeEmailLoginChallenge(r) ==
    /\ At(r, "consume")
    /\ \/ /\ Unconsumed(req[r].code)
          /\ code' = [code EXCEPT ![req[r].code].consumed = TRUE]
          /\ spent' = [spent EXCEPT ![req[r].code] = @ + 1] /\ Go(r, "find")
       \/ /\ ~Unconsumed(req[r].code) /\ Finish(r) /\ UNCHANGED <<code, spent>>
    /\ UNCHANGED <<rows, session, made, history, calls>>

----------------------------------------------------------------------------
(* OAuth.  A callback comes here with a state the server signed, matching  *)
(* the cookie of the browser that began the login, for the flow it chose.  *)

HandleCallback(r, e, flow) ==
    /\ At(r, "idle") /\ Call
    /\ req' = [req EXCEPT ![r] = [Idle EXCEPT !.pc = "find", !.email = e, !.flow = flow]]
    /\ UNCHANGED <<rows, logins, made, history>>

----------------------------------------------------------------------------
(* CompleteLogin.                                                          *)

Having(e) == {u \in Users : mail[u] = e}

FindLoginUser(r) ==
    /\ At(r, "find")
    /\ \/ \E u \in Having(req[r].email) : req' = [req EXCEPT ![r].uid = u, ![r].pc = "identity"]
       \/ Having(req[r].email) = {} /\ Go(r, "create")
    /\ UNCHANGED <<rows, logins, made, history, calls>>

\* users.email is unique: a login that lost the race fails.
CreateLoginUser(r) ==
    /\ At(r, "create")
    /\ \/ /\ Having(req[r].email) = {} /\ NewUser(req[r].email)
          /\ req' = [req EXCEPT ![r].uid = made.user + 1, ![r].pc = "identity"]
       \/ Having(req[r].email) # {} /\ Finish(r) /\ UNCHANGED <<mail, made>>
    /\ UNCHANGED <<member, personal, invite, key, logins, history, calls>>

Exists(u) == mail[u] # NoEmail

UpsertUserIdentity(r) ==
    /\ At(r, "identity") /\ GoOn(r, Exists(req[r].uid), "invited")
    /\ UNCHANGED <<rows, logins, made, history, calls>>

ReadPendingInvite(r) ==
    /\ At(r, "invited")
    /\ LET i == invite[req[r].email] IN
       \/ i.id # 0 /\ req' = [req EXCEPT ![r].pc = "join", ![r].row = i.id, ![r].grant = i.role, ![r].by = i.by]
       \/ i.id = 0 /\ Go(r, "membership")
    /\ UNCHANGED <<rows, logins, made, history, calls>>

\* change_org_member(..., 'join'): an existing role stays.
Joined(u, role) == IF member[u] = "none" THEN role ELSE member[u]
WithoutInvite(i) == [e \in Emails |-> IF invite[e].id = i THEN NoInvite ELSE invite[e]]

AcceptPendingInvite(r) ==
    /\ At(r, "join")
    /\ LET q == req[r] IN
       \/ /\ Exists(q.uid) /\ SetRole(q.uid, Joined(q.uid, q.grant), q.by)
          /\ owned' = (owned \/ Joined(q.uid, q.grant) = "owner")
          /\ invite' = WithoutInvite(q.row)
          /\ req' = [req EXCEPT ![r].pc = "enter", ![r].team = TRUE]
       \/ ~Exists(q.uid) /\ Finish(r) /\ UNCHANGED <<member, personal, invite, history>>
    /\ UNCHANGED <<mail, key, logins, made, calls>>

\* The login enters the organization the user joined first.
LookUpMembership(r) ==
    /\ At(r, "membership")
    /\ LET u == req[r].uid
           inTeam == member[u] # "none" /\ personal[u] # "older"
       IN IF inTeam \/ personal[u] # "none"
          THEN req' = [req EXCEPT ![r].pc = "enter", ![r].team = inTeam]
          ELSE Go(r, "workspace")
    /\ UNCHANGED <<rows, logins, made, history, calls>>

CreatePersonalOrganization(r) ==
    /\ At(r, "workspace") /\ Go(r, "owner") /\ UNCHANGED <<rows, logins, made, history, calls>>

AddPersonalOwner(r) ==
    /\ At(r, "owner") /\ GoOn(r, Exists(req[r].uid), "enter")
    /\ personal' = [personal EXCEPT ![req[r].uid] = IF Exists(req[r].uid) /\ @ = "none"
             THEN IF member[req[r].uid] = "none" THEN "older" ELSE "newer" ELSE @]
    /\ UNCHANGED <<mail, member, invite, key, logins, made, history, calls>>

IsMember(u) == member[u] # "none"

\* A session, or for the command line a key, whose insert checks membership.
FinishLogin(r) ==
    /\ At(r, "enter") /\ Finish(r)
    /\ LET q == req[r] IN
       \/ q.flow = "web" /\ session' = (IF q.team THEN session \cup {q.uid} ELSE session)
            /\ UNCHANGED <<key, made>>
       \/ q.flow = "cli" /\ q.team /\ IsMember(q.uid) /\ NewKey(q.uid, "cli") /\ UNCHANGED session
       \/ q.flow = "cli" /\ (q.team => ~IsMember(q.uid)) /\ UNCHANGED <<key, made, session>>
    /\ UNCHANGED <<mail, member, personal, invite, code, spent, history, calls>>

SessionEnds(u) ==
    /\ Call /\ u \in session /\ session' = session \ {u}
    /\ UNCHANGED <<rows, code, spent, req, made, history>>

----------------------------------------------------------------------------
(* Requests of members.  The middleware resolves the session or the key to *)
(* the role of this moment; k = 0 is a session.                             *)

HasScope(k, scope) == k # 0 => key[k].scope = scope
Identity(u, k) == IF k = 0 THEN u \in session ELSE key[k].uid = u
Authenticated(r, u, k) ==
    /\ At(r, "idle") /\ k \in {0} \cup Keys /\ Identity(u, k) /\ IsMember(u)
As(u, k) == [Idle EXCEPT !.uid = u, !.key = k, !.role = member[u]]
RequireOrgAdmin(u, k) == member[u] \in Privileged /\ HasScope(k, "admin")

HandleChangeMember(r, u, k, mode, target, role) ==
    /\ Call /\ Authenticated(r, u, k) /\ RequireOrgAdmin(u, k)
    /\ req' = [req EXCEPT ![r] = [As(u, k) EXCEPT !.pc = "change", !.mode = mode, !.target = target,
          !.grant = IF mode = "delete" THEN "none" ELSE role]]
    /\ UNCHANGED <<rows, logins, made, history>>

ValidKey(q, scope) == q.key # 0 => key[q.key].uid = q.uid /\ key[q.key].scope = scope

\* Mutant of MayChange: the actor's role is the one the middleware read.
MayChangeAsRead(q) ==
    LET role == member[q.target]
    IN /\ q.role \in Privileged /\ ValidKey(q, "admin")
       /\ role = "none" => q.mode = "upsert" /\ Exists(q.target)
       /\ q.uid = q.target => q.mode = "upsert" /\ role = q.grant
       /\ q.role = "admin" => role \notin Privileged /\ q.grant \notin Privileged

\* change_org_member's checks, under the lock of the organization.
MayChange(q) ==
    LET actor == member[q.uid]
        role == member[q.target]
    IN /\ actor \in Privileged /\ ValidKey(q, "admin")
       /\ role = "none" => q.mode = "upsert" /\ Exists(q.target)
       /\ q.uid = q.target => q.mode = "upsert" /\ role = q.grant
       /\ actor = "admin" => role \notin Privileged /\ q.grant \notin Privileged

ChangeOrgMember(r) ==
    /\ At(r, "change") /\ Finish(r)
    /\ LET q == req[r] IN
       \/ MayChange(q) /\ SetRole(q.target, q.grant, q.uid) /\ owned' = (owned \/ q.grant = "owner")
       \/ ~MayChange(q) /\ UNCHANGED <<member, personal, history>>
    /\ UNCHANGED <<mail, invite, key, logins, made, calls>>

\* Mutant of CanAssignRole: an administrator may name any role.
CanAssignAny(actor, role) == actor \in Privileged

CanAssignRole(actor, role) == actor = "owner" \/ (actor = "admin" /\ role \notin Privileged)

HandleCreateInvite(r, u, k, e, role) ==
    /\ Call /\ Authenticated(r, u, k) /\ RequireOrgAdmin(u, k) /\ CanAssignRole(member[u], role)
    /\ req' = [req EXCEPT ![r] = [As(u, k) EXCEPT !.pc = "invite", !.email = e, !.grant = role]]
    /\ UNCHANGED <<rows, logins, made, history>>

\* An invitation that exists keeps its id.  The inviter is a foreign key.
InviteOrgMember(r) ==
    /\ At(r, "invite") /\ Finish(r)
    /\ LET q == req[r]
           new == invite[q.email].id = 0
       IN \/ /\ Exists(q.uid) /\ (new => made.invite < MaxInvites)
             /\ made' = [made EXCEPT !.invite = IF new THEN @ + 1 ELSE @]
             /\ invite' = [invite EXCEPT ![q.email] =
                   [id |-> IF new THEN made.invite + 1 ELSE @.id, role |-> q.grant, by |-> q.uid]]
          \/ ~Exists(q.uid) /\ UNCHANGED <<made, invite>>
    /\ UNCHANGED <<mail, member, personal, key, logins, history, calls>>

HandleDeleteInvite(r, u, k, i) ==
    /\ Call /\ Authenticated(r, u, k) /\ RequireOrgAdmin(u, k)
    /\ req' = [req EXCEPT ![r] = [As(u, k) EXCEPT !.pc = "get invite", !.row = i]]
    /\ UNCHANGED <<rows, logins, made, history>>

CanManageMemberRole(actor, role) == actor = "owner" \/ role \notin Privileged

GetOrgInvite(r) ==
    /\ At(r, "get invite")
    /\ GoOn(r, \E e \in Emails : /\ invite[e].id = req[r].row
                                 /\ CanManageMemberRole(req[r].role, invite[e].role), "revoke")
    /\ UNCHANGED <<rows, logins, made, history, calls>>

DeleteOrgInvite(r) ==
    /\ At(r, "revoke") /\ invite' = WithoutInvite(req[r].row) /\ Finish(r)
    /\ UNCHANGED <<mail, member, personal, key, logins, made, history, calls>>

HandleCreateAPIKey(r, u, k) ==
    /\ Call /\ Authenticated(r, u, k) /\ HasScope(k, "admin")
    /\ req' = [req EXCEPT ![r] = [As(u, k) EXCEPT !.pc = "new key"]]
    /\ UNCHANGED <<rows, logins, made, history>>

CreateAPIKey(r, scope) ==
    /\ At(r, "new key") /\ Finish(r)
    /\ LET q == req[r]
           allowed == IsMember(q.uid) /\ ValidKey(q, "admin")
       IN \/ allowed /\ NewKey(q.uid, scope)
          \/ ~allowed /\ UNCHANGED <<key, made>>
    /\ UNCHANGED <<mail, member, personal, invite, logins, history, calls>>

HandleDeleteAPIKey(r, u, k, row) ==
    /\ Call /\ Authenticated(r, u, k) /\ HasScope(k, "admin")
    /\ req' = [req EXCEPT ![r] = [As(u, k) EXCEPT !.pc = "drop key", !.key = row]]
    /\ UNCHANGED <<rows, logins, made, history>>

DeleteAPIKey(r) ==
    /\ At(r, "drop key") /\ key' = [key EXCEPT ![req[r].key] = NoAPIKey] /\ Finish(r)
    /\ UNCHANGED <<mail, member, personal, invite, logins, made, history, calls>>

----------------------------------------------------------------------------
(* The platform administrator.                                             *)

\* A known external id moves a user to another address.
ProvisionUser(e) ==
    /\ Call /\ Having(e) = {}
    /\ \/ NewUser(e)
       \/ \E u \in Users : Exists(u) /\ mail' = [mail EXCEPT ![u] = e] /\ UNCHANGED made
    /\ UNCHANGED <<member, personal, invite, key, logins, req, history>>

HandleAdminUpsertMember(u, role) ==
    /\ Call /\ Exists(u) /\ SetRole(u, role, Platform)
    /\ owned' = \E v \in Users : member'[v] = "owner"
    /\ UNCHANGED <<mail, invite, key, logins, req, made>>

HandleAdminCreateAPIKey(u) ==
    /\ Call /\ IsMember(u) /\ NewKey(u, "admin")
    /\ UNCHANGED <<mail, member, personal, invite, logins, req, history>>

\* Mutant of KeysWithout: a deleted user's keys stay.
KeysKept(u) == key

KeysWithout(u) == [k \in Keys |-> IF key[k].uid = u THEN NoAPIKey ELSE key[k]]

\* Keys, memberships and the invitations the user sent go with the user.
DeleteUser(u) ==
    /\ Call /\ Exists(u) /\ mail' = [mail EXCEPT ![u] = NoEmail]
    /\ member' = [member EXCEPT ![u] = "none"] /\ personal' = [personal EXCEPT ![u] = "none"]
    /\ key' = KeysWithout(u)
    /\ invite' = [e \in Emails |-> IF invite[e].by = u THEN NoInvite ELSE invite[e]]
    /\ owned' = \E v \in Users : member'[v] = "owner"
    /\ UNCHANGED <<logins, req, made, by, owners>>

----------------------------------------------------------------------------

Login(r) ==
    \/ \E e \in Emails, flow \in Flows : HandleEmailLoginStart(r, e, flow)
    \/ \E sent \in BOOLEAN : CreateEmailLoginChallenge(r, sent)
    \/ \E c \in Codes, right \in BOOLEAN : HandleEmailLoginVerify(r, c, right)
    \/ IncrementAttempts(r) \/ ConsumeEmailLoginChallenge(r)
    \/ \E e \in Emails, flow \in Flows : HandleCallback(r, e, flow)
    \/ FindLoginUser(r) \/ CreateLoginUser(r) \/ UpsertUserIdentity(r)
    \/ ReadPendingInvite(r) \/ AcceptPendingInvite(r) \/ LookUpMembership(r)
    \/ CreatePersonalOrganization(r) \/ AddPersonalOwner(r) \/ FinishLogin(r)

MemberRequest(r) ==
    \/ \E u \in Users, k \in {0} \cup Keys :
        \/ \E mode \in {"upsert", "update", "delete"}, target \in 1..made.user, role \in Assignable :
              HandleChangeMember(r, u, k, mode, target, role)
        \/ \E e \in Emails, role \in Assignable : HandleCreateInvite(r, u, k, e, role)
        \/ \E i \in 1..made.invite : HandleDeleteInvite(r, u, k, i)
        \/ HandleCreateAPIKey(r, u, k)
        \/ \E row \in 1..made.key : HandleDeleteAPIKey(r, u, k, row)
    \/ ChangeOrgMember(r) \/ InviteOrgMember(r) \/ GetOrgInvite(r) \/ DeleteOrgInvite(r)
    \/ \E scope \in Scopes : CreateAPIKey(r, scope)
    \/ DeleteAPIKey(r)

PlatformRequest ==
    \/ \E e \in Emails : ProvisionUser(e)
    \/ \E u \in Users : \/ \E role \in Assignable : HandleAdminUpsertMember(u, role)
                        \/ HandleAdminCreateAPIKey(u) \/ DeleteUser(u)

Next ==
    \/ \E r \in Requests : Login(r) \/ MemberRequest(r) \/ Abort(r)
    \/ \E c \in Codes : TimePasses(c)
    \/ \E u \in Users : SessionEnds(u)
    \/ PlatformRequest

Spec == Init /\ [][Next]_vars

----------------------------------------------------------------------------

\* No interleaving of members' requests takes the last owner away: an owner
\* stays unless the platform administrator removes or demotes one.
OwnerRemains == owned => HasOwner

\* A login code starts at most one login, however many requests verify it at
\* the same time.
CodeBuysOneLogin == \A c \in Codes : spent[c] <= 1

\* Every owner and administrator got the role from the platform or from
\* someone who was an owner, also through an invitation accepted long after,
\* and no invitation waits that would give it otherwise.
AuthorityIsGranted ==
    /\ \A u \in Users : member[u] \in Privileged => by[u] = Platform \/ by[u] \in owners
    /\ \A e \in Emails : invite[e].role \in Privileged => invite[e].by \in owners

====
