--------------------------- MODULE AccountsProofs ---------------------------
(***************************************************************************)
(* Type correctness of Accounts, and its three safety properties for every  *)
(* number of users, addresses, keys, codes, invitations and requests.       *)
(***************************************************************************)
EXTENDS Accounts, TLAPS

WithEmail == {"mail", "wrong", "consume", "find", "create", "identity", "invited", "invite"}
Anonymous == {"idle", "mail", "wrong", "consume", "find", "create"}

\* What a request carries from one statement to the next, when o are the users
\* that have been owners and n codes were inserted.
Carried(q, o, n) ==
    /\ q.pc \in WithEmail => q.email \in Emails
    /\ q.pc \notin Anonymous => q.uid \in Users
    /\ q.pc = "change" => q.target \in Users
    /\ q.pc = "join" /\ q.grant \in Privileged => q.by \in o
    /\ q.pc = "invite" /\ q.grant \in Privileged => q.uid \in o
    /\ q.code <= n

RequestsOK == \A r \in Requests : Carried(req[r], owners, made.code)

\* A code is redeemed when it is marked, and a row that was never inserted is not marked.
CodesOK ==
    \A c \in Codes : /\ spent[c] = IF code[c].consumed THEN 1 ELSE 0
                     /\ c > made.code => code[c] = NoCode

OwnersRecorded == \A u \in Users : member[u] = "owner" => u \in owners

RolesOK == OwnersRecorded /\ OwnerRemains /\ AuthorityIsGranted

IInv == TypeOK /\ RequestsOK /\ CodesOK /\ RolesOK

----------------------------------------------------------------------------
(* The parts of the type invariant, each disturbed by other actions.       *)

Referenced ==
    \A u \in Users : mail[u] = NoEmail =>
        /\ member[u] = "none" /\ personal[u] = "none"
        /\ \A e \in Emails : invite[e].by # u
        /\ \A k \in Keys : key[k].uid # u

RowTypes ==
    /\ mail \in [Users -> Emails \cup {NoEmail}]
    /\ \A u, v \in Users : mail[u] = mail[v] /\ mail[u] # NoEmail => u = v
    /\ member \in [Users -> MaybeRole] /\ personal \in [Users -> {"none", "older", "newer"}]
    /\ invite \in [Emails -> Invite] /\ key \in [Keys -> Key]
    /\ Referenced

LoginTypes == session \subseteq Users /\ code \in [Codes -> Code] /\ spent \in [Codes -> Nat]
CountTypes ==
    /\ made \in [user: Users, key: 0..MaxKeys, code: 0..MaxCodes, invite: 0..MaxInvites]
    /\ calls \in 0..MaxCalls
HistoryTypes == by \in [Users -> Someone] /\ owners \subseteq Users /\ owned \in BOOLEAN

LEMMA TypeParts ==
    TypeOK <=> /\ RowTypes /\ LoginTypes /\ CountTypes /\ HistoryTypes
               /\ req \in [Requests -> Request]
BY DEF TypeOK, RowTypes, Referenced, LoginTypes, CountTypes, HistoryTypes

LEMMA TypePartsNext ==
    ASSUME RowTypes', LoginTypes', CountTypes', HistoryTypes', (req \in [Requests -> Request])'
    PROVE  TypeOK'
BY DEF TypeOK, RowTypes, Referenced, LoginTypes, CountTypes, HistoryTypes

LEMMA Bounds ==
    /\ MaxAttempts \in Nat /\ RateLimit \in Nat /\ MaxUsers \in Nat /\ MaxKeys \in Nat
    /\ MaxCodes \in Nat /\ MaxInvites \in Nat /\ MaxCalls \in Nat /\ MaxUsers > 1
    /\ Assignable \subseteq Roles /\ NoEmail \notin Emails
BY AccountsAssumption

LEMMA IdleIsRequest ==
    /\ Idle \in Request /\ Idle.pc = "idle" /\ Idle.code = 0
BY Bounds DEF Idle, Request, Flows, Someone, MaybeRole

LEMMA RequestFields ==
    ASSUME NEW q \in Request
    PROVE  /\ q.flow \in Flows /\ q.email \in Emails \cup {NoEmail} /\ q.code \in 0..MaxCodes
           /\ q.team \in BOOLEAN /\ q.uid \in Someone /\ q.role \in MaybeRole /\ q.key \in 0..MaxKeys
           /\ q.mode \in {"upsert", "update", "delete"} /\ q.target \in Someone
           /\ q.grant \in MaybeRole /\ q.row \in 0..MaxInvites /\ q.by \in Someone
BY DEF Request

----------------------------------------------------------------------------
(* Requests.                                                               *)

\* One request moves: the others carry what they carried.
LEMMA OneMoves ==
    ASSUME TypeOK, RequestsOK, NEW r \in Requests, NEW q \in Request, req' = [req EXCEPT ![r] = q],
           owners \subseteq owners', made'.code \in Nat, made.code <= made'.code,
           Carried(q, owners', made'.code)
    PROVE  (req \in [Requests -> Request])' /\ RequestsOK'
<1>1. (req \in [Requests -> Request])'
    BY DEF TypeOK
<1>2. ASSUME NEW s \in Requests PROVE Carried(req'[s], owners', made'.code)
  <2>1. CASE s = r
      BY <2>1 DEF TypeOK
  <2>2. CASE s # r
    <3>1. req'[s] = req[s] /\ Carried(req[s], owners, made.code) /\ req[s] \in Request
        BY <2>2 DEF TypeOK, RequestsOK
    <3>2. req[s].code \in Nat /\ made.code \in Nat
        BY <3>1, RequestFields, Bounds DEF TypeOK
    <3> QED
        BY <3>1, <3>2 DEF Carried
  <2> QED
      BY <2>1, <2>2
<1> QED
    BY <1>1, <1>2 DEF RequestsOK

LEMMA NoneMoves ==
    ASSUME TypeOK, RequestsOK, UNCHANGED req, owners \subseteq owners', made'.code = made.code
    PROVE  (req \in [Requests -> Request])' /\ RequestsOK'
BY DEF TypeOK, RequestsOK, Carried

LEMMA CodeCount ==
    ASSUME TypeOK
    PROVE  made.code \in Nat /\ made.user \in Nat /\ made.key \in Nat /\ made.invite \in Nat
BY Bounds DEF TypeOK, Users

LEMMA MovesInPlace ==
    ASSUME TypeOK, RequestsOK, NEW r \in Requests, NEW q, q \in Request, req' = [req EXCEPT ![r] = q],
           owners \subseteq owners', made'.code = made.code, Carried(q, owners', made'.code)
    PROVE  (req \in [Requests -> Request])' /\ RequestsOK'
<1>1. made.code \in Nat
    BY CodeCount
<1>2. made'.code \in Nat /\ made.code <= made'.code
    BY <1>1
<1> QED
    BY <1>2, OneMoves

\* The request is answered.
LEMMA Ends ==
    ASSUME TypeOK, RequestsOK, NEW r \in Requests, Finish(r), owners \subseteq owners',
           made'.code \in Nat, made.code <= made'.code
    PROVE  (req \in [Requests -> Request])' /\ RequestsOK'
<1>1. Carried(Idle, owners', made'.code)
    BY DEF Carried, Idle, WithEmail, Anonymous
<1>2. req' = [req EXCEPT ![r] = Idle]
    BY DEF Finish
<1> QED
    BY <1>1, <1>2, IdleIsRequest, OneMoves

LEMMA EndsInPlace ==
    ASSUME TypeOK, RequestsOK, NEW r \in Requests, Finish(r), owners \subseteq owners', made'.code = made.code
    PROVE  (req \in [Requests -> Request])' /\ RequestsOK'
<1>1. made.code \in Nat
    BY CodeCount
<1>2. made'.code \in Nat /\ made.code <= made'.code
    BY <1>1
<1> QED
    BY <1>2, Ends

\* The next statement: only the position changes.
LEMMA Continues ==
    ASSUME TypeOK, RequestsOK, NEW r \in Requests, NEW pc, pc \in {"find", "create", "membership", "invited",
               "workspace", "owner", "enter", "revoke"},
           req' = [req EXCEPT ![r].pc = pc], owners \subseteq owners', made' = made,
           pc \in WithEmail => req[r].pc \in WithEmail,
           pc \notin Anonymous => req[r].pc \notin Anonymous
    PROVE  (req \in [Requests -> Request])' /\ RequestsOK'
<1> DEFINE q == [req[r] EXCEPT !.pc = pc]
<1>1. req[r] \in Request /\ Carried(req[r], owners, made.code)
    BY DEF TypeOK, RequestsOK
<1>2. q \in Request
    BY <1>1 DEF Request
<1>3. Carried(q, owners', made'.code)
    BY <1>1 DEF Carried, Request
<1>4. req' = [req EXCEPT ![r] = q]
    BY DEF TypeOK
<1> HIDE DEF q
<1> QED
    BY <1>2, <1>3, <1>4, MovesInPlace

LEMMA MoveStart ==
    ASSUME TypeOK, RequestsOK, NEW r \in Requests, NEW e \in Emails, NEW flow \in Flows,
           HandleEmailLoginStart(r, e, flow) \/ HandleCallback(r, e, flow)
    PROVE  (req \in [Requests -> Request])' /\ RequestsOK'
<1> PICK pc \in {"mail", "find"} :
        req' = [req EXCEPT ![r] = [Idle EXCEPT !.pc = pc, !.email = e, !.flow = flow]] /\ UNCHANGED <<owners, made>>
    BY DEF HandleEmailLoginStart, HandleCallback, history
<1> DEFINE q == [Idle EXCEPT !.pc = pc, !.email = e, !.flow = flow]
<1>1. q \in Request
    BY ZenonT(60), IdleIsRequest DEF Request
<1>2. Carried(q, owners', made'.code)
    BY CodeCount DEF Carried, Idle, WithEmail, Anonymous
<1>3. req' = [req EXCEPT ![r] = q]
    OBVIOUS
<1> HIDE DEF q
<1> QED
    BY <1>1, <1>2, <1>3, MovesInPlace

LEMMA MoveVerify ==
    ASSUME TypeOK, RequestsOK, CodesOK, NEW r \in Requests, NEW c \in Codes, NEW right \in BOOLEAN,
           HandleEmailLoginVerify(r, c, right)
    PROVE  (req \in [Requests -> Request])' /\ RequestsOK'
<1> DEFINE q == [Idle EXCEPT !.pc = IF right THEN "consume" ELSE "wrong",
                    !.email = code[c].email, !.flow = code[c].flow, !.code = c]
<1>1. code[c] \in Code /\ code[c].email \in Emails /\ code[c].flow \in Flows
    BY DEF TypeOK, Code, HandleEmailLoginVerify
<1>2. c \in 0..MaxCodes /\ c <= made.code
  <2>1. code[c] # NoCode
      BY DEF HandleEmailLoginVerify, NoCode
  <2> QED
      BY <2>1, Bounds, CodeCount DEF CodesOK, Codes
<1>3. q \in Request
    BY ZenonT(60), <1>1, <1>2, IdleIsRequest DEF Request
<1>4. q.pc \in {"consume", "wrong"} /\ q.email = code[c].email /\ q.code = c
    BY DEF Idle
<1>5. Carried(q, owners', made'.code)
    BY <1>1, <1>2, <1>4 DEF Carried, WithEmail, Anonymous, HandleEmailLoginVerify
<1>6. req' = [req EXCEPT ![r] = q] /\ UNCHANGED <<owners, made>>
    BY DEF HandleEmailLoginVerify, history
<1> HIDE DEF q
<1> QED
    BY <1>3, <1>5, <1>6, MovesInPlace

LEMMA MoveLoggedIn ==
    ASSUME TypeOK, RequestsOK, NEW r \in Requests, NEW u \in Users,
           req[r].pc \in WithEmail, req' = [req EXCEPT ![r].uid = u, ![r].pc = "identity"],
           UNCHANGED owners, made' \in [user: Users, key: 0..MaxKeys, code: 0..MaxCodes, invite: 0..MaxInvites],
           made'.code = made.code
    PROVE  (req \in [Requests -> Request])' /\ RequestsOK'
<1> DEFINE q == [req[r] EXCEPT !.uid = u, !.pc = "identity"]
<1>1. req[r] \in Request /\ Carried(req[r], owners, made.code)
    BY DEF TypeOK, RequestsOK
<1>2. q \in Request
    BY <1>1 DEF Request, Someone
<1>3. q.pc = "identity" /\ q.uid = u /\ q.email = req[r].email /\ q.code = req[r].code
    BY <1>1 DEF Request
<1>4. Carried(q, owners', made'.code)
    BY <1>1, <1>3 DEF Carried, WithEmail, Anonymous
<1>5. req' = [req EXCEPT ![r] = q]
    BY ZenonT(60) DEF TypeOK
<1> HIDE DEF q
<1> QED
    BY <1>2, <1>4, <1>5, MovesInPlace

LEMMA MoveInvited ==
    ASSUME TypeOK, RequestsOK, AuthorityIsGranted, NEW r \in Requests, ReadPendingInvite(r)
    PROVE  (req \in [Requests -> Request])' /\ RequestsOK'
<1> DEFINE i == invite[req[r].email]
<1>1. req[r] \in Request /\ Carried(req[r], owners, made.code) /\ req[r].pc = "invited"
      /\ UNCHANGED <<owners, made>>
    BY DEF TypeOK, RequestsOK, ReadPendingInvite, At, history
<1>2. req[r].email \in Emails /\ req[r].uid \in Users
    BY <1>1 DEF Carried, WithEmail, Anonymous
<1>3. i \in Invite /\ (i.role \in Privileged => i.by \in owners)
    BY <1>2 DEF TypeOK, AuthorityIsGranted
<1>4. CASE i.id # 0 /\ req' = [req EXCEPT ![r].pc = "join", ![r].row = i.id, ![r].grant = i.role, ![r].by = i.by]
  <2> DEFINE q == [req[r] EXCEPT !.pc = "join", !.row = i.id, !.grant = i.role, !.by = i.by]
  <2>1. q \in Request
      BY <1>1, <1>3 DEF Request, Invite
  <2>2. /\ q.pc = "join" /\ q.uid = req[r].uid /\ q.code = req[r].code
        /\ q.grant = i.role /\ q.by = i.by
      BY <1>1 DEF Request
  <2>3. Carried(q, owners', made'.code)
      BY <1>1, <1>2, <1>3, <2>2 DEF Carried, WithEmail, Anonymous
  <2>4. req' = [req EXCEPT ![r] = q]
      BY ZenonT(60), <1>4 DEF TypeOK
  <2> HIDE DEF q
  <2> QED
      BY <1>1, <2>1, <2>3, <2>4, MovesInPlace
<1>5. CASE Go(r, "membership")
    BY <1>1, <1>5, Continues DEF Go, WithEmail, Anonymous
<1> QED
    BY <1>4, <1>5 DEF ReadPendingInvite

LEMMA MoveJoined ==
    ASSUME TypeOK, RequestsOK, NEW r \in Requests, NEW team \in BOOLEAN, req[r].pc \in {"join", "membership"},
           req' = [req EXCEPT ![r].pc = "enter", ![r].team = team], owners \subseteq owners', UNCHANGED made
    PROVE  (req \in [Requests -> Request])' /\ RequestsOK'
<1> DEFINE q == [req[r] EXCEPT !.pc = "enter", !.team = team]
<1>1. req[r] \in Request /\ Carried(req[r], owners, made.code)
    BY DEF TypeOK, RequestsOK
<1>2. q \in Request
    BY <1>1 DEF Request
<1>3. q.pc = "enter" /\ q.uid = req[r].uid /\ q.code = req[r].code
    BY <1>1 DEF Request
<1>4. Carried(q, owners', made'.code)
    BY <1>1, <1>3 DEF Carried, WithEmail, Anonymous
<1>5. req' = [req EXCEPT ![r] = q]
    BY ZenonT(60) DEF TypeOK
<1> HIDE DEF q
<1> QED
    BY <1>2, <1>4, <1>5, MovesInPlace

LEMMA MoveGoOn ==
    ASSUME TypeOK, RequestsOK, NEW r \in Requests, NEW cond \in BOOLEAN,
           NEW pc \in {"invited", "enter", "revoke"}, GoOn(r, cond, pc),
           pc \in WithEmail => req[r].pc \in WithEmail, req[r].pc \notin Anonymous,
           UNCHANGED owners, UNCHANGED made
    PROVE  (req \in [Requests -> Request])' /\ RequestsOK'
<1>1. CASE cond
  <2>1. req' = [req EXCEPT ![r].pc = pc]
      BY <1>1 DEF GoOn
  <2> QED
      BY <2>1, Continues
<1>2. CASE ~cond
  <2>1. Finish(r)
      BY <1>2 DEF GoOn, Finish
  <2> QED
      BY <2>1, Ends, CodeCount
<1> QED
    BY <1>1, <1>2

\* A member's request begins, with the identity the middleware found.
LEMMA MemberBegins ==
    ASSUME TypeOK, RequestsOK, NEW r \in Requests, NEW u \in Users, NEW q \in Request,
           req' = [req EXCEPT ![r] = q], q.uid = u, q.code = 0, q.pc \notin Anonymous, q.pc # "join",
           q.pc \in WithEmail => q.email \in Emails, q.pc = "change" => q.target \in Users,
           q.pc = "invite" /\ q.grant \in Privileged => u \in owners,
           UNCHANGED owners, UNCHANGED made
    PROVE  (req \in [Requests -> Request])' /\ RequestsOK'
<1>1. Carried(q, owners', made'.code)
    BY CodeCount DEF Carried
<1> QED
    BY <1>1, MovesInPlace

LEMMA MiddlewareIsRequest ==
    ASSUME TypeOK, NEW u \in Users, NEW k \in {0} \cup Keys
    PROVE  As(u, k) \in Request /\ As(u, k).uid = u /\ As(u, k).code = 0
<1>1. k \in 0..MaxKeys /\ member[u] \in MaybeRole /\ u \in Someone
    BY Bounds DEF Keys, TypeOK, Someone
<1>2. As(u, k) \in Request
    BY ZenonT(60), <1>1, IdleIsRequest DEF As, Request
<1> QED
    BY <1>2 DEF As, Idle

LEMMA MoveMember ==
    ASSUME TypeOK, RequestsOK, OwnersRecorded, NEW r \in Requests, NEW u \in Users, NEW k \in {0} \cup Keys,
           \/ \E mode \in {"upsert", "update", "delete"}, target \in 1..made.user, role \in Assignable :
                 HandleChangeMember(r, u, k, mode, target, role)
           \/ \E e \in Emails, role \in Assignable : HandleCreateInvite(r, u, k, e, role)
           \/ \E i \in 1..made.invite : HandleDeleteInvite(r, u, k, i)
           \/ HandleCreateAPIKey(r, u, k)
           \/ \E row \in 1..made.key : HandleDeleteAPIKey(r, u, k, row)
    PROVE  (req \in [Requests -> Request])' /\ RequestsOK'
<1> DEFINE a == As(u, k)
<1>1. a \in Request /\ a.uid = u /\ a.code = 0
    BY MiddlewareIsRequest
<1>2. /\ made.user \in Users /\ made.invite \in 0..MaxInvites /\ made.key \in 0..MaxKeys
      /\ Assignable \subseteq MaybeRole
    BY Bounds DEF TypeOK, MaybeRole
<1>3. ASSUME NEW mode \in {"upsert", "update", "delete"}, NEW target \in 1..made.user, NEW role \in Assignable,
             HandleChangeMember(r, u, k, mode, target, role)
      PROVE  (req \in [Requests -> Request])' /\ RequestsOK'
  <2> DEFINE grant == IF mode = "delete" THEN "none" ELSE role
  <2> DEFINE q == [a EXCEPT !.pc = "change", !.mode = mode, !.target = target, !.grant = grant]
  <2>1. target \in Users /\ target \in Someone /\ grant \in MaybeRole
      BY <1>2, Bounds DEF Users, Someone, MaybeRole
  <2>2. req' = [req EXCEPT ![r] = q] /\ UNCHANGED <<owners, made>>
      BY <1>3 DEF HandleChangeMember, history
  <2> HIDE DEF grant, a
  <2>3. q \in Request /\ q.pc = "change" /\ q.uid = u /\ q.code = 0 /\ q.target = target
      BY ZenonT(60), <1>1, <2>1 DEF Request
  <2> HIDE DEF q
  <2> QED
      BY <2>1, <2>2, <2>3, MemberBegins DEF Anonymous, WithEmail
<1>4. ASSUME NEW e \in Emails, NEW role \in Assignable, HandleCreateInvite(r, u, k, e, role)
      PROVE  (req \in [Requests -> Request])' /\ RequestsOK'
  <2> DEFINE q == [a EXCEPT !.pc = "invite", !.email = e, !.grant = role]
  <2>1. req' = [req EXCEPT ![r] = q] /\ UNCHANGED <<owners, made>>
      BY <1>4 DEF HandleCreateInvite, history
  <2>2. role \in Privileged => u \in owners
      BY <1>4 DEF HandleCreateInvite, CanAssignRole, OwnersRecorded
  <2> HIDE DEF a
  <2>3. q \in Request /\ q.pc = "invite" /\ q.uid = u /\ q.code = 0 /\ q.email = e /\ q.grant = role
      BY ZenonT(60), <1>1, <1>2 DEF Request
  <2> HIDE DEF q
  <2> QED
      BY <2>1, <2>2, <2>3, MemberBegins DEF Anonymous, WithEmail
<1>5. ASSUME NEW i \in 1..made.invite, HandleDeleteInvite(r, u, k, i)
      PROVE  (req \in [Requests -> Request])' /\ RequestsOK'
  <2> DEFINE q == [a EXCEPT !.pc = "get invite", !.row = i]
  <2>1. req' = [req EXCEPT ![r] = q] /\ UNCHANGED <<owners, made>>
      BY <1>5 DEF HandleDeleteInvite, history
  <2>2. i \in 0..MaxInvites
      BY <1>2, Bounds
  <2> HIDE DEF a
  <2>3. q \in Request /\ q.pc = "get invite" /\ q.uid = u /\ q.code = 0
      BY ZenonT(60), <1>1, <2>2 DEF Request
  <2> HIDE DEF q
  <2> QED
      BY <2>1, <2>3, MemberBegins DEF Anonymous, WithEmail
<1>6. ASSUME HandleCreateAPIKey(r, u, k)
      PROVE  (req \in [Requests -> Request])' /\ RequestsOK'
  <2> DEFINE q == [a EXCEPT !.pc = "new key"]
  <2>1. req' = [req EXCEPT ![r] = q] /\ UNCHANGED <<owners, made>>
      BY <1>6 DEF HandleCreateAPIKey, history
  <2> HIDE DEF a
  <2>2. q \in Request /\ q.pc = "new key" /\ q.uid = u /\ q.code = 0
      BY ZenonT(60), <1>1 DEF Request
  <2> HIDE DEF q
  <2> QED
      BY <2>1, <2>2, MemberBegins DEF Anonymous, WithEmail
<1>7. ASSUME NEW row \in 1..made.key, HandleDeleteAPIKey(r, u, k, row)
      PROVE  (req \in [Requests -> Request])' /\ RequestsOK'
  <2> DEFINE q == [a EXCEPT !.pc = "drop key", !.key = row]
  <2>1. req' = [req EXCEPT ![r] = q] /\ UNCHANGED <<owners, made>>
      BY <1>7 DEF HandleDeleteAPIKey, history
  <2>2. row \in 0..MaxKeys
      BY <1>2, Bounds
  <2> HIDE DEF a
  <2>3. q \in Request /\ q.pc = "drop key" /\ q.uid = u /\ q.code = 0
      BY ZenonT(60), <1>1, <2>2 DEF Request
  <2> HIDE DEF q
  <2> QED
      BY <2>1, <2>3, MemberBegins DEF Anonymous, WithEmail
<1> QED
    BY <1>3, <1>4, <1>5, <1>6, <1>7

\* What every step does to the requests in progress.
LEMMA RequestsMove ==
    ASSUME IInv, Next, HistoryTypes', CountTypes', owners \subseteq owners'
    PROVE  (req \in [Requests -> Request])' /\ RequestsOK'
<1> DEFINE Goal == (req \in [Requests -> Request])' /\ RequestsOK'
<1>0. TypeOK /\ RequestsOK /\ CodesOK /\ AuthorityIsGranted /\ OwnersRecorded
    BY DEF IInv, RolesOK
<1>1. ASSUME NEW r \in Requests, Login(r) PROVE Goal
  <2>1. ASSUME NEW e \in Emails, NEW flow \in Flows, HandleEmailLoginStart(r, e, flow) \/ HandleCallback(r, e, flow)
        PROVE  Goal
      BY <1>0, <2>1, MoveStart
  <2>2. ASSUME NEW sent \in BOOLEAN, CreateEmailLoginChallenge(r, sent) PROVE Goal
    <3>1. Finish(r) /\ made' = [made EXCEPT !.code = @ + 1]
        BY <2>2 DEF CreateEmailLoginChallenge
    <3>2. made'.code = made.code + 1
        BY <3>1, <1>0 DEF TypeOK
    <3>3. made'.code \in Nat /\ made.code <= made'.code
        BY <1>0, <3>2, CodeCount
    <3> QED
        BY <1>0, <3>1, <3>3, Ends
  <2>3. ASSUME NEW c \in Codes, NEW right \in BOOLEAN, HandleEmailLoginVerify(r, c, right) PROVE Goal
      BY <1>0, <2>3, MoveVerify
  <2>4. CASE IncrementAttempts(r)
    <3>1. Finish(r) /\ UNCHANGED made
        BY <2>4 DEF IncrementAttempts
    <3> QED
        BY <1>0, <3>1, EndsInPlace
  <2>5. CASE ConsumeEmailLoginChallenge(r)
    <3>1. At(r, "consume") /\ UNCHANGED made /\ (Finish(r) \/ Go(r, "find"))
        BY <2>5 DEF ConsumeEmailLoginChallenge
    <3> QED
        BY <1>0, <3>1, EndsInPlace, Continues DEF At, Go, WithEmail, Anonymous
  <2>6. CASE FindLoginUser(r)
    <3>1. req[r].pc = "find" /\ UNCHANGED made /\ UNCHANGED owners
        BY <2>6 DEF FindLoginUser, At, history
    <3>2. CASE Go(r, "create")
        BY <1>0, <3>1, <3>2, Continues DEF Go, WithEmail, Anonymous
    <3>3. CASE \E u \in Having(req[r].email) : req' = [req EXCEPT ![r].uid = u, ![r].pc = "identity"]
      <4>1. PICK u \in Users : req' = [req EXCEPT ![r].uid = u, ![r].pc = "identity"]
          BY <3>3 DEF Having
      <4>2. req[r].pc \in WithEmail
          BY <3>1 DEF WithEmail
      <4> QED
          BY <1>0, <3>1, <4>1, <4>2, MoveLoggedIn DEF CountTypes
    <3> QED
        BY <2>6, <3>2, <3>3 DEF FindLoginUser
  <2>7. CASE CreateLoginUser(r)
    <3>1. req[r].pc \in WithEmail /\ UNCHANGED owners
        BY <2>7 DEF CreateLoginUser, At, WithEmail, history
    <3>2. CASE Finish(r) /\ UNCHANGED made
        BY <1>0, <3>2, EndsInPlace
    <3>3. CASE NewUser(req[r].email) /\ req' = [req EXCEPT ![r].uid = made.user + 1, ![r].pc = "identity"]
      <4>1. made.user + 1 \in Users
          BY <1>0, <3>3, Bounds DEF NewUser, TypeOK, Users
      <4>2. made'.code = made.code
          BY <1>0, <3>3 DEF NewUser, TypeOK
      <4> QED
          BY <1>0, <3>1, <3>3, <4>1, <4>2, MoveLoggedIn DEF CountTypes
    <3> QED
        BY <2>7, <3>2, <3>3 DEF CreateLoginUser
  <2>8. CASE UpsertUserIdentity(r)
    <3>1. /\ req[r].pc = "identity" /\ GoOn(r, Exists(req[r].uid), "invited") /\ UNCHANGED made
          /\ UNCHANGED owners
        BY <2>8 DEF UpsertUserIdentity, At, history
    <3>2. Exists(req[r].uid) \in BOOLEAN
        BY DEF Exists
    <3> QED
        BY <1>0, <3>1, <3>2, MoveGoOn DEF WithEmail, Anonymous
  <2>9. CASE ReadPendingInvite(r)
      BY <1>0, <2>9, MoveInvited
  <2>10. CASE AcceptPendingInvite(r)
    <3>1. req[r].pc = "join" /\ UNCHANGED made
        BY <2>10 DEF AcceptPendingInvite, At
    <3>2. CASE Finish(r)
        BY <1>0, <3>1, <3>2, EndsInPlace
    <3>3. CASE req' = [req EXCEPT ![r].pc = "enter", ![r].team = TRUE]
        BY <1>0, <3>1, <3>3, MoveJoined
    <3> QED
        BY <2>10, <3>2, <3>3 DEF AcceptPendingInvite
  <2>11. CASE LookUpMembership(r)
    <3> DEFINE inTeam == member[req[r].uid] # "none" /\ personal[req[r].uid] # "older"
    <3>1. req[r].pc = "membership" /\ UNCHANGED made
        BY <2>11 DEF LookUpMembership, At
    <3>2. Go(r, "workspace") \/ req' = [req EXCEPT ![r].pc = "enter", ![r].team = inTeam]
        BY <2>11 DEF LookUpMembership
    <3>3. inTeam \in BOOLEAN
        OBVIOUS
    <3>4. CASE Go(r, "workspace")
        BY <1>0, <3>1, <3>4, Continues DEF Go, WithEmail, Anonymous
    <3> HIDE DEF inTeam
    <3>5. CASE req' = [req EXCEPT ![r].pc = "enter", ![r].team = inTeam]
        BY <1>0, <3>1, <3>3, <3>5, MoveJoined
    <3> QED
        BY <3>2, <3>4, <3>5
  <2>12. CASE CreatePersonalOrganization(r)
    <3>1. req[r].pc = "workspace" /\ UNCHANGED made /\ Go(r, "owner")
        BY <2>12 DEF CreatePersonalOrganization, At
    <3> QED
        BY <1>0, <3>1, Continues DEF Go, WithEmail, Anonymous
  <2>13. CASE AddPersonalOwner(r)
    <3>1. /\ req[r].pc = "owner" /\ GoOn(r, Exists(req[r].uid), "enter") /\ UNCHANGED made
          /\ UNCHANGED owners
        BY <2>13 DEF AddPersonalOwner, At, history
    <3>2. Exists(req[r].uid) \in BOOLEAN
        BY DEF Exists
    <3> QED
        BY <1>0, <3>1, <3>2, MoveGoOn DEF WithEmail, Anonymous
  <2>14. CASE FinishLogin(r)
    <3>1. Finish(r) /\ made'.code = made.code
        BY <2>14, <1>0 DEF FinishLogin, NewKey, TypeOK
    <3> QED
        BY <1>0, <3>1, EndsInPlace
  <2> QED
      BY <1>1, <2>1, <2>2, <2>3, <2>4, <2>5, <2>6, <2>7, <2>8, <2>9, <2>10, <2>11, <2>12, <2>13, <2>14 DEF Login
<1>2. ASSUME NEW r \in Requests, MemberRequest(r) PROVE Goal
  <2>1. CASE ChangeOrgMember(r) \/ InviteOrgMember(r) \/ DeleteOrgInvite(r)
             \/ (\E scope \in Scopes : CreateAPIKey(r, scope)) \/ DeleteAPIKey(r)
    <3>1. Finish(r)
        BY <2>1 DEF ChangeOrgMember, InviteOrgMember, DeleteOrgInvite, CreateAPIKey, DeleteAPIKey
    <3>2. made'.code = made.code
        BY <2>1, <1>0 DEF ChangeOrgMember, InviteOrgMember, DeleteOrgInvite, CreateAPIKey, DeleteAPIKey, NewKey, TypeOK
    <3> QED
        BY <1>0, <3>1, <3>2, EndsInPlace
  <2>2. CASE GetOrgInvite(r)
    <3>1. PICK cond \in BOOLEAN : /\ req[r].pc = "get invite" /\ GoOn(r, cond, "revoke") /\ UNCHANGED made
                                  /\ UNCHANGED owners
        BY <2>2 DEF GetOrgInvite, At, history
    <3> QED
        BY <1>0, <3>1, MoveGoOn DEF WithEmail, Anonymous
  <2> QED
      BY <1>0, <1>2, <2>1, <2>2, MoveMember DEF MemberRequest
<1>3. ASSUME NEW r \in Requests, Abort(r) PROVE Goal
  <2>1. Finish(r) /\ UNCHANGED made
      BY <1>3 DEF Abort
  <2> QED
      BY <1>0, <2>1, EndsInPlace
<1>4. CASE (\E c \in Codes : TimePasses(c)) \/ (\E u \in Users : SessionEnds(u)) \/ PlatformRequest
  <2>1. UNCHANGED req /\ made'.code = made.code
      BY ZenonT(60), <1>0, <1>4 DEF TimePasses, SessionEnds, PlatformRequest, ProvisionUser, HandleAdminUpsertMember,
                        HandleAdminCreateAPIKey, DeleteUser, NewUser, NewKey, TypeOK
  <2> QED
      BY <1>0, <2>1, NoneMoves
<1> QED
    BY <1>1, <1>2, <1>3, <1>4 DEF Next

----------------------------------------------------------------------------
(* Login codes.                                                            *)

LEMMA CodeFields ==
    ASSUME TypeOK, NEW c \in Codes
    PROVE  /\ code[c] \in Code /\ code[c].email \in Emails \cup {NoEmail} /\ code[c].flow \in Flows
           /\ code[c].sent \in BOOLEAN /\ code[c].age \in 0..3 /\ code[c].attempts \in Nat
           /\ code[c].consumed \in BOOLEAN /\ spent[c] \in Nat
BY DEF TypeOK, Code

LEMMA NewCode ==
    ASSUME NEW e \in Emails \cup {NoEmail}, NEW f \in Flows, NEW s \in BOOLEAN
    PROVE  LET x == [NoCode EXCEPT !.email = e, !.flow = f, !.sent = s, !.age = 0]
           IN  x \in Code /\ ~x.consumed
<1> DEFINE young == [NoCode EXCEPT !.age = 0]
<1> DEFINE ours == [young EXCEPT !.email = e, !.flow = f]
<1> DEFINE x == [NoCode EXCEPT !.email = e, !.flow = f, !.sent = s, !.age = 0]
<1>1. NoCode \in Code /\ ~NoCode.consumed
    BY DEF NoCode, Code, Flows
<1>2. young \in Code /\ ~young.consumed
    BY <1>1 DEF Code
<1>3. x = [[[young EXCEPT !.email = e] EXCEPT !.flow = f] EXCEPT !.sent = s]
    BY <1>1 DEF Code
<1> HIDE DEF young
<1>4. ours \in Code /\ ~ours.consumed
    BY <1>2 DEF Code
<1>5. ours = [[young EXCEPT !.email = e] EXCEPT !.flow = f]
    BY <1>2 DEF Code
<1>6. x = [ours EXCEPT !.sent = s]
    BY <1>3, <1>5
<1> HIDE DEF ours, x
<1>7. x \in Code /\ ~x.consumed
    BY <1>4, <1>6 DEF Code
<1> QED
    BY <1>7 DEF x

\* A function that changes at one argument, to a value of its range, keeps its type.
LEMMA UpdateStays ==
    ASSUME NEW S, NEW T, NEW f \in [S -> T], NEW a, NEW v, a \in S => v \in T
    PROVE  [f EXCEPT ![a] = v] \in [S -> T]
OBVIOUS

\* One code changes, and its count with it.
LEMMA OneCode ==
    ASSUME TypeOK, CodesOK, NEW c, NEW x, NEW n, c \in Codes => x \in Code /\ n \in Nat,
           code' = [code EXCEPT ![c] = x], spent' = [spent EXCEPT ![c] = n],
           session' \subseteq Users, made'.code \in Nat, made.code <= made'.code,
           c \in Codes => n = IF x.consumed THEN 1 ELSE 0, c \in Codes => c <= made'.code
    PROVE  LoginTypes' /\ CodesOK'
<1>0. code \in [Codes -> Code] /\ spent \in [Codes -> Nat]
    BY DEF TypeOK
<1>a. code' \in [Codes -> Code]
    BY <1>0, UpdateStays
<1>b. spent' \in [Codes -> Nat]
    BY <1>0, UpdateStays
<1>1. LoginTypes'
    BY <1>a, <1>b DEF LoginTypes
<1>2. ASSUME NEW d \in Codes
      PROVE  spent'[d] = (IF code'[d].consumed THEN 1 ELSE 0) /\ (d > made'.code => code'[d] = NoCode)
  <2>0. d \in Int /\ made.code \in Nat
      BY CodeCount DEF Codes
  <2>1. CASE d = c
      BY <2>0, <2>1 DEF TypeOK
  <2>2. CASE d # c
    <3>1. code'[d] = code[d] /\ spent'[d] = spent[d]
        BY <2>2 DEF TypeOK
    <3>2. d > made'.code => d > made.code
        BY <2>0
    <3> QED
        BY <3>1, <3>2 DEF CodesOK
  <2> QED
      BY <2>1, <2>2
<1> QED
    BY <1>1, <1>2 DEF CodesOK

LEMMA CodesStay ==
    ASSUME TypeOK, CodesOK, UNCHANGED <<code, spent>>, session' \subseteq Users, made'.code = made.code
    PROVE  LoginTypes' /\ CodesOK'
BY DEF LoginTypes, TypeOK, CodesOK

LEMMA SpentStays ==
    ASSUME TypeOK, NEW c, UNCHANGED spent
    PROVE  spent' = [spent EXCEPT ![c] = spent[c]]
BY DEF TypeOK

LEMMA CodesMove ==
    ASSUME IInv, Next
    PROVE  LoginTypes' /\ CodesOK'
<1> DEFINE Goal == LoginTypes' /\ CodesOK'
<1>0. TypeOK /\ RequestsOK /\ CodesOK
    BY DEF IInv
<1>c. made.code \in Nat /\ session \subseteq Users
    BY <1>0, CodeCount DEF TypeOK
<1>1. ASSUME NEW r \in Requests, NEW sent \in BOOLEAN, CreateEmailLoginChallenge(r, sent) PROVE Goal
  <2> DEFINE c == made.code + 1
  <2> DEFINE x == [NoCode EXCEPT !.email = req[r].email, !.flow = req[r].flow, !.sent = sent, !.age = 0]
  <2>1. made.code < MaxCodes /\ made' = [made EXCEPT !.code = @ + 1] /\ code' = [code EXCEPT ![c] = x]
        /\ UNCHANGED <<session, spent>>
      BY <1>1 DEF CreateEmailLoginChallenge
  <2>2. made'.code = c
      BY <2>1, <1>0 DEF TypeOK
  <2>3. c \in Codes /\ c > made.code /\ made'.code \in Nat /\ made.code <= made'.code /\ c <= made'.code
      BY <1>c, <2>1, <2>2, Bounds DEF Codes
  <2>4. req[r].email \in Emails \cup {NoEmail} /\ req[r].flow \in Flows
      BY <1>0, RequestFields DEF TypeOK
  <2>5. x \in Code /\ ~x.consumed
      BY <2>4, NewCode
  <2>6. code[c] = NoCode /\ spent[c] = IF code[c].consumed THEN 1 ELSE 0
      BY <1>0, <2>3 DEF CodesOK
  <2>7. spent[c] = 0
      BY <2>6 DEF NoCode
  <2>8. spent' = [spent EXCEPT ![c] = 0]
      BY <2>1, <2>7, <1>0, SpentStays
  <2> HIDE DEF x, c
  <2> QED
      BY <1>0, <1>c, <2>1, <2>3, <2>5, <2>8, OneCode
<1>2. ASSUME NEW c \in Codes, TimePasses(c) PROVE Goal
  <2> DEFINE x == [code[c] EXCEPT !.age = @ + 1]
  <2>1. code' = [code EXCEPT ![c] = x] /\ UNCHANGED <<session, spent, made>>
      BY <1>2 DEF TimePasses
  <2>2. code[c].age < 3 /\ code[c] # NoCode
      BY <1>2 DEF TimePasses, NoCode
  <2>3. code[c].age + 1 \in 0..3
      BY <1>0, <2>2, CodeFields
  <2>4. x \in Code /\ x.consumed = code[c].consumed
      BY <1>0, <2>3, CodeFields DEF Code
  <2>5. c <= made.code /\ spent[c] = (IF code[c].consumed THEN 1 ELSE 0) /\ spent[c] \in Nat
      BY <1>0, <1>c, <2>2, CodeFields DEF CodesOK, Codes
  <2>6. spent' = [spent EXCEPT ![c] = spent[c]]
      BY <1>0, <2>1, SpentStays
  <2>7. made'.code \in Nat /\ made.code <= made'.code /\ c <= made'.code /\ session' \subseteq Users
      BY <1>c, <2>1, <2>5
  <2>8. spent[c] = IF x.consumed THEN 1 ELSE 0
      BY <2>4, <2>5
  <2> HIDE DEF x
  <2> QED
      BY <1>0, <2>1, <2>4, <2>5, <2>6, <2>7, <2>8, OneCode
<1>3. ASSUME NEW r \in Requests, IncrementAttempts(r) PROVE Goal
  <2> DEFINE c == req[r].code
  <2> DEFINE x == [code[c] EXCEPT !.attempts = @ + 1]
  <2>1. code' = [code EXCEPT ![c] = x] /\ UNCHANGED <<session, spent, made>>
      BY <1>3 DEF IncrementAttempts
  <2>2. Carried(req[r], owners, made.code)
      BY <1>0 DEF RequestsOK
  <2>3. c <= made'.code
      BY <2>1, <2>2 DEF Carried
  <2>4. ASSUME c \in Codes PROVE x \in Code /\ x.consumed = code[c].consumed
      BY <1>0, <2>4, CodeFields DEF Code
  <2>5. ASSUME c \in Codes PROVE spent[c] \in Nat /\ spent[c] = (IF code[c].consumed THEN 1 ELSE 0)
      BY <1>0, <2>5, CodeFields DEF CodesOK
  <2>6. spent' = [spent EXCEPT ![c] = spent[c]]
      BY <1>0, <2>1, SpentStays
  <2>7. made'.code \in Nat /\ made.code <= made'.code /\ session' \subseteq Users
      BY <1>c, <2>1
  <2> HIDE DEF x, c
  <2>8. c \in Codes => x \in Code /\ spent[c] \in Nat
      BY <2>4, <2>5
  <2>9. c \in Codes => spent[c] = IF x.consumed THEN 1 ELSE 0
      BY <2>4, <2>5
  <2> QED
      BY <1>0, <2>1, <2>3, <2>6, <2>7, <2>8, <2>9, OneCode
<1>4. ASSUME NEW r \in Requests, ConsumeEmailLoginChallenge(r) PROVE Goal
  <2> DEFINE c == req[r].code
  <2> DEFINE x == [code[c] EXCEPT !.consumed = TRUE]
  <2> DEFINE n == spent[c] + 1
  <2>1. UNCHANGED <<session, made>>
      BY <1>4 DEF ConsumeEmailLoginChallenge
  <2>2. CASE UNCHANGED <<code, spent>>
      BY <1>0, <1>c, <2>1, <2>2, CodesStay
  <2>3. CASE Unconsumed(c) /\ code' = [code EXCEPT ![c].consumed = TRUE] /\ spent' = [spent EXCEPT ![c] = @ + 1]
    <3>1. code' = [code EXCEPT ![c] = x]
        BY <2>3
    <3>2. spent' = [spent EXCEPT ![c] = n]
        BY <2>3
    <3>3. Carried(req[r], owners, made.code)
        BY <1>0 DEF RequestsOK
    <3>4. c <= made'.code
        BY <2>1, <3>3 DEF Carried
    <3>5. ASSUME c \in Codes PROVE x \in Code /\ x.consumed
        BY <1>0, <3>5, CodeFields DEF Code
    <3>6. ASSUME c \in Codes PROVE n = 1
      <4>1. spent[c] = 0
          BY <1>0, <2>3, <3>6, CodeFields DEF CodesOK, Unconsumed
      <4> QED
          BY <4>1
    <3>7. made'.code \in Nat /\ made.code <= made'.code /\ session' \subseteq Users
        BY <1>c, <2>1
    <3> HIDE DEF x, c, n
    <3>8. c \in Codes => x \in Code /\ n \in Nat
        BY <3>5, <3>6
    <3>9. c \in Codes => n = IF x.consumed THEN 1 ELSE 0
        BY <3>5, <3>6
    <3> QED
        BY <1>0, <3>1, <3>2, <3>4, <3>7, <3>8, <3>9, OneCode
  <2> QED
      BY <1>4, <2>2, <2>3 DEF ConsumeEmailLoginChallenge
<1>5. ASSUME NEW r \in Requests, FinishLogin(r) PROVE Goal
  <2>1. UNCHANGED <<code, spent>> /\ made'.code = made.code
      BY <1>5, <1>0 DEF FinishLogin, NewKey, TypeOK
  <2>2. Carried(req[r], owners, made.code) /\ req[r].pc = "enter"
      BY <1>0, <1>5 DEF RequestsOK, FinishLogin, At
  <2>3. req[r].uid \in Users
      BY <2>2 DEF Carried, Anonymous
  <2>4. session' \subseteq session \cup {req[r].uid}
      BY <1>5 DEF FinishLogin
  <2> QED
      BY <1>0, <1>c, <2>1, <2>3, <2>4, CodesStay
<1>6. CASE /\ UNCHANGED <<code, spent>> /\ made'.code = made.code /\ session' \subseteq session
    BY <1>0, <1>c, <1>6, CodesStay
<1>7. ASSUME NEW r \in Requests, Login(r) PROVE Goal
  <2>1. CASE \/ \E e \in Emails, flow \in Flows : HandleEmailLoginStart(r, e, flow)
             \/ \E c \in Codes, right \in BOOLEAN : HandleEmailLoginVerify(r, c, right)
             \/ \E e \in Emails, flow \in Flows : HandleCallback(r, e, flow)
             \/ FindLoginUser(r) \/ CreateLoginUser(r) \/ UpsertUserIdentity(r)
             \/ ReadPendingInvite(r) \/ AcceptPendingInvite(r) \/ LookUpMembership(r)
             \/ CreatePersonalOrganization(r) \/ AddPersonalOwner(r)
    <3>1. UNCHANGED logins /\ made'.code = made.code
        BY <1>0, <2>1 DEF HandleEmailLoginStart, HandleEmailLoginVerify, HandleCallback, FindLoginUser,
               CreateLoginUser, UpsertUserIdentity, ReadPendingInvite, AcceptPendingInvite, LookUpMembership,
               CreatePersonalOrganization, AddPersonalOwner, NewUser, TypeOK
    <3> QED
        BY <1>6, <3>1 DEF logins
  <2> QED
      BY <1>1, <1>3, <1>4, <1>5, <1>7, <2>1 DEF Login
<1>8. ASSUME NEW r \in Requests, MemberRequest(r) PROVE Goal
  <2>1. UNCHANGED logins /\ made'.code = made.code
      BY ZenonT(60), <1>0, <1>8 DEF MemberRequest, HandleChangeMember, HandleCreateInvite, HandleDeleteInvite, HandleCreateAPIKey,
             HandleDeleteAPIKey, ChangeOrgMember, InviteOrgMember, GetOrgInvite, DeleteOrgInvite, CreateAPIKey,
             DeleteAPIKey, NewKey, TypeOK
  <2> QED
      BY <1>6, <2>1 DEF logins
<1>9. ASSUME NEW r \in Requests, Abort(r) PROVE Goal
    BY <1>6, <1>9 DEF Abort, logins
<1>10. CASE (\E u \in Users : SessionEnds(u)) \/ PlatformRequest
  <2>1. UNCHANGED <<code, spent>> /\ made'.code = made.code /\ session' \subseteq session
      BY ZenonT(60), <1>0, <1>10 DEF SessionEnds, PlatformRequest, ProvisionUser, HandleAdminUpsertMember,
                        HandleAdminCreateAPIKey, DeleteUser, NewUser, NewKey, TypeOK, logins
  <2> QED
      BY <1>6, <2>1
<1> QED
    BY <1>2, <1>7, <1>8, <1>9, <1>10 DEF Next

----------------------------------------------------------------------------
(* Counts of rows, and the history variables.                              *)

LEMMA CountsMove ==
    ASSUME TypeOK, Next
    PROVE  CountTypes'
<1> DEFINE M == [user: Users, key: 0..MaxKeys, code: 0..MaxCodes, invite: 0..MaxInvites]
<1>0. made \in M /\ calls \in 0..MaxCalls
    BY DEF TypeOK
<1>1. calls' \in 0..MaxCalls
  <2>1. ASSUME NEW r \in Requests, Login(r) PROVE UNCHANGED calls \/ Call
      BY <2>1
         DEF Login, HandleEmailLoginStart,
             CreateEmailLoginChallenge, HandleEmailLoginVerify, IncrementAttempts, ConsumeEmailLoginChallenge,
             HandleCallback, FindLoginUser, CreateLoginUser, UpsertUserIdentity, ReadPendingInvite,
             AcceptPendingInvite, LookUpMembership, CreatePersonalOrganization, AddPersonalOwner, FinishLogin
  <2>2. ASSUME NEW r \in Requests, MemberRequest(r) PROVE UNCHANGED calls \/ Call
      BY ZenonT(60), <2>2
         DEF MemberRequest, HandleChangeMember, HandleCreateInvite, HandleDeleteInvite, HandleCreateAPIKey,
             HandleDeleteAPIKey, ChangeOrgMember, InviteOrgMember, GetOrgInvite, DeleteOrgInvite, CreateAPIKey,
             DeleteAPIKey
  <2>3. CASE PlatformRequest
    <3>1. UNCHANGED calls \/ Call
        BY <2>3
           DEF PlatformRequest, ProvisionUser, HandleAdminUpsertMember, HandleAdminCreateAPIKey, DeleteUser
    <3> QED
        BY <1>0, <3>1, Bounds DEF Call
  <2>4. ASSUME (\E r \in Requests : Abort(r)) \/ (\E c \in Codes : TimePasses(c)) \/ (\E u \in Users : SessionEnds(u))
        PROVE  UNCHANGED calls \/ Call
      BY <2>4 DEF Abort, TimePasses, SessionEnds
  <2>5. UNCHANGED calls \/ Call \/ PlatformRequest
      BY <2>1, <2>2, <2>4 DEF Next
  <2> QED
      BY <1>0, <2>3, <2>5, Bounds DEF Call
<1>2. ASSUME NEW u, NEW scope, NewKey(u, scope) PROVE made' \in M
  <2>1. made.key + 1 \in 0..MaxKeys
      BY <1>0, <1>2, Bounds DEF NewKey
  <2> QED
      BY <1>0, <1>2, <2>1 DEF NewKey
<1>3. ASSUME NEW e, NewUser(e) PROVE made' \in M
  <2>1. made.user + 1 \in Users
      BY <1>0, <1>3, Bounds DEF NewUser, Users
  <2> QED
      BY <1>0, <1>3, <2>1 DEF NewUser
<1>4. ASSUME NEW r, NEW sent, CreateEmailLoginChallenge(r, sent) PROVE made' \in M
  <2>1. made.code + 1 \in 0..MaxCodes
      BY <1>0, <1>4, Bounds DEF CreateEmailLoginChallenge
  <2> QED
      BY <1>0, <1>4, <2>1 DEF CreateEmailLoginChallenge
<1>5. ASSUME NEW r, InviteOrgMember(r) PROVE made' \in M
  <2>1. ASSUME UNCHANGED made PROVE made' \in M
      BY <1>0, <2>1
  <2>2. CASE made.invite < MaxInvites /\ made' = [made EXCEPT !.invite = @ + 1]
    <3>1. made.invite + 1 \in 0..MaxInvites
        BY <1>0, <2>2, Bounds
    <3> QED
        BY <1>0, <2>2, <3>1
  <2>3. CASE made' = [made EXCEPT !.invite = @]
      BY <1>0, <2>3
  <2> QED
      BY <1>5, <2>1, <2>2, <2>3 DEF InviteOrgMember
<1>6. ASSUME UNCHANGED made PROVE made' \in M
    BY <1>0, <1>6
<1>7. made' \in M
  <2>1. ASSUME NEW r \in Requests, Login(r) PROVE made' \in M
      BY <1>2, <1>3, <1>4, <1>6, <2>1
         DEF Login, HandleEmailLoginStart, HandleEmailLoginVerify, IncrementAttempts, ConsumeEmailLoginChallenge,
             HandleCallback, FindLoginUser, CreateLoginUser, UpsertUserIdentity, ReadPendingInvite,
             AcceptPendingInvite, LookUpMembership, CreatePersonalOrganization, AddPersonalOwner, FinishLogin
  <2>2. ASSUME NEW r \in Requests, MemberRequest(r) PROVE made' \in M
      BY ZenonT(60), <1>2, <1>5, <1>6, <2>2
         DEF MemberRequest, HandleChangeMember, HandleCreateInvite, HandleDeleteInvite, HandleCreateAPIKey,
             HandleDeleteAPIKey, ChangeOrgMember, GetOrgInvite, DeleteOrgInvite, CreateAPIKey, DeleteAPIKey
  <2>3. CASE PlatformRequest
      BY <1>2, <1>3, <1>6, <2>3
         DEF PlatformRequest, ProvisionUser, HandleAdminUpsertMember, HandleAdminCreateAPIKey, DeleteUser
  <2> QED
      BY <1>6, <2>1, <2>2, <2>3 DEF Next, Abort, TimePasses, SessionEnds
<1> QED
    BY <1>1, <1>7 DEF CountTypes

----------------------------------------------------------------------------
(* Steps that leave the memberships and invitations alone.                 *)

Quiet == UNCHANGED <<member, personal, invite, by, owners, owned>>

LEMMA QuietLogin ==
    ASSUME NEW r \in Requests, Login(r)
    PROVE  Quiet \/ AcceptPendingInvite(r) \/ AddPersonalOwner(r)
<1>1. CASE \/ \E e \in Emails, flow \in Flows : HandleEmailLoginStart(r, e, flow)
           \/ \E sent \in BOOLEAN : CreateEmailLoginChallenge(r, sent)
           \/ \E c \in Codes, right \in BOOLEAN : HandleEmailLoginVerify(r, c, right)
           \/ IncrementAttempts(r) \/ ConsumeEmailLoginChallenge(r)
           \/ \E e \in Emails, flow \in Flows : HandleCallback(r, e, flow)
    BY <1>1 DEF Quiet, rows, history, HandleEmailLoginStart, CreateEmailLoginChallenge, HandleEmailLoginVerify,
       IncrementAttempts, ConsumeEmailLoginChallenge, HandleCallback
<1>2. CASE FindLoginUser(r) \/ CreateLoginUser(r) \/ UpsertUserIdentity(r)
    BY <1>2 DEF Quiet, rows, history, FindLoginUser, CreateLoginUser, UpsertUserIdentity
<1>3. CASE ReadPendingInvite(r) \/ LookUpMembership(r) \/ CreatePersonalOrganization(r) \/ FinishLogin(r)
    BY <1>3 DEF Quiet, rows, history, ReadPendingInvite, LookUpMembership, CreatePersonalOrganization, FinishLogin
<1> QED
    BY <1>1, <1>2, <1>3 DEF Login

LEMMA QuietMember ==
    ASSUME NEW r \in Requests, MemberRequest(r)
    PROVE  Quiet \/ ChangeOrgMember(r) \/ InviteOrgMember(r) \/ DeleteOrgInvite(r)
<1>1. ASSUME NEW u \in Users, NEW k \in {0} \cup Keys, NEW mode \in {"upsert", "update", "delete"},
             NEW target \in 1..made.user, NEW role \in Assignable, HandleChangeMember(r, u, k, mode, target, role)
      PROVE  Quiet
    BY <1>1 DEF Quiet, rows, history, HandleChangeMember
<1>2. ASSUME NEW u \in Users, NEW k \in {0} \cup Keys, NEW e \in Emails, NEW role \in Assignable,
             HandleCreateInvite(r, u, k, e, role)
      PROVE  Quiet
    BY <1>2 DEF Quiet, rows, history, HandleCreateInvite
<1>3. ASSUME NEW u \in Users, NEW k \in {0} \cup Keys, NEW i,
             HandleDeleteInvite(r, u, k, i) \/ HandleCreateAPIKey(r, u, k) \/ HandleDeleteAPIKey(r, u, k, i)
      PROVE  Quiet
    BY <1>3 DEF Quiet, rows, history, HandleDeleteInvite, HandleCreateAPIKey, HandleDeleteAPIKey
<1>4. CASE GetOrgInvite(r) \/ (\E scope \in Scopes : CreateAPIKey(r, scope)) \/ DeleteAPIKey(r)
    BY <1>4 DEF Quiet, rows, history, GetOrgInvite, CreateAPIKey, DeleteAPIKey
<1> QED
    BY <1>1, <1>2, <1>3, <1>4 DEF MemberRequest

LEMMA QuietPlatform ==
    ASSUME PlatformRequest
    PROVE  \/ Quiet \/ \E u \in Users : DeleteUser(u) \/ \E role \in Assignable : HandleAdminUpsertMember(u, role)
BY DEF PlatformRequest, Quiet, rows, history, ProvisionUser, HandleAdminCreateAPIKey

LEMMA QuietTime ==
    ASSUME \/ \E c \in Codes : TimePasses(c)
           \/ \E u \in Users : SessionEnds(u)
           \/ \E r \in Requests : Abort(r)
    PROVE  Quiet
BY DEF Quiet, rows, history, TimePasses, SessionEnds, Abort

----------------------------------------------------------------------------
(* Roles: who has them, and who gave them.                                 *)

LEMMA RoleFields ==
    ASSUME TypeOK, NEW u \in Users
    PROVE  member[u] \in MaybeRole /\ by[u] \in Someone
BY DEF TypeOK

\* Roles are given to users by users, or by the platform.
LEMMA RoleIsGiven ==
    ASSUME TypeOK, RolesOK, NEW u \in Users, NEW role \in MaybeRole, NEW actor \in Someone,
           SetRole(u, role, actor), role # member[u] /\ role \in Privileged => actor = Platform \/ actor \in owners,
           owned' \in BOOLEAN, owned' => \E v \in Users : member'[v] = "owner",
           \A e \in Emails : invite'[e].role \in Privileged => invite'[e].by \in owners
    PROVE  HistoryTypes' /\ owners \subseteq owners' /\ RolesOK'
<1>1. owners \subseteq owners' /\ owners' \subseteq Users /\ (role = "owner" => u \in owners')
    BY DEF SetRole, TypeOK
<1>2. by' \in [Users -> Someone]
    BY DEF SetRole, TypeOK
<1>3. member'[u] = role /\ by'[u] = IF role = member[u] THEN by[u] ELSE actor
    BY DEF SetRole, TypeOK
<1>4. \A v \in Users : v # u => member'[v] = member[v] /\ by'[v] = by[v]
    BY DEF SetRole, TypeOK
<1>5. OwnersRecorded'
    BY <1>1, <1>3, <1>4 DEF RolesOK, OwnersRecorded
<1>6. OwnerRemains'
    BY DEF OwnerRemains, HasOwner
<1>7. ASSUME NEW v \in Users, member'[v] \in Privileged PROVE by'[v] = Platform \/ by'[v] \in owners'
    BY <1>1, <1>3, <1>4, <1>7 DEF RolesOK, AuthorityIsGranted
<1>8. AuthorityIsGranted'
    BY <1>1, <1>7 DEF AuthorityIsGranted
<1> QED
    BY <1>1, <1>2, <1>5, <1>6, <1>8 DEF HistoryTypes, RolesOK

\* Only invitations change.
LEMMA RolesStay ==
    ASSUME TypeOK, RolesOK, UNCHANGED <<member, by, owners, owned>>,
           \A e \in Emails : invite'[e].role \in Privileged => invite'[e].by \in owners
    PROVE  HistoryTypes' /\ owners \subseteq owners' /\ RolesOK'
BY DEF TypeOK, HistoryTypes, RolesOK, OwnersRecorded, OwnerRemains, HasOwner, AuthorityIsGranted

LEMMA InvitesStay ==
    ASSUME RolesOK, \A e \in Emails : invite'[e] = invite[e] \/ invite'[e] = NoInvite
    PROVE  \A e \in Emails : invite'[e].role \in Privileged => invite'[e].by \in owners
<1> SUFFICES ASSUME NEW e \in Emails, invite'[e].role \in Privileged PROVE invite'[e].by \in owners
    OBVIOUS
<1>1. NoInvite.role \notin Privileged
    BY DEF NoInvite, Privileged
<1> QED
    BY <1>1 DEF RolesOK, AuthorityIsGranted

LEMMA InvitesDropped ==
    ASSUME NEW i, NEW e \in Emails
    PROVE  WithoutInvite(i)[e] = invite[e] \/ WithoutInvite(i)[e] = NoInvite
BY DEF WithoutInvite

\* Under the lock, the actor is an owner, or no owner's role is touched.
LEMMA ChangeKeepsOwners ==
    ASSUME IInv, NEW r \in Requests, ChangeOrgMember(r)
    PROVE  HistoryTypes' /\ owners \subseteq owners' /\ RolesOK'
<1> DEFINE q == req[r]
<1>0. TypeOK /\ RolesOK /\ OwnerRemains /\ OwnersRecorded
    BY DEF IInv, RolesOK
<1>1. q.uid \in Users /\ q.target \in Users /\ q.grant \in MaybeRole /\ UNCHANGED invite
  <2>1. Carried(q, owners, made.code) /\ q \in Request /\ q.pc = "change" /\ UNCHANGED invite
      BY DEF IInv, RequestsOK, ChangeOrgMember, At, TypeOK
  <2> QED
      BY <2>1, RequestFields DEF Carried, Anonymous
<1>2. \A e \in Emails : invite'[e].role \in Privileged => invite'[e].by \in owners
    BY <1>0, <1>1, InvitesStay
<1>3. CASE UNCHANGED <<member, personal, history>>
    BY <1>0, <1>2, <1>3, RolesStay DEF history
<1>4. CASE MayChange(q) /\ SetRole(q.target, q.grant, q.uid) /\ owned' = (owned \/ q.grant = "owner")
  <2>1. member[q.uid] \in Privileged
      BY <1>4 DEF MayChange
  <2>2. member[q.uid] # "owner" => member[q.target] \notin Privileged /\ q.grant \notin Privileged
      BY <1>4, <2>1 DEF MayChange, Privileged
  <2>3. q.uid = q.target => q.grant = member[q.target]
      BY <1>4 DEF MayChange
  <2>4. q.grant \in Privileged => q.uid \in owners
      BY <1>0, <1>1, <2>2 DEF OwnersRecorded
  <2>5. owned' \in BOOLEAN
      BY <1>0, <1>4 DEF TypeOK
  <2>6. /\ member'[q.target] = q.grant
        /\ \A v \in Users : v # q.target => member'[v] = member[v]
      BY <1>0, <1>1, <1>4 DEF SetRole, TypeOK
  <2> HIDE DEF q
  <2>7. ASSUME owned' PROVE \E v \in Users : member'[v] = "owner"
    <3>1. CASE q.grant = "owner"
        BY <1>1, <2>6, <3>1
    <3>2. CASE owned
      <4>1. PICK v \in Users : member[v] = "owner"
          BY <1>0, <3>2 DEF OwnerRemains, HasOwner
      <4>2. CASE v # q.target
          BY <2>6, <4>1, <4>2
      <4>3. CASE v = q.target
        <5>1. member[q.uid] = "owner"
            BY <2>2, <4>1, <4>3 DEF Privileged
        <5>2. member'[q.uid] = "owner"
            BY <1>1, <2>3, <2>6, <5>1
        <5> QED
            BY <1>1, <5>2
      <4> QED
          BY <4>2, <4>3
    <3> QED
        BY <1>4, <2>7, <3>1, <3>2
  <2>8. SetRole(q.target, q.grant, q.uid) /\ q.uid \in Someone
      BY <1>1, <1>4 DEF Someone
  <2> QED
      BY <1>0, <1>1, <1>2, <2>4, <2>5, <2>7, <2>8, RoleIsGiven
<1> QED
    BY <1>3, <1>4 DEF ChangeOrgMember

LEMMA JoinKeepsOwners ==
    ASSUME IInv, NEW r \in Requests, AcceptPendingInvite(r)
    PROVE  HistoryTypes' /\ owners \subseteq owners' /\ RolesOK'
<1> DEFINE q == req[r]
<1>0. TypeOK /\ RolesOK /\ OwnerRemains
    BY DEF IInv, RolesOK
<1>1. q.uid \in Users /\ q.grant \in MaybeRole /\ q.by \in Someone /\ (q.grant \in Privileged => q.by \in owners)
  <2>1. Carried(q, owners, made.code) /\ q \in Request /\ q.pc = "join"
      BY DEF IInv, RequestsOK, AcceptPendingInvite, At, TypeOK
  <2> QED
      BY <2>1, RequestFields DEF Carried, Anonymous
<1>2. CASE UNCHANGED <<member, personal, invite, history>>
  <2>1. \A e \in Emails : invite'[e].role \in Privileged => invite'[e].by \in owners
      BY <1>0, <1>2, InvitesStay
  <2> QED
      BY <1>0, <1>2, <2>1, RolesStay DEF history
<1>3. CASE /\ SetRole(q.uid, Joined(q.uid, q.grant), q.by)
           /\ owned' = (owned \/ Joined(q.uid, q.grant) = "owner")
           /\ invite' = WithoutInvite(q.row)
  <2> DEFINE role == Joined(q.uid, q.grant)
  <2>1. role \in MaybeRole /\ (role # member[q.uid] => role = q.grant /\ member[q.uid] = "none")
      BY <1>0, <1>1, RoleFields DEF Joined
  <2>2. \A e \in Emails : invite'[e].role \in Privileged => invite'[e].by \in owners
      BY <1>0, <1>3, InvitesDropped, InvitesStay
  <2>3. owned' \in BOOLEAN
      BY <1>0, <1>3 DEF TypeOK
  <2>4. /\ member'[q.uid] = role /\ \A v \in Users : v # q.uid => member'[v] = member[v]
      BY <1>0, <1>1, <1>3 DEF SetRole, TypeOK
  <2>5. SetRole(q.uid, role, q.by) /\ owned' = (owned \/ role = "owner")
      BY <1>3
  <2> HIDE DEF role, q
  <2>6. ASSUME owned' PROVE \E v \in Users : member'[v] = "owner"
    <3>1. CASE role = "owner"
        BY <1>1, <2>4, <3>1
    <3>2. CASE owned
      <4>1. PICK v \in Users : member[v] = "owner"
          BY <1>0, <3>2 DEF OwnerRemains, HasOwner
      <4>2. member'[v] = "owner"
          BY <2>1, <2>4, <4>1
      <4> QED
          BY <4>2
    <3> QED
        BY <2>5, <2>6, <3>1, <3>2
  <2>7. role # member[q.uid] /\ role \in Privileged => q.by = Platform \/ q.by \in owners
      BY <1>1, <2>1
  <2> QED
      BY <1>0, <1>1, <2>1, <2>2, <2>3, <2>5, <2>6, <2>7, RoleIsGiven
<1> QED
    BY <1>2, <1>3 DEF AcceptPendingInvite

LEMMA InviteKeepsOwners ==
    ASSUME IInv, NEW r \in Requests, InviteOrgMember(r)
    PROVE  HistoryTypes' /\ owners \subseteq owners' /\ RolesOK'
<1> DEFINE q == req[r]
<1>0. TypeOK /\ RolesOK
    BY DEF IInv
<1>1. q.email \in Emails /\ (q.grant \in Privileged => q.uid \in owners)
    BY DEF IInv, RequestsOK, Carried, InviteOrgMember, At, WithEmail
<1>2. UNCHANGED <<member, by, owners, owned>>
    BY DEF InviteOrgMember, history
<1>3. CASE UNCHANGED invite
  <2>1. \A e \in Emails : invite'[e].role \in Privileged => invite'[e].by \in owners
      BY <1>0, <1>3, InvitesStay
  <2> QED
      BY <1>0, <1>2, <2>1, RolesStay
<1>4. CASE \E i : invite' = [invite EXCEPT ![q.email] = [id |-> i, role |-> q.grant, by |-> q.uid]]
  <2>1. ASSUME NEW e \in Emails, invite'[e].role \in Privileged PROVE invite'[e].by \in owners
    <3>1. CASE e = q.email
        BY <1>0, <1>1, <1>4, <2>1, <3>1 DEF TypeOK
    <3>2. CASE e # q.email
        BY <1>0, <1>4, <2>1, <3>2 DEF TypeOK, RolesOK, AuthorityIsGranted
    <3> QED
        BY <3>1, <3>2
  <2> QED
      BY <1>0, <1>2, <2>1, RolesStay
<1> QED
    BY <1>3, <1>4 DEF InviteOrgMember

LEMMA PlatformKeepsOwners ==
    ASSUME IInv, NEW u \in Users, DeleteUser(u) \/ \E role \in Assignable : HandleAdminUpsertMember(u, role)
    PROVE  HistoryTypes' /\ owners \subseteq owners' /\ RolesOK'
<1>0. TypeOK /\ RolesOK
    BY DEF IInv
<1>1. CASE DeleteUser(u)
  <2>1. /\ UNCHANGED <<by, owners>> /\ owned' = (\E v \in Users : member'[v] = "owner")
        /\ member' = [member EXCEPT ![u] = "none"]
        /\ invite' = [e \in Emails |-> IF invite[e].by = u THEN NoInvite ELSE invite[e]]
      BY <1>1 DEF DeleteUser
  <2>2. \A e \in Emails : invite'[e].role \in Privileged => invite'[e].by \in owners
      BY <1>0, <2>1, InvitesStay
  <2>3. \A v \in Users : member'[v] = "none" \/ member'[v] = member[v]
      BY <1>0, <2>1 DEF TypeOK
  <2>4. owned' \in BOOLEAN /\ OwnerRemains'
      BY <2>1 DEF OwnerRemains, HasOwner
  <2>5. OwnersRecorded' /\ AuthorityIsGranted'
      BY <1>0, <2>1, <2>2, <2>3 DEF RolesOK, OwnersRecorded, AuthorityIsGranted, Privileged
  <2> QED
      BY <1>0, <2>1, <2>4, <2>5 DEF HistoryTypes, RolesOK, TypeOK
<1>2. ASSUME NEW role \in Assignable, HandleAdminUpsertMember(u, role)
      PROVE  HistoryTypes' /\ owners \subseteq owners' /\ RolesOK'
  <2>1. SetRole(u, role, Platform) /\ owned' = (\E v \in Users : member'[v] = "owner") /\ UNCHANGED invite
      BY <1>2 DEF HandleAdminUpsertMember
  <2>2. \A e \in Emails : invite'[e].role \in Privileged => invite'[e].by \in owners
      BY <1>0, <2>1, InvitesStay
  <2>3. role \in MaybeRole /\ Platform \in Someone
      BY Bounds DEF MaybeRole, Someone, Platform
  <2>4. owned' \in BOOLEAN
      BY <2>1
  <2> QED
      BY <1>0, <2>1, <2>2, <2>3, <2>4, RoleIsGiven
<1> QED
    BY <1>1, <1>2

LEMMA RolesMove ==
    ASSUME IInv, Next
    PROVE  HistoryTypes' /\ owners \subseteq owners' /\ RolesOK'
<1>0. TypeOK /\ RolesOK
    BY DEF IInv
<1>1. CASE UNCHANGED <<member, by, owners, owned>> /\ \A e \in Emails : invite'[e] = invite[e] \/ invite'[e] = NoInvite
  <2>1. \A e \in Emails : invite'[e].role \in Privileged => invite'[e].by \in owners
      BY <1>0, <1>1, InvitesStay
  <2> QED
      BY <1>0, <1>1, <2>1, RolesStay
<1>2. CASE Quiet
    BY <1>1, <1>2 DEF Quiet
<1>3. ASSUME NEW r \in Requests, AddPersonalOwner(r) \/ DeleteOrgInvite(r)
      PROVE  HistoryTypes' /\ owners \subseteq owners' /\ RolesOK'
  <2>1. UNCHANGED <<member, by, owners, owned>>
      BY <1>3 DEF AddPersonalOwner, DeleteOrgInvite, history
  <2>2. \A e \in Emails : invite'[e] = invite[e] \/ invite'[e] = NoInvite
      BY <1>3, InvitesDropped DEF AddPersonalOwner, DeleteOrgInvite
  <2> QED
      BY <1>1, <2>1, <2>2
<1>4. ASSUME NEW r \in Requests, Login(r) PROVE HistoryTypes' /\ owners \subseteq owners' /\ RolesOK'
    BY <1>2, <1>3, <1>4, QuietLogin, JoinKeepsOwners
<1>5. ASSUME NEW r \in Requests, MemberRequest(r) PROVE HistoryTypes' /\ owners \subseteq owners' /\ RolesOK'
    BY <1>2, <1>3, <1>5, QuietMember, ChangeKeepsOwners, InviteKeepsOwners
<1>6. CASE PlatformRequest
    BY <1>2, <1>6, QuietPlatform, PlatformKeepsOwners
<1> QED
    BY <1>2, <1>4, <1>5, <1>6, QuietTime DEF Next

----------------------------------------------------------------------------
(* The rows and their references.                                          *)

LEMMA Named ==
    ASSUME TypeOK, NEW u \in Users, member[u] # "none"
    PROVE  Exists(u)
BY DEF TypeOK, Exists

LEMMA OwnedKeys ==
    ASSUME TypeOK, NEW k \in Keys
    PROVE  key[k] \in Key /\ key[k].uid \in Someone /\ (key[k].uid \in Users => Exists(key[k].uid))
BY DEF TypeOK, Key, Exists

LEMMA SentInvites ==
    ASSUME TypeOK, NEW e \in Emails
    PROVE  invite[e] \in Invite /\ (invite[e].by \in Users => Exists(invite[e].by))
BY DEF TypeOK, Exists

\* Nothing changes, or one of the tables does, or users appear.
LEMMA RowsStay ==
    ASSUME TypeOK, UNCHANGED rows
    PROVE  RowTypes'
BY DEF TypeOK, RowTypes, Referenced, rows

LEMMA UserAppears ==
    ASSUME TypeOK, NEW e \in Emails, NEW u \in Users, Having(e) = {}, mail' = [mail EXCEPT ![u] = e],
           UNCHANGED <<member, personal, invite, key>>
    PROVE  RowTypes'
<1>1. mail' \in [Users -> Emails \cup {NoEmail}]
    BY DEF TypeOK
<1>2. /\ mail'[u] = e /\ e # NoEmail /\ \A v \in Users : mail[v] # e
      /\ \A v \in Users : v # u => mail'[v] = mail[v]
    BY Bounds DEF TypeOK, Having
<1>3. ASSUME NEW v \in Users, NEW w \in Users, mail'[v] = mail'[w], mail'[v] # NoEmail PROVE v = w
    BY <1>2, <1>3 DEF TypeOK
<1>4. Referenced'
    BY <1>2 DEF TypeOK, Referenced
<1> QED
    BY <1>1, <1>3, <1>4 DEF RowTypes, TypeOK

LEMMA RoleAppears ==
    ASSUME TypeOK, NEW u \in Users, NEW role \in MaybeRole, NEW actor, SetRole(u, role, actor), Exists(u),
           UNCHANGED <<mail, key>>,
           \A e \in Emails : invite'[e] = invite[e] \/ invite'[e] = NoInvite,
           invite' = invite \/ \E i : invite' = WithoutInvite(i)
    PROVE  RowTypes'
<1>1. member' \in [Users -> MaybeRole] /\ \A v \in Users : v # u => member'[v] = member[v]
    BY DEF SetRole, TypeOK
<1>2. personal' \in [Users -> {"none", "older", "newer"}] /\ \A v \in Users : v # u => personal'[v] = personal[v]
    BY DEF SetRole, TypeOK
<1>3. NoInvite \in Invite /\ NoInvite.by \notin Users
    BY Bounds DEF NoInvite, Invite, MaybeRole, Someone, Users
<1>4. invite' \in [Emails -> Invite]
    BY <1>3 DEF TypeOK, WithoutInvite
<1>5. Referenced'
  <2> SUFFICES ASSUME NEW v \in Users, mail[v] = NoEmail
               PROVE  /\ member'[v] = "none" /\ personal'[v] = "none"
                      /\ \A e \in Emails : invite'[e].by # v
                      /\ \A k \in Keys : key[k].uid # v
      BY DEF Referenced
  <2>1. v # u
      BY DEF Exists
  <2> QED
      BY <1>1, <1>2, <1>3, <2>1 DEF TypeOK
<1> QED
    BY <1>1, <1>2, <1>4, <1>5 DEF RowTypes, TypeOK

LEMMA KeyAppears ==
    ASSUME TypeOK, NEW u \in Users, NEW scope \in Scopes, NewKey(u, scope), IsMember(u),
           UNCHANGED <<mail, member, personal, invite>>
    PROVE  RowTypes'
<1>1. Exists(u)
    BY Named DEF IsMember
<1>2. [uid |-> u, scope |-> scope] \in Key
    BY DEF Key, Someone
<1>3. key' \in [Keys -> Key] /\ \A k \in Keys : key'[k] = key[k] \/ key'[k].uid = u
    BY ZenonT(60), <1>2 DEF NewKey, TypeOK
<1>4. Referenced'
    BY <1>1, <1>3 DEF Referenced, TypeOK, Exists
<1> QED
    BY <1>3, <1>4 DEF RowTypes, TypeOK

LEMMA NoKeyIsKey == NoAPIKey \in Key /\ NoAPIKey.uid \notin Users
BY Bounds DEF NoAPIKey, Key, Someone, Scopes, Users

LEMMA NoInviteIsInvite == NoInvite \in Invite /\ NoInvite.by \notin Users
BY Bounds DEF NoInvite, Invite, MaybeRole, Someone, Users

\* Rows of other tables vanish.
LEMMA RowsVanish ==
    ASSUME TypeOK, UNCHANGED <<mail, member, personal>>,
           invite' \in [Emails -> Invite], key' \in [Keys -> Key],
           \A e \in Emails : invite'[e] = invite[e] \/ invite'[e].by \notin Users,
           \A k \in Keys : key'[k] = key[k] \/ key'[k].uid \notin Users
    PROVE  RowTypes'
BY DEF TypeOK, RowTypes, Referenced

LEMMA WithoutIsInvites ==
    ASSUME TypeOK, NEW i
    PROVE  WithoutInvite(i) \in [Emails -> Invite]
BY NoInviteIsInvite DEF WithoutInvite, TypeOK

LEMMA LoginRows ==
    ASSUME IInv, NEW r \in Requests, Login(r)
    PROVE  RowTypes'
<1>0. TypeOK /\ req[r] \in Request /\ Carried(req[r], owners, made.code)
    BY DEF IInv, TypeOK, RequestsOK
<1>1. CASE \/ \E e \in Emails, flow \in Flows : HandleEmailLoginStart(r, e, flow)
           \/ \E sent \in BOOLEAN : CreateEmailLoginChallenge(r, sent)
           \/ \E c \in Codes, right \in BOOLEAN : HandleEmailLoginVerify(r, c, right)
           \/ IncrementAttempts(r) \/ ConsumeEmailLoginChallenge(r)
           \/ \E e \in Emails, flow \in Flows : HandleCallback(r, e, flow)
           \/ FindLoginUser(r) \/ UpsertUserIdentity(r) \/ ReadPendingInvite(r) \/ LookUpMembership(r)
           \/ CreatePersonalOrganization(r)
  <2>1. UNCHANGED rows
      BY <1>1 DEF HandleEmailLoginStart, CreateEmailLoginChallenge, HandleEmailLoginVerify, IncrementAttempts,
             ConsumeEmailLoginChallenge, HandleCallback, FindLoginUser, UpsertUserIdentity, ReadPendingInvite,
             LookUpMembership, CreatePersonalOrganization
  <2> QED
      BY <1>0, <2>1, RowsStay
<1>2. CASE CreateLoginUser(r)
  <2>1. UNCHANGED <<member, personal, invite, key>> /\ req[r].email \in Emails
      BY <1>0, <1>2 DEF CreateLoginUser, At, Carried, WithEmail
  <2>2. CASE UNCHANGED mail
      BY <1>0, <2>1, <2>2, RowsStay DEF rows
  <2>3. CASE Having(req[r].email) = {} /\ NewUser(req[r].email)
    <3>1. made.user + 1 \in Users
        BY <1>0, <2>3, Bounds DEF NewUser, TypeOK, Users
    <3>2. mail' = [mail EXCEPT ![made.user + 1] = req[r].email]
        BY <2>3 DEF NewUser
    <3> QED
        BY <1>0, <2>1, <2>3, <3>1, <3>2, UserAppears
  <2> QED
      BY <1>2, <2>2, <2>3 DEF CreateLoginUser
<1>3. CASE AcceptPendingInvite(r)
  <2> DEFINE q == req[r]
  <2>1. q.uid \in Users /\ q.grant \in MaybeRole /\ UNCHANGED <<mail, key>>
      BY <1>0, <1>3, RequestFields DEF AcceptPendingInvite, At, Carried, Anonymous
  <2>2. CASE UNCHANGED <<member, personal, invite>>
      BY <1>0, <2>1, <2>2, RowsStay DEF rows
  <2>3. CASE Exists(q.uid) /\ SetRole(q.uid, Joined(q.uid, q.grant), q.by) /\ invite' = WithoutInvite(q.row)
    <3>1. Joined(q.uid, q.grant) \in MaybeRole
        BY <1>0, <2>1, RoleFields DEF Joined
    <3> QED
        BY <1>0, <2>1, <2>3, <3>1, InvitesDropped, RoleAppears
  <2> QED
      BY <1>3, <2>2, <2>3 DEF AcceptPendingInvite
<1>4. CASE AddPersonalOwner(r)
  <2> DEFINE u == req[r].uid
  <2>1. UNCHANGED <<mail, member, invite, key>> /\ u \in Users
      BY <1>0, <1>4 DEF AddPersonalOwner, At, Carried, Anonymous
  <2>2. /\ \E p \in {"none", "older", "newer"} : personal' = [personal EXCEPT ![u] = p]
        /\ ~Exists(u) => personal'[u] = personal[u]
    <3>1. personal[u] \in {"none", "older", "newer"}
        BY <1>0, <2>1 DEF TypeOK
    <3>2. CASE ~Exists(u)
      <4>1. personal' = [personal EXCEPT ![u] = personal[u]]
          BY <1>4, <3>2 DEF AddPersonalOwner
      <4>2. personal'[u] = personal[u]
          BY <1>0, <2>1, <4>1 DEF TypeOK
      <4> QED
          BY <3>1, <4>1, <4>2
    <3>3. CASE Exists(u) /\ personal[u] = "none"
        BY <1>0, <1>4, <2>1, <3>3 DEF AddPersonalOwner
    <3>4. CASE Exists(u) /\ personal[u] # "none"
        BY <1>0, <1>4, <2>1, <3>1, <3>4 DEF AddPersonalOwner
    <3> QED
        BY <3>2, <3>3, <3>4
  <2>3. personal' \in [Users -> {"none", "older", "newer"}] /\ \A v \in Users : v # u => personal'[v] = personal[v]
    <3>1. PICK p \in {"none", "older", "newer"} : personal' = [personal EXCEPT ![u] = p]
        BY <2>2
    <3> QED
        BY ZenonT(60), <1>0, <3>1 DEF TypeOK
  <2>4. Referenced'
      BY <1>0, <2>1, <2>2, <2>3 DEF Referenced, TypeOK, Exists
  <2> QED
      BY <1>0, <2>1, <2>3, <2>4 DEF RowTypes, TypeOK
<1>5. CASE FinishLogin(r)
  <2>1. UNCHANGED <<mail, member, personal, invite>> /\ req[r].uid \in Users /\ "cli" \in Scopes
      BY <1>0, <1>5 DEF FinishLogin, At, Carried, Anonymous, Scopes
  <2>2. CASE UNCHANGED key
      BY <1>0, <2>1, <2>2, RowsStay DEF rows
  <2>3. CASE IsMember(req[r].uid) /\ NewKey(req[r].uid, "cli")
      BY <1>0, <2>1, <2>3, KeyAppears
  <2> QED
      BY <1>5, <2>2, <2>3 DEF FinishLogin
<1> QED
    BY <1>1, <1>2, <1>3, <1>4, <1>5 DEF Login

LEMMA MemberRows ==
    ASSUME IInv, NEW r \in Requests, MemberRequest(r)
    PROVE  RowTypes'
<1>0. TypeOK /\ req[r] \in Request /\ Carried(req[r], owners, made.code)
    BY DEF IInv, TypeOK, RequestsOK
<1>1. CASE UNCHANGED rows
    BY <1>0, <1>1, RowsStay
<1>2. CASE ChangeOrgMember(r)
  <2> DEFINE q == req[r]
  <2>1. q.target \in Users /\ q.grant \in MaybeRole /\ UNCHANGED <<mail, invite, key>>
      BY <1>0, <1>2, RequestFields DEF ChangeOrgMember, At, Carried
  <2>2. CASE UNCHANGED <<member, personal>>
      BY <1>0, <2>1, <2>2, RowsStay DEF rows
  <2>3. CASE MayChange(q) /\ SetRole(q.target, q.grant, q.uid)
    <3>1. Exists(q.target)
        BY <1>0, <2>1, <2>3, Named DEF MayChange
    <3> QED
        BY <1>0, <2>1, <2>3, <3>1, RoleAppears
  <2> QED
      BY <1>2, <2>2, <2>3 DEF ChangeOrgMember
<1>3. CASE InviteOrgMember(r)
  <2> DEFINE q == req[r]
  <2>1. UNCHANGED <<mail, member, personal, key>> /\ q.email \in Emails /\ q.grant \in MaybeRole /\ q.uid \in Users
      BY <1>0, <1>3, RequestFields DEF InviteOrgMember, At, Carried, WithEmail, Anonymous
  <2>2. CASE UNCHANGED invite
      BY <1>0, <2>1, <2>2, RowsStay DEF rows
  <2>3. CASE \E i \in 0..MaxInvites : Exists(q.uid) /\ invite' = [invite EXCEPT ![q.email] =
                   [id |-> i, role |-> q.grant, by |-> q.uid]]
    <3>1. PICK i \in 0..MaxInvites : invite' = [invite EXCEPT ![q.email] = [id |-> i, role |-> q.grant, by |-> q.uid]]
        BY <2>3, Bounds
    <3>2. [id |-> i, role |-> q.grant, by |-> q.uid] \in Invite
        BY <2>1 DEF Invite, Someone
    <3>3. invite' \in [Emails -> Invite] /\ \A e \in Emails : invite'[e] = invite[e] \/ invite'[e].by = q.uid
        BY ZenonT(60), <1>0, <3>1, <3>2 DEF TypeOK
    <3>4. Referenced'
        BY <1>0, <2>1, <2>3, <3>3 DEF Referenced, TypeOK, Exists
    <3> QED
        BY <1>0, <2>1, <3>3, <3>4 DEF RowTypes, TypeOK
  <2>4. ASSUME Exists(q.uid), invite[q.email].id = 0 => made.invite < MaxInvites,
               invite' = [invite EXCEPT ![q.email] =
                   [id |-> IF invite[q.email].id = 0 THEN made.invite + 1 ELSE @.id, role |-> q.grant, by |-> q.uid]]
        PROVE  RowTypes'
    <3> DEFINE i == IF invite[q.email].id = 0 THEN made.invite + 1 ELSE invite[q.email].id
    <3>1. invite[q.email].id \in 0..MaxInvites
        BY <1>0, <2>1 DEF TypeOK, Invite
    <3>2. i \in 0..MaxInvites
        BY <1>0, <2>4, <3>1, CodeCount, Bounds
    <3>3. invite' = [invite EXCEPT ![q.email] = [id |-> i, role |-> q.grant, by |-> q.uid]]
        BY <2>4
    <3> HIDE DEF i
    <3> QED
        BY <2>3, <2>4, <3>2, <3>3
  <2> QED
      BY <1>3, <2>2, <2>4 DEF InviteOrgMember
<1>4. CASE DeleteOrgInvite(r)
  <2>1. UNCHANGED <<mail, member, personal, key>> /\ invite' = WithoutInvite(req[r].row)
      BY <1>4 DEF DeleteOrgInvite
  <2>2. key' \in [Keys -> Key] /\ invite' \in [Emails -> Invite]
      BY <1>0, <2>1, WithoutIsInvites DEF TypeOK
  <2>3. \A e \in Emails : invite'[e] = invite[e] \/ invite'[e].by \notin Users
      BY <2>1, InvitesDropped, NoInviteIsInvite
  <2> QED
      BY <1>0, <2>1, <2>2, <2>3, RowsVanish
<1>5. ASSUME NEW scope \in Scopes, CreateAPIKey(r, scope) PROVE RowTypes'
  <2>1. UNCHANGED <<mail, member, personal, invite>> /\ req[r].uid \in Users
      BY <1>0, <1>5 DEF CreateAPIKey, At, Carried, Anonymous
  <2>2. CASE UNCHANGED key
      BY <1>0, <2>1, <2>2, RowsStay DEF rows
  <2>3. CASE IsMember(req[r].uid) /\ NewKey(req[r].uid, scope)
      BY <1>0, <2>1, <2>3, KeyAppears
  <2> QED
      BY <1>5, <2>2, <2>3 DEF CreateAPIKey
<1>6. CASE DeleteAPIKey(r)
  <2>1. UNCHANGED <<mail, member, personal, invite>> /\ key' = [key EXCEPT ![req[r].key] = NoAPIKey]
      BY <1>6 DEF DeleteAPIKey
  <2>2. key' \in [Keys -> Key] /\ invite' \in [Emails -> Invite]
      BY <1>0, <2>1, NoKeyIsKey DEF TypeOK
  <2>3. \A k \in Keys : key'[k] = key[k] \/ key'[k].uid \notin Users
      BY <1>0, <2>1, NoKeyIsKey DEF TypeOK
  <2> QED
      BY <1>0, <2>1, <2>2, <2>3, RowsVanish
<1>7. CASE \E u \in Users, k \in {0} \cup Keys :
              \/ \E mode \in {"upsert", "update", "delete"}, target \in 1..made.user, role \in Assignable :
                    HandleChangeMember(r, u, k, mode, target, role)
              \/ \E e \in Emails, role \in Assignable : HandleCreateInvite(r, u, k, e, role)
              \/ \E i \in 1..made.invite : HandleDeleteInvite(r, u, k, i)
              \/ HandleCreateAPIKey(r, u, k)
              \/ \E row \in 1..made.key : HandleDeleteAPIKey(r, u, k, row)
  <2>1. UNCHANGED rows
      BY ZenonT(60), <1>7 DEF HandleChangeMember, HandleCreateInvite, HandleDeleteInvite, HandleCreateAPIKey, HandleDeleteAPIKey
  <2> QED
      BY <1>1, <2>1
<1>8. CASE GetOrgInvite(r)
    BY <1>1, <1>8 DEF GetOrgInvite
<1> QED
    BY <1>2, <1>3, <1>4, <1>5, <1>6, <1>7, <1>8 DEF MemberRequest

LEMMA PlatformRows ==
    ASSUME IInv, PlatformRequest
    PROVE  RowTypes'
<1>0. TypeOK
    BY DEF IInv
<1>1. ASSUME NEW e \in Emails, ProvisionUser(e) PROVE RowTypes'
  <2>1. UNCHANGED <<member, personal, invite, key>> /\ Having(e) = {}
      BY <1>1 DEF ProvisionUser
  <2>2. PICK u \in Users : mail' = [mail EXCEPT ![u] = e]
    <3>1. CASE NewUser(e)
      <4>1. made.user + 1 \in Users
          BY <1>0, <3>1, Bounds DEF NewUser, TypeOK, Users
      <4> QED
          BY <3>1, <4>1 DEF NewUser
    <3> QED
        BY <1>1, <3>1 DEF ProvisionUser
  <2> QED
      BY <1>0, <2>1, <2>2, UserAppears
<1>2. ASSUME NEW u \in Users, NEW role \in Assignable, HandleAdminUpsertMember(u, role) PROVE RowTypes'
  <2>1. Exists(u) /\ SetRole(u, role, Platform) /\ UNCHANGED <<mail, invite, key>> /\ role \in MaybeRole
      BY <1>2, Bounds DEF HandleAdminUpsertMember, MaybeRole
  <2> QED
      BY <1>0, <2>1, RoleAppears
<1>3. ASSUME NEW u \in Users, HandleAdminCreateAPIKey(u) PROVE RowTypes'
  <2>1. IsMember(u) /\ NewKey(u, "admin") /\ UNCHANGED <<mail, member, personal, invite>> /\ "admin" \in Scopes
      BY <1>3 DEF HandleAdminCreateAPIKey, Scopes
  <2> QED
      BY <1>0, <2>1, KeyAppears
<1>4. ASSUME NEW u \in Users, DeleteUser(u) PROVE RowTypes'
  <2>1. /\ mail' = [mail EXCEPT ![u] = NoEmail] /\ member' = [member EXCEPT ![u] = "none"]
        /\ personal' = [personal EXCEPT ![u] = "none"]
        /\ invite' = [e \in Emails |-> IF invite[e].by = u THEN NoInvite ELSE invite[e]]
        /\ key' = [k \in Keys |-> IF key[k].uid = u THEN NoAPIKey ELSE key[k]]
      BY <1>4 DEF DeleteUser, KeysWithout
  <2>2. /\ mail' \in [Users -> Emails \cup {NoEmail}]
        /\ mail'[u] = NoEmail /\ \A v \in Users : v # u => mail'[v] = mail[v]
      BY <1>0, <2>1 DEF TypeOK
  <2>3. /\ member' \in [Users -> MaybeRole] /\ personal' \in [Users -> {"none", "older", "newer"}]
        /\ member'[u] = "none" /\ personal'[u] = "none"
        /\ \A v \in Users : v # u => member'[v] = member[v] /\ personal'[v] = personal[v]
      BY <1>0, <2>1 DEF TypeOK, MaybeRole
  <2>4. invite' \in [Emails -> Invite] /\ key' \in [Keys -> Key]
      BY <1>0, <2>1, NoInviteIsInvite, NoKeyIsKey DEF TypeOK
  <2>5. ASSUME NEW v \in Users, mail'[v] = NoEmail
        PROVE  (\A e \in Emails : invite'[e].by # v) /\ (\A k \in Keys : key'[k].uid # v)
    <3>1. v = u \/ mail[v] = NoEmail
        BY <2>2, <2>5
    <3> QED
        BY <1>0, <2>1, <3>1, NoInviteIsInvite, NoKeyIsKey DEF TypeOK
  <2>6. Referenced'
      BY <1>0, <2>2, <2>3, <2>5 DEF Referenced, TypeOK
  <2>7. ASSUME NEW v \in Users, NEW w \in Users, mail'[v] = mail'[w], mail'[v] # NoEmail PROVE v = w
      BY <1>0, <2>2, <2>7 DEF TypeOK
  <2> QED
      BY <2>2, <2>3, <2>4, <2>6, <2>7 DEF RowTypes
<1> QED
    BY <1>1, <1>2, <1>3, <1>4 DEF PlatformRequest

LEMMA RowsMove ==
    ASSUME IInv, Next
    PROVE  RowTypes'
<1>1. TypeOK
    BY DEF IInv
<1>2. CASE (\E r \in Requests : Abort(r)) \/ (\E c \in Codes : TimePasses(c)) \/ (\E u \in Users : SessionEnds(u))
    BY <1>1, <1>2, RowsStay DEF Abort, TimePasses, SessionEnds
<1> QED
    BY <1>2, LoginRows, MemberRows, PlatformRows DEF Next

----------------------------------------------------------------------------
(* The invariant.                                                          *)

LEMMA Initially == Init => IInv
<1> SUFFICES ASSUME Init PROVE IInv
    OBVIOUS
<1>1. PICK e \in Emails, f \in Emails, second \in {0, 2}, role \in Assignable \cup {"none"} :
        /\ e # f /\ mail = [u \in Users |-> IF u = 1 THEN e ELSE IF u = second THEN f ELSE NoEmail]
        /\ made = [user |-> IF second = 2 THEN 2 ELSE 1, key |-> 0, code |-> 0, invite |-> 0]
        /\ second = 0 => role = "none"
        /\ member = [u \in Users |-> IF u = 1 THEN "owner" ELSE IF u = 2 THEN role ELSE "none"]
        /\ owners = IF role = "owner" THEN {1, 2} ELSE {1}
        /\ session = IF second = 2 THEN {1, 2} ELSE {1}
    BY DEF Init
<1>2. /\ personal = [u \in Users |-> "none"]
      /\ invite = [x \in Emails |-> NoInvite] /\ key = [k \in Keys |-> NoAPIKey]
      /\ code = [c \in Codes |-> NoCode]
      /\ req = [r \in Requests |-> Idle] /\ spent = [c \in Codes |-> 0]
      /\ calls = 0 /\ by = [u \in Users |-> Platform] /\ owned = TRUE
    BY DEF Init
<1>3. 1 \in Users /\ 2 \in Users /\ 0 \notin Users /\ {1, 2} \subseteq Users
    BY Bounds DEF Users
<1>4. role \in MaybeRole /\ Platform \in Someone
    BY <1>1, Bounds DEF MaybeRole, Someone, Platform
<1>5. mail \in [Users -> Emails \cup {NoEmail}] /\ member \in [Users -> MaybeRole]
    BY <1>1, <1>4 DEF MaybeRole, Roles
<1>6. \A u, v \in Users : mail[u] = mail[v] /\ mail[u] # NoEmail => u = v
    BY <1>1
<1>7. Referenced
  <2> SUFFICES ASSUME NEW u \in Users, mail[u] = NoEmail
               PROVE  /\ member[u] = "none" /\ personal[u] = "none"
                      /\ \A x \in Emails : invite[x].by # u
                      /\ \A k \in Keys : key[k].uid # u
      BY DEF Referenced
  <2>1. u # 1 /\ u # second
      BY <1>1, Bounds
  <2>2. member[u] = "none"
      BY <1>1, <2>1
  <2> QED
      BY <1>2, <1>3, <2>2, NoInviteIsInvite, NoKeyIsKey
<1>8. RowTypes
    BY <1>2, <1>5, <1>6, <1>7, NoInviteIsInvite, NoKeyIsKey DEF RowTypes
<1>9. NoCode \in Code /\ ~NoCode.consumed
    BY DEF NoCode, Code, Flows
<1>10. LoginTypes /\ CodesOK
    BY <1>1, <1>2, <1>3, <1>9 DEF LoginTypes, CodesOK
<1>11. CountTypes
    BY <1>1, <1>2, <1>3, Bounds DEF CountTypes
<1>12. HistoryTypes
    BY <1>1, <1>2, <1>3, <1>4 DEF HistoryTypes
<1>13. req \in [Requests -> Request]
    BY <1>2, IdleIsRequest
<1>14. Carried(Idle, owners, made.code)
    BY <1>1 DEF Carried, Idle, WithEmail, Anonymous
<1>15. RequestsOK
    BY <1>2, <1>14 DEF RequestsOK
<1>16. OwnersRecorded
    BY <1>1 DEF OwnersRecorded
<1>17. OwnerRemains
    BY <1>1, <1>3 DEF OwnerRemains, HasOwner
<1>18. AuthorityIsGranted
    BY <1>2 DEF AuthorityIsGranted, NoInvite, Privileged
<1>19. TypeOK
    BY <1>8, <1>10, <1>11, <1>12, <1>13, TypeParts
<1> QED
    BY <1>10, <1>15, <1>16, <1>17, <1>18, <1>19 DEF IInv, RolesOK

LEMMA Stutters == IInv /\ UNCHANGED vars => IInv'
BY DEF IInv, TypeOK, RequestsOK, Carried, CodesOK, RolesOK, OwnersRecorded, OwnerRemains, HasOwner,
       AuthorityIsGranted, vars, rows, logins, history

LEMMA Inductive == IInv /\ [Next]_vars => IInv'
<1> SUFFICES ASSUME IInv, Next PROVE IInv'
    BY Stutters
<1>1. RowTypes' /\ LoginTypes' /\ CodesOK' /\ HistoryTypes' /\ owners \subseteq owners' /\ RolesOK'
    BY RowsMove, CodesMove, RolesMove
<1>2. CountTypes'
    BY CountsMove DEF IInv
<1>3. (req \in [Requests -> Request])' /\ RequestsOK'
    BY <1>1, <1>2, RequestsMove
<1>4. TypeOK'
    BY <1>1, <1>2, <1>3, TypePartsNext
<1> QED
    BY <1>1, <1>3, <1>4 DEF IInv

LEMMA Holds == Spec => []IInv
<1> QED
    BY Initially, Inductive, PTL DEF Spec

\* Every row refers to rows that exist, one user has an address, and a request
\* carries values of their kinds: the schema's constraints, in every state.
THEOREM TypeCorrect == Spec => []TypeOK
<1>1. IInv => TypeOK
    BY DEF IInv
<1> QED
    BY <1>1, Holds, PTL

\* change_org_member: concurrent members never remove the last owner.
THEOREM TeamKeepsOwner == Spec => []OwnerRemains
<1>1. IInv => OwnerRemains
    BY DEF IInv, RolesOK
<1> QED
    BY <1>1, Holds, PTL

\* ConsumeEmailLoginChallenge: the mark and the redemption are one statement.
THEOREM CodesAreSpentOnce == Spec => []CodeBuysOneLogin
<1>1. ASSUME IInv PROVE CodeBuysOneLogin
  <2> SUFFICES ASSUME NEW c \in Codes PROVE spent[c] <= 1
      BY DEF CodeBuysOneLogin
  <2> QED
      BY <1>1 DEF IInv, CodesOK
<1> QED
    BY <1>1, Holds, PTL

\* Privileged roles, invited or assigned, come from owners or from the platform.
THEOREM RolesAreGranted == Spec => []AuthorityIsGranted
<1>1. IInv => AuthorityIsGranted
    BY DEF IInv, RolesOK
<1> QED
    BY <1>1, Holds, PTL

====
