---------------------------- MODULE StaffProofs ----------------------------
(***************************************************************************)
(* What the rules about owners and revoked accounts achieve for any number *)
(* of administrators, roles and requests that overlap: an owner remains,   *)
(* the last one too unless two changes overtake each other; and that       *)
(* appeals are heard by another moderator, for any number of them.         *)
(***************************************************************************)
EXTENDS MCStaff, TaskProofs

RoleKinds == {"newRole", "role", "removal"}

(* What a request carries with it, by its kind.                            *)
Idles == [kind : {"idle"}]
CodeRequests == [kind : {"code"}, admin : Admins, fresh : BOOLEAN]
Logins == [kind : {"login", "wrong", "session"}, code : StaffCodes, fresh : BOOLEAN]
AccountWrites == [kind : {"create", "update", "status"}, admin : Admins, status : AdminStatus,
                  roles : SUBSET Roles, fresh : BOOLEAN]
RoleWrites == [kind : RoleKinds, role : Roles, state : RoleState,
               permissions : SUBSET Permissions, fresh : BOOLEAN]
RequestRow == Idles \cup CodeRequests \cup Logins \cup AccountWrites \cup RoleWrites

StaffShape ==
  /\ member \in [Admins -> [status : AdminStatus, roles : SUBSET Roles]]
  /\ role \in [Roles -> [state : RoleState, permissions : SUBSET Permissions]]
  /\ request \in [Handlers -> RequestRow]
  /\ raced \in BOOLEAN

(* What was checked when a request began.                                  *)
ChecksHold(r) ==
  /\ r.kind = "update" => OwnerProtected(r.admin, r.roles)
  /\ r.kind = "status" =>
       /\ r.status # "ACTIVE" => OwnerProtected(r.admin, {})
       /\ member[r.admin].status = "REVOKED" => r.status = "REVOKED"

(* It still holds as long as no change was committed since.                *)
FreshReadsHold ==
  \A q \in Handlers : request[q].kind \in {"update", "status"} /\ request[q].fresh
                        => ChecksHold(request[q])

(* The owner role is never written, and grants everything.                 *)
OwnerRoleStays ==
  /\ role[OwnerRole] = [state |-> "active", permissions |-> Permissions]
  /\ \A q \in Handlers : request[q].kind \in RoleKinds => request[q].role # OwnerRole

SomeOwner == \E a \in Admins : OnDuty(a) /\ OwnerRole \in member[a].roles

SInv ==
  /\ StaffShape
  /\ FreshReadsHold
  /\ OwnerRoleStays
  /\ raced \/ SomeOwner

LEMMA OwnerIsRole == OwnerRole \in Roles
  BY AdminAssumption

LEMMA RowKinds ==
  ASSUME NEW r \in RequestRow
  PROVE  /\ r.kind = "idle" => r \in Idles
         /\ r.kind = "code" => r \in CodeRequests
         /\ r.kind \in {"login", "wrong", "session"} => r \in Logins
         /\ r.kind \in {"create", "update", "status"} => r \in AccountWrites
         /\ r.kind \in RoleKinds => r \in RoleWrites
  BY DEF RequestRow, Idles, CodeRequests, Logins, AccountWrites, RoleWrites, RoleKinds

(* A request that a commit overtakes keeps its kind and is not fresh.      *)
LEMMA Overtaken ==
  ASSUME NEW r \in RequestRow, r.kind # "idle"
  PROVE  /\ [r EXCEPT !.fresh = FALSE] \in RequestRow
         /\ [r EXCEPT !.fresh = FALSE].fresh = FALSE
         /\ [r EXCEPT !.fresh = FALSE].kind = r.kind
         /\ r.kind \in RoleKinds => [r EXCEPT !.fresh = FALSE].role = r.role
  BY DEF RequestRow, Idles, CodeRequests, Logins, AccountWrites, RoleWrites, RoleKinds

LEMMA StaffInitially == AdminInit => SInv
<1> SUFFICES ASSUME AdminInit PROVE SInv
  OBVIOUS
<1>1. StaffShape
  BY AdminAssumption
  DEF AdminInit, StaffShape, AdminStatus, RoleState, NoRequest, RequestRow, Idles
<1>2. FreshReadsHold
  BY DEF AdminInit, FreshReadsHold, NoRequest
<1>3. OwnerRoleStays
  BY OwnerIsRole DEF AdminInit, OwnerRoleStays, NoRequest, RoleKinds
<1>4. SomeOwner
  BY AdminAssumption DEF AdminInit, SomeOwner, OnDuty
<1> QED BY <1>1, <1>2, <1>3, <1>4 DEF SInv

(* A request begins and brings what it has checked.                        *)
LEMMA Beginning ==
  ASSUME SInv, NEW q \in Handlers, NEW r \in RequestRow, Starts(q, r),
         UNCHANGED <<member, role, raced>>,
         r.kind \in {"update", "status"} => ChecksHold(r),
         r.kind \in RoleKinds => r.role # OwnerRole
  PROVE  SInv'
<1> USE DEF SInv
<1>1. \A p \in Handlers : request'[p] = IF p = q THEN r ELSE request[p]
  BY DEF Starts, StaffShape
<1>2. StaffShape'
  BY DEF Starts, StaffShape
<1>3. FreshReadsHold'
  BY <1>1 DEF FreshReadsHold, ChecksHold, OwnerProtected, OnDuty, ActiveRoles, OtherActiveOwners
<1>4. OwnerRoleStays'
  BY <1>1 DEF OwnerRoleStays
<1> QED BY <1>2, <1>3, <1>4 DEF SomeOwner, OnDuty

(* Nothing changes but a request that ends, or comes to its session.       *)
LEMMA Ending ==
  ASSUME SInv, NEW q \in Handlers,
         NEW r \in Idles \cup Logins, request' = [request EXCEPT ![q] = r],
         UNCHANGED <<member, role>>, raced' \in BOOLEAN, raced => raced'
  PROVE  SInv'
<1> USE DEF SInv
<1>1. r \in RequestRow /\ r.kind \notin {"update", "status"} \cup RoleKinds
  BY DEF RequestRow, Idles, Logins, RoleKinds
<1>2. \A p \in Handlers : request'[p] = IF p = q THEN r ELSE request[p]
  BY DEF StaffShape
<1>3. StaffShape'
  BY <1>1 DEF StaffShape
<1>4. FreshReadsHold'
  BY <1>1, <1>2 DEF FreshReadsHold, ChecksHold, OwnerProtected, OnDuty, ActiveRoles, OtherActiveOwners
<1>5. OwnerRoleStays'
  BY <1>1, <1>2 DEF OwnerRoleStays
<1> QED BY <1>3, <1>4, <1>5 DEF SomeOwner, OnDuty

LEMMA NothingHappens ==
  ASSUME SInv, UNCHANGED <<member, role, request, raced>>
  PROVE  SInv'
  BY DEF SInv, StaffShape, FreshReadsHold, ChecksHold, OwnerProtected, OnDuty, ActiveRoles,
         OtherActiveOwners, OwnerRoleStays, SomeOwner

(* A commit leaves no request fresh.                                       *)
LEMMA Committing ==
  ASSUME SInv, NEW q \in Handlers, Commits(q)
  PROVE  /\ request' \in [Handlers -> RequestRow]
         /\ raced' \in BOOLEAN
         /\ FreshReadsHold'
         /\ \A p \in Handlers : request'[p].kind \in RoleKinds => request'[p].role # OwnerRole
<1> USE DEF SInv
<1>1. \A p \in Handlers : /\ request'[p] \in RequestRow
                          /\ request'[p].kind = "idle" \/ request'[p].fresh = FALSE
                          /\ request'[p].kind \in RoleKinds => request'[p].role # OwnerRole
  <2> SUFFICES ASSUME NEW p \in Handlers
               PROVE  /\ request'[p] \in RequestRow
                      /\ request'[p].kind = "idle" \/ request'[p].fresh = FALSE
                      /\ request'[p].kind \in RoleKinds => request'[p].role # OwnerRole
    OBVIOUS
  <2>1. CASE p = q \/ request[p].kind = "idle"
    <3>1. request'[p] = NoRequest
      BY <2>1 DEF Commits
    <3> QED BY <3>1 DEF NoRequest, RequestRow, Idles, RoleKinds
  <2>2. CASE ~(p = q \/ request[p].kind = "idle")
    <3>1. request'[p] = [request[p] EXCEPT !.fresh = FALSE]
      BY <2>2 DEF Commits
    <3> QED BY <2>2, <3>1, Overtaken DEF StaffShape, OwnerRoleStays
  <2> QED BY <2>1, <2>2
<1>2. request' \in [Handlers -> RequestRow]
  BY <1>1 DEF Commits
<1>3. raced' \in BOOLEAN
  BY DEF Commits
<1>4. FreshReadsHold'
  BY <1>1 DEF FreshReadsHold
<1> QED BY <1>1, <1>2, <1>3, <1>4

(* Codes and logins leave accounts and roles alone.                        *)
LEMMA LoginsKeep ==
  ASSUME SInv, NEW q \in Handlers, LoginStep(q)
  PROVE  SInv'
<1> USE DEF SInv
<1>1. ASSUME NEW a \in Admins, AsksForCode(q, a)
      PROVE  SInv'
  <2>1. [kind |-> "code", admin |-> a, fresh |-> TRUE] \in RequestRow
    BY DEF RequestRow, CodeRequests
  <2> QED BY <1>1, <2>1, Beginning DEF AsksForCode, RoleKinds
<1>2. ASSUME NEW c \in StaffCodes, CreateChallenge(q, c)
      PROVE  SInv'
  BY <1>2, Ending DEF CreateChallenge, Gives, NoRequest, Idles, StaffShape
<1>3. ASSUME NEW c \in StaffCodes, NEW right \in BOOLEAN, LoginReads(q, c, right)
      PROVE  SInv'
  <2> DEFINE r == [kind |-> IF right THEN "login" ELSE "wrong", code |-> c, fresh |-> TRUE]
  <2>1. r \in RequestRow /\ r.kind \notin {"update", "status"} \cup RoleKinds
    BY DEF RequestRow, Logins, RoleKinds
  <2>2. Starts(q, r) /\ UNCHANGED <<member, role, raced>>
    BY <1>3 DEF LoginReads
  <2> HIDE DEF r
  <2> QED BY <2>1, <2>2, Beginning
<1>4. CASE RecordFailedAttempt(q)
  BY <1>4, Ending DEF RecordFailedAttempt, Gives, NoRequest, Idles, StaffShape
<1>5. CASE ConsumeChallenge(q)
  <2>1. UNCHANGED <<member, role, raced>>
    BY <1>5 DEF ConsumeChallenge
  <2>2. \/ request' = [request EXCEPT ![q].kind = "session", ![q].fresh = TRUE]
        \/ Gives(q)
    BY <1>5 DEF ConsumeChallenge
  <2>3. CASE Gives(q)
    BY <2>1, <2>3, Ending DEF Gives, NoRequest, Idles, StaffShape
  <2>4. CASE request' = [request EXCEPT ![q].kind = "session", ![q].fresh = TRUE]
    <3> DEFINE r == [request[q] EXCEPT !.kind = "session", !.fresh = TRUE]
    <3>1. request[q] \in Logins
      BY <1>5, RowKinds DEF ConsumeChallenge, StaffShape
    <3>2. r \in Logins
      BY <3>1 DEF Logins
    <3>3. request' = [request EXCEPT ![q] = r]
      BY <2>4 DEF StaffShape
    <3> HIDE DEF r
    <3> QED BY <2>1, <3>2, <3>3, Ending DEF StaffShape
  <2> QED BY <2>2, <2>3, <2>4
<1>6. CASE CreateSession(q)
  BY <1>6, Ending DEF CreateSession, Gives, NoRequest, Idles, StaffShape
<1> QED BY <1>1, <1>2, <1>3, <1>4, <1>5, <1>6 DEF LoginStep

(* Handlers that change accounts begin with their checks.                  *)
LEMMA AccountRequestsChecked ==
  ASSUME SInv, NEW q \in Handlers, NEW actor \in Admins, AccountRequest(q, actor)
  PROVE  SInv'
<1> USE DEF SInv
<1>w. ASSUME NEW kind \in {"create", "update", "status"}, NEW b \in Admins,
             NEW st \in AdminStatus, NEW roles \in SUBSET Roles,
             Writes(q, kind, b, st, roles), UNCHANGED <<member, role, raced>>,
             kind = "update" => OwnerProtected(b, roles),
             kind = "status" => /\ st # "ACTIVE" => OwnerProtected(b, {})
                                /\ member[b].status = "REVOKED" => st = "REVOKED"
      PROVE  SInv'
  <2> DEFINE r == [kind |-> kind, admin |-> b, status |-> st, roles |-> roles, fresh |-> TRUE]
  <2>1. r \in RequestRow /\ r.kind \notin RoleKinds
    BY DEF RequestRow, AccountWrites, RoleKinds
  <2>2. ChecksHold(r)
    BY <1>w DEF ChecksHold
  <2>3. Starts(q, r)
    BY <1>w DEF Writes
  <2> HIDE DEF r
  <2> QED BY <1>w, <2>1, <2>2, <2>3, Beginning
<1>1. ASSUME NEW b \in Admins, NEW rs \in SUBSET Roles, ReadForCreate(q, actor, b, rs)
      PROVE  SInv'
  BY <1>1, <1>w DEF ReadForCreate, AdminStatus
<1>2. ASSUME NEW b \in Admins, NEW rs \in SUBSET Roles, ReadForUpdate(q, actor, b, rs)
      PROVE  SInv'
  BY <1>2, <1>w DEF ReadForUpdate, AdminStatus
<1>3. ASSUME NEW b \in Admins, NEW s \in {"ACTIVE", "SUSPENDED", "REVOKED"},
             ReadForStatus(q, actor, b, s)
      PROVE  SInv'
  BY <1>3, <1>w DEF ReadForStatus, AdminStatus
<1> QED BY <1>1, <1>2, <1>3 DEF AccountRequest

(* Handlers that change roles are never about the owner role.              *)
LEMMA RoleRequestsSpareOwner ==
  ASSUME SInv, NEW q \in Handlers, NEW actor \in Admins, RoleRequest(q, actor)
  PROVE  SInv'
<1> USE DEF SInv
<1>0. Grants \subseteq SUBSET Permissions
  BY AdminAssumption
<1>w. ASSUME NEW kind \in RoleKinds, NEW r \in Roles, NEW state \in RoleState,
             NEW permissions \in SUBSET Permissions, r # OwnerRole,
             WritesRole(q, kind, r, state, permissions), UNCHANGED <<member, role, raced>>
      PROVE  SInv'
  <2> DEFINE x == [kind |-> kind, role |-> r, state |-> state, permissions |-> permissions,
                   fresh |-> TRUE]
  <2>1. x \in RequestRow /\ x.kind \notin {"update", "status"} /\ x.role # OwnerRole
    BY <1>w DEF RequestRow, RoleWrites, RoleKinds
  <2>2. Starts(q, x)
    BY <1>w DEF WritesRole
  <2> HIDE DEF x
  <2> QED BY <1>w, <2>1, <2>2, Beginning
<1>1. ASSUME NEW r \in Roles, NEW ps \in Grants, ReadForNewRole(q, actor, r, ps)
      PROVE  SInv'
  <2>1. r # OwnerRole
    BY <1>1 DEF ReadForNewRole, OwnerRoleStays
  <2> QED BY <1>0, <1>1, <1>w, <2>1 DEF ReadForNewRole, RoleState, RoleKinds
<1>2. ASSUME NEW r \in Roles, NEW ps \in Grants, NEW s \in {"active", "inactive"},
             ReadForRole(q, actor, r, s, ps)
      PROVE  SInv'
  BY <1>0, <1>2, <1>w DEF ReadForRole, RoleOpen, RoleState, RoleKinds
<1>3. ASSUME NEW r \in Roles, ReadForRemoval(q, actor, r)
      PROVE  SInv'
  BY <1>3, <1>w DEF ReadForRemoval, RoleOpen, RoleState, RoleKinds
<1> QED BY <1>1, <1>2, <1>3 DEF RoleRequest

-----------------------------------------------------------------------------
(* Commits.                                                                *)

LEMMA CreateKeepsOwner ==
  ASSUME SInv, NEW q \in Handlers, CommitCreate(q)
  PROVE  SInv'
<1> USE DEF SInv
<1> DEFINE b == request[q].admin
<1>1. request[q] \in AccountWrites
  BY RowKinds DEF CommitCreate, StaffShape
<1>2. CASE Gives(q) /\ UNCHANGED <<member, raced>>
  BY <1>2, Ending DEF CommitCreate, Gives, NoRequest, Idles, StaffShape
<1>3. CASE /\ member[b].status = "NONE"
           /\ member' = [member EXCEPT ![b] = [status |-> "INVITED", roles |-> request[q].roles]]
           /\ Commits(q)
  <2>1. StaffShape'
    BY <1>1, <1>3, Committing DEF CommitCreate, StaffShape, AccountWrites, AdminStatus
  <2>2. SomeOwner => SomeOwner'
    BY <1>1, <1>3 DEF SomeOwner, OnDuty, StaffShape, AccountWrites
  <2>3. raced => raced'
    BY <1>3 DEF Commits
  <2>4. OwnerRoleStays'
    BY <1>3, Committing DEF CommitCreate, OwnerRoleStays
  <2> QED BY <1>3, <2>1, <2>2, <2>3, <2>4, Committing
<1> QED BY <1>2, <1>3 DEF CommitCreate

LEMMA UpdateKeepsOwner ==
  ASSUME SInv, NEW q \in Handlers, CommitUpdate(q)
  PROVE  SInv'
<1> USE DEF SInv
<1> DEFINE b == request[q].admin
<1>1. request[q] \in AccountWrites
  BY RowKinds DEF CommitUpdate, StaffShape
<1>2. CASE Gives(q) /\ UNCHANGED <<member, raced>>
  BY <1>2, Ending DEF CommitUpdate, Gives, NoRequest, Idles, StaffShape
<1>3. CASE /\ member' = [member EXCEPT ![b].roles = request[q].roles]
           /\ Commits(q)
  <2>1. StaffShape'
    BY <1>1, <1>3, Committing DEF CommitUpdate, StaffShape, AccountWrites
  <2>2. \A a \in Admins : /\ OnDuty(a)' = OnDuty(a)
                          /\ a # b => member'[a] = member[a]
                          /\ a = b => member'[a].roles = request[q].roles
    BY <1>1, <1>3 DEF OnDuty, StaffShape, AccountWrites
  <2>3. ASSUME ~raced' PROVE SomeOwner'
    <3>1. ~raced /\ request[q].fresh
      BY <1>3, <2>3 DEF Commits
    <3>2. OwnerProtected(b, request[q].roles)
      BY <3>1 DEF CommitUpdate, FreshReadsHold, ChecksHold
    <3>3. PICK a \in Admins : OnDuty(a) /\ OwnerRole \in member[a].roles
      BY <3>1 DEF SomeOwner
    <3>4. CASE a # b
      BY <2>2, <3>3, <3>4 DEF SomeOwner
    <3>5. CASE a = b
      <4>1. OwnerRole \in request[q].roles \/ OtherActiveOwners(b) # {}
        BY <3>2, <3>3, <3>5 DEF OwnerProtected
      <4>2. CASE OwnerRole \in request[q].roles
        BY <2>2, <3>3, <3>5, <4>2 DEF SomeOwner
      <4>3. CASE OtherActiveOwners(b) # {}
        BY <2>2, <4>3 DEF SomeOwner, OtherActiveOwners
      <4> QED BY <4>1, <4>2, <4>3
    <3> QED BY <3>4, <3>5
  <2>4. OwnerRoleStays'
    BY <1>3, Committing DEF CommitUpdate, OwnerRoleStays
  <2> QED BY <1>3, <2>1, <2>3, <2>4, Committing
<1> QED BY <1>2, <1>3 DEF CommitUpdate

LEMMA StatusKeepsOwner ==
  ASSUME SInv, NEW q \in Handlers, CommitStatus(q)
  PROVE  SInv'
<1> USE DEF SInv
<1> DEFINE b == request[q].admin
<1>1. request[q] \in AccountWrites
  BY RowKinds DEF CommitStatus, StaffShape
<1>2. Commits(q) /\ member' = [member EXCEPT ![b].status = request[q].status]
  BY DEF CommitStatus
<1>3. StaffShape'
  BY <1>1, <1>2, Committing DEF CommitStatus, StaffShape, AccountWrites
<1>4. \A a \in Admins : /\ member'[a].roles = member[a].roles
                        /\ a # b => member'[a] = member[a]
                        /\ a = b => member'[a].status = request[q].status
  BY <1>1, <1>2 DEF StaffShape, AccountWrites
<1>5. ASSUME ~raced' PROVE SomeOwner'
  <2>1. ~raced /\ request[q].fresh
    BY <1>2, <1>5 DEF Commits
  <2>2. request[q].status # "ACTIVE" => OwnerProtected(b, {})
    BY <2>1 DEF CommitStatus, FreshReadsHold, ChecksHold
  <2>3. PICK a \in Admins : OnDuty(a) /\ OwnerRole \in member[a].roles
    BY <2>1 DEF SomeOwner
  <2>4. CASE a # b \/ request[q].status = "ACTIVE"
    BY <1>4, <2>3, <2>4 DEF SomeOwner, OnDuty
  <2>5. CASE a = b /\ request[q].status # "ACTIVE"
    <3>1. OtherActiveOwners(b) # {}
      BY <2>2, <2>3, <2>5 DEF OwnerProtected
    <3> QED BY <1>4, <3>1 DEF SomeOwner, OtherActiveOwners, OnDuty
  <2> QED BY <2>4, <2>5
<1>6. OwnerRoleStays'
  BY <1>2, Committing DEF CommitStatus, OwnerRoleStays
<1> QED BY <1>2, <1>3, <1>5, <1>6, Committing

LEMMA RoleKeepsOwner ==
  ASSUME SInv, NEW q \in Handlers, CommitRole(q)
  PROVE  SInv'
<1> USE DEF SInv
<1> DEFINE r == request[q].role
<1>1. request[q] \in RoleWrites /\ r # OwnerRole
  BY RowKinds DEF CommitRole, StaffShape, RoleKinds, OwnerRoleStays
<1>2. CASE Gives(q) /\ UNCHANGED <<role, raced>>
  BY <1>2, Ending DEF CommitRole, Gives, NoRequest, Idles, StaffShape
<1>3. CASE /\ role' = [role EXCEPT ![r] = [state |-> request[q].state,
                                           permissions |-> request[q].permissions]]
           /\ Commits(q)
  <2>1. StaffShape'
    BY <1>1, <1>3, Committing DEF CommitRole, StaffShape, RoleWrites
  <2>2. OwnerRoleStays'
    BY <1>1, <1>3, OwnerIsRole, Committing DEF OwnerRoleStays, StaffShape
  <2>3. (raced \/ SomeOwner) => (raced' \/ SomeOwner')
    BY <1>3 DEF CommitRole, SomeOwner, OnDuty, Commits
  <2> QED BY <1>3, <2>1, <2>2, <2>3, Committing
<1> QED BY <1>2, <1>3 DEF CommitRole

-----------------------------------------------------------------------------
LEMMA StaffInductive == SInv /\ [AdminNext]_avars => SInv'
<1> SUFFICES ASSUME SInv, [AdminNext]_avars
             PROVE  SInv'
  OBVIOUS
<1>1. ASSUME NEW q \in Handlers, LoginStep(q)
      PROVE  SInv'
  BY <1>1, LoginsKeep
<1>2. ASSUME NEW q \in Handlers, NEW actor \in Admins,
             AccountRequest(q, actor) \/ RoleRequest(q, actor)
      PROVE  SInv'
  BY <1>2, AccountRequestsChecked, RoleRequestsSpareOwner
<1>3. ASSUME NEW q \in Handlers,
             CommitCreate(q) \/ CommitUpdate(q) \/ CommitStatus(q) \/ CommitRole(q)
      PROVE  SInv'
  BY <1>3, CreateKeepsOwner, UpdateKeepsOwner, StatusKeepsOwner, RoleKeepsOwner
<1>4. CASE \/ \E actor, b \in Admins : RevokeSessions(actor, b)
           \/ \E s \in seats : SessionEnds(s)
           \/ \E c \in StaffCodes : CodeExpires(c)
           \/ UNCHANGED avars
  BY <1>4, NothingHappens DEF RevokeSessions, SessionEnds, CodeExpires, avars
<1> QED BY <1>1, <1>2, <1>3, <1>4 DEF AdminNext

(* An active owner's permissions are all there are.                        *)
LEMMA OwnersMayDoAll ==
  ASSUME SInv, NEW a \in Admins, OwnerRole \in member[a].roles
  PROVE  MayDo(a) = Permissions
<1>1. \A r \in member[a].roles \cap ActiveRoles : role[r].permissions \subseteq Permissions
  BY DEF SInv, StaffShape, ActiveRoles
<1>2. OwnerRole \in member[a].roles \cap ActiveRoles /\ role[OwnerRole].permissions = Permissions
  BY OwnerIsRole DEF SInv, OwnerRoleStays, ActiveRoles
<1> QED BY <1>1, <1>2 DEF MayDo

(* As long as no change was committed on checks another change had         *)
(* overtaken, an ACTIVE account holds the owner role and may do everything *)
(* (protectFinalOwner, protectRole), for any number of requests.           *)
THEOREM AnOwnerRemains == AdminSpec => []OwnerRemains
<1>1. SInv => OwnerRemains
  BY OwnersMayDoAll DEF SInv, SomeOwner, OwnerRemains
<1> QED BY StaffInitially, StaffInductive, <1>1, PTL DEF AdminSpec

(* Requests that never overlap.                                            *)

AtWork(q) == request[q].kind # "idle"

OneAtATime == \A p, q \in Handlers : AtWork(p) /\ AtWork(q) => p = q

(* Nothing was overtaken, and what is at work is fresh.                    *)
NothingOvertaken ==
  ~raced /\ \A q \in Handlers : AtWork(q) => request[q].fresh

LEMMA FreshBegins ==
  ASSUME StaffShape, NothingOvertaken, NEW q \in Handlers,
         NEW r, AtWork(q) \/ request[q] = NoRequest, r.kind = "idle" \/ r.fresh,
         request' = [request EXCEPT ![q] = r], raced' = raced
  PROVE  NothingOvertaken'
<1>1. \A p \in Handlers : request'[p] = IF p = q THEN r ELSE request[p]
  BY DEF StaffShape
<1> QED BY <1>1 DEF NothingOvertaken, AtWork

LEMMA GivingKeepsFresh ==
  ASSUME StaffShape, NothingOvertaken, NEW q \in Handlers, Gives(q),
         raced' = raced \/ (AtWork(q) /\ raced' = (raced \/ ~request[q].fresh))
  PROVE  NothingOvertaken'
<1>1. \A p \in Handlers : request'[p] = IF p = q THEN NoRequest ELSE request[p]
  BY DEF Gives, StaffShape
<1>2. ~raced'
  BY DEF NothingOvertaken
<1> QED BY <1>1, <1>2 DEF NothingOvertaken, AtWork, NoRequest

(* Nobody else is at work who could be overtaken by a commit.              *)
LEMMA CommitsAlone ==
  ASSUME StaffShape, NothingOvertaken, OneAtATime, NEW q \in Handlers, AtWork(q), Commits(q)
  PROVE  NothingOvertaken'
<1>1. ~raced'
  BY DEF NothingOvertaken, Commits
<1>2. \A p \in Handlers : p = q \/ request[p].kind = "idle"
  BY DEF OneAtATime, AtWork
<1>3. \A p \in Handlers : request'[p] = NoRequest
  BY <1>2 DEF Commits
<1> QED BY <1>1, <1>3 DEF NothingOvertaken, AtWork, NoRequest

LEMMA StaysFresh ==
  ASSUME StaffShape, NothingOvertaken, OneAtATime, [AdminNext]_avars
  PROVE  NothingOvertaken'
<1>s. ASSUME NEW q \in Handlers, NEW r, r.fresh = TRUE, Starts(q, r), raced' = raced
      PROVE  NothingOvertaken'
  BY <1>s, FreshBegins DEF Starts
<1>1. ASSUME NEW q \in Handlers, LoginStep(q) PROVE NothingOvertaken'
  <2>1. ASSUME NEW a \in Admins, AsksForCode(q, a) PROVE NothingOvertaken'
    <3>1. [kind |-> "code", admin |-> a, fresh |-> TRUE].fresh = TRUE
      OBVIOUS
    <3> QED BY <2>1, <3>1, <1>s DEF AsksForCode
  <2>2. ASSUME NEW c \in StaffCodes, CreateChallenge(q, c) PROVE NothingOvertaken'
    BY <2>2, GivingKeepsFresh DEF CreateChallenge
  <2>3. ASSUME NEW c \in StaffCodes, NEW right \in BOOLEAN, LoginReads(q, c, right)
        PROVE  NothingOvertaken'
    <3> DEFINE r == [kind |-> IF right THEN "login" ELSE "wrong", code |-> c, fresh |-> TRUE]
    <3>1. r.fresh = TRUE
      OBVIOUS
    <3>2. Starts(q, r) /\ raced' = raced
      BY <2>3 DEF LoginReads
    <3> HIDE DEF r
    <3> QED BY <3>1, <3>2, <1>s
  <2>4. CASE RecordFailedAttempt(q)
    BY <2>4, GivingKeepsFresh DEF RecordFailedAttempt
  <2>5. CASE ConsumeChallenge(q)
    <3>1. raced' = raced /\ request[q].kind = "login"
      BY <2>5 DEF ConsumeChallenge
    <3>2. \/ request' = [request EXCEPT ![q].kind = "session", ![q].fresh = TRUE]
          \/ Gives(q)
      BY <2>5 DEF ConsumeChallenge
    <3>3. CASE Gives(q)
      BY <3>1, <3>3, GivingKeepsFresh
    <3>4. CASE request' = [request EXCEPT ![q].kind = "session", ![q].fresh = TRUE]
      <4> DEFINE r == [request[q] EXCEPT !.kind = "session", !.fresh = TRUE]
      <4>1. request[q] \in Logins
        BY <3>1, RowKinds DEF StaffShape
      <4>2. r.fresh = TRUE
        BY <4>1 DEF Logins
      <4>3. request' = [request EXCEPT ![q] = r]
        BY <3>4 DEF StaffShape
      <4> HIDE DEF r
      <4> QED BY <3>1, <4>2, <4>3, FreshBegins DEF AtWork
    <3> QED BY <3>2, <3>3, <3>4
  <2>6. CASE CreateSession(q)
    BY <2>6, GivingKeepsFresh DEF CreateSession, AtWork
  <2> QED BY <1>1, <2>1, <2>2, <2>3, <2>4, <2>5, <2>6 DEF LoginStep
<1>2. ASSUME NEW q \in Handlers, NEW actor \in Admins, AccountRequest(q, actor)
      PROVE  NothingOvertaken'
  <2>1. ASSUME NEW kind, NEW b, NEW st, NEW roles, Writes(q, kind, b, st, roles), raced' = raced
        PROVE  NothingOvertaken'
    <3>1. [kind |-> kind, admin |-> b, status |-> st, roles |-> roles, fresh |-> TRUE].fresh = TRUE
      OBVIOUS
    <3> QED BY <2>1, <3>1, <1>s DEF Writes
  <2> QED BY <1>2, <2>1 DEF AccountRequest, ReadForCreate, ReadForUpdate, ReadForStatus
<1>3. ASSUME NEW q \in Handlers, NEW actor \in Admins, RoleRequest(q, actor)
      PROVE  NothingOvertaken'
  <2>1. ASSUME NEW kind, NEW o, NEW state, NEW permissions,
               WritesRole(q, kind, o, state, permissions), raced' = raced
        PROVE  NothingOvertaken'
    <3>1. [kind |-> kind, role |-> o, state |-> state, permissions |-> permissions,
           fresh |-> TRUE].fresh = TRUE
      OBVIOUS
    <3> QED BY <2>1, <3>1, <1>s DEF WritesRole
  <2> QED BY <1>3, <2>1 DEF RoleRequest, ReadForNewRole, ReadForRole, ReadForRemoval
<1>4. ASSUME NEW q \in Handlers,
             CommitCreate(q) \/ CommitUpdate(q) \/ CommitStatus(q) \/ CommitRole(q)
      PROVE  NothingOvertaken'
  <2>1. AtWork(q) /\ (Commits(q) \/ (Gives(q) /\ raced' = raced))
    BY <1>4 DEF CommitCreate, CommitUpdate, CommitStatus, CommitRole, AtWork
  <2> QED BY <2>1, CommitsAlone, GivingKeepsFresh
<1>5. CASE \/ \E actor, b \in Admins : RevokeSessions(actor, b)
           \/ \E s \in seats : SessionEnds(s)
           \/ \E c \in StaffCodes : CodeExpires(c)
           \/ UNCHANGED avars
  BY <1>5 DEF RevokeSessions, SessionEnds, CodeExpires, avars, NothingOvertaken, AtWork
<1> QED BY <1>1, <1>2, <1>3, <1>4, <1>5 DEF AdminNext

(* The promise of the documentation, that the last owner can neither be    *)
(* disabled nor removed, is kept if no two requests of the staff are ever  *)
(* at work at a time: the reads that protectFinalOwner and protectRole     *)
(* decide on are overtaken by nothing else.                                *)
THEOREM LastOwnerStays ==
  AdminSpec /\ []OneAtATime => [](OwnerAlwaysRemains /\ ~raced)
<1>1. AdminInit => SInv /\ NothingOvertaken
  BY StaffInitially DEF AdminInit, NothingOvertaken, AtWork, NoRequest
<1>2. SInv /\ NothingOvertaken /\ OneAtATime /\ [AdminNext]_avars => (SInv /\ NothingOvertaken)'
  BY StaffInductive, StaysFresh DEF SInv
<1>3. SInv /\ NothingOvertaken => OwnerAlwaysRemains /\ ~raced
  BY DEF SInv, NothingOvertaken, SomeOwner, OwnerAlwaysRemains
<1> QED BY <1>1, <1>2, <1>3, PTL DEF AdminSpec

(* What the invariant makes of one step.                                   *)
RevokedAct ==
  \A a \in Admins : member[a].status = "REVOKED" => member'[a].status = "REVOKED" \/ raced'

LEMMA RevokedStep == SInv /\ [AdminNext]_avars => [RevokedAct]_avars
<1> SUFFICES ASSUME SInv, AdminNext
             PROVE  RevokedAct
  OBVIOUS
<1> USE DEF SInv
<1>1. CASE UNCHANGED member
  BY <1>1 DEF RevokedAct
<1>2. ASSUME NEW q \in Handlers, CommitCreate(q), ~ UNCHANGED member
      PROVE  RevokedAct
  BY <1>2 DEF CommitCreate, RevokedAct, StaffShape
<1>3. ASSUME NEW q \in Handlers, CommitUpdate(q), ~ UNCHANGED member
      PROVE  RevokedAct
  BY <1>3 DEF CommitUpdate, RevokedAct, StaffShape
<1>4. ASSUME NEW q \in Handlers, CommitStatus(q)
      PROVE  RevokedAct
  <2>1. request[q].fresh => ChecksHold(request[q])
    BY <1>4 DEF CommitStatus, FreshReadsHold
  <2>2. \A a \in Admins : member'[a].status = IF a = request[q].admin THEN request[q].status
                                                                      ELSE member[a].status
    BY <1>4 DEF CommitStatus, StaffShape
  <2>3. raced' \/ request[q].fresh
    BY <1>4 DEF CommitStatus, Commits
  <2> QED BY <1>4, <2>1, <2>2, <2>3 DEF CommitStatus, ChecksHold, RevokedAct
<1>5. \/ UNCHANGED member
      \/ \E q \in Handlers : CommitCreate(q) \/ CommitUpdate(q) \/ CommitStatus(q)
  <2>1. ASSUME NEW q \in Handlers, LoginStep(q) \/ CommitRole(q)
        PROVE  UNCHANGED member
    BY <2>1 DEF LoginStep, AsksForCode, CreateChallenge, LoginReads, RecordFailedAttempt,
                ConsumeChallenge, CreateSession, CommitRole
  <2>2. ASSUME NEW q \in Handlers, NEW actor \in Admins,
               AccountRequest(q, actor) \/ RoleRequest(q, actor)
        PROVE  UNCHANGED member
    BY <2>2 DEF AccountRequest, ReadForCreate, ReadForUpdate, ReadForStatus,
                RoleRequest, ReadForNewRole, ReadForRole, ReadForRemoval
  <2>3. ASSUME \/ \E actor, b \in Admins : RevokeSessions(actor, b)
               \/ \E s \in seats : SessionEnds(s)
               \/ \E c \in StaffCodes : CodeExpires(c)
        PROVE  UNCHANGED member
    BY <2>3 DEF RevokeSessions, SessionEnds, CodeExpires
  <2> QED BY <2>1, <2>2, <2>3 DEF AdminNext
<1> QED BY <1>1, <1>2, <1>3, <1>4, <1>5

(* A revoked account is never anything else again, unless the change of    *)
(* its status had been decided before it was revoked.                      *)
THEOREM RevocationLasts == AdminSpec => RevokedForGood
<1>1. AdminSpec => []SInv
  BY StaffInitially, StaffInductive, PTL DEF AdminSpec
<1>2. SInv /\ [AdminNext]_avars => [RevokedAct]_avars
  BY RevokedStep
<1>3. AdminSpec => [][RevokedAct]_avars
  BY <1>1, <1>2, PTL DEF AdminSpec
<1> QED BY <1>3 DEF RevokedForGood, RevokedAct

-----------------------------------------------------------------------------
(* Codes and sessions, accounts and roles, sessions and accounts.          *)

CodeShape ==
  /\ staffCode \in [StaffCodes -> [state : CodeState, admin : Admins, attempts : Nat]]
  /\ seats \subseteq [admin : Admins, code : StaffCodes, by : Handlers]

(* A code is used when its session is about to be written, once.           *)
UsedOnce ==
  /\ CodeUsedOnce
  /\ \A s \in seats : staffCode[s.code].state = "used"
  /\ \A q \in Handlers : request[q].kind = "session" =>
       /\ staffCode[request[q].code].state = "used"
       /\ \A s \in seats : s.code # request[q].code
       /\ \A p \in Handlers \ {q} :
            request[p].kind = "session" => request[p].code # request[q].code

(* Roles that are held exist; what was checked of roles holds while fresh. *)
RolesHeld ==
  /\ HeldRolesExist
  /\ \A q \in Handlers :
       /\ request[q].kind = "newRole" => request[q].state = "active"
       /\ request[q].kind = "role" => request[q].state # "absent"
       /\ request[q].kind \in {"create", "update"} /\ request[q].fresh
            => request[q].roles \subseteq ActiveRoles
       /\ request[q].kind = "role" /\ request[q].fresh /\ request[q].state = "inactive"
            => Holders(request[q].role) = {}

(* A session about to be written is of an account that was ACTIVE.         *)
SeatsOnDuty ==
  /\ SessionsOfActive
  /\ \A q \in Handlers : request[q].kind = "session" /\ request[q].fresh
                           => OnDuty(staffCode[request[q].code].admin)

OInv == SInv /\ CodeShape /\ UsedOnce /\ RolesHeld /\ SeatsOnDuty

(* Handlers that go on as they were, or overtaken, or end.                 *)
Fades ==
  \A p \in Handlers :
    \/ request'[p].kind = "idle"
    \/ /\ request'[p].kind = request[p].kind
       /\ request'[p].fresh => request[p].fresh
       /\ request[p].kind \in {"session", "wrong"} => request'[p].code = request[p].code
       /\ request[p].kind \in {"create", "update"} => request'[p].roles = request[p].roles
       /\ request[p].kind \in RoleKinds => /\ request'[p].role = request[p].role
                                           /\ request'[p].state = request[p].state

NoneFresh == \A p \in Handlers : request'[p].kind = "idle" \/ ~request'[p].fresh

LEMMA GivingFades ==
  ASSUME StaffShape, NEW q \in Handlers, Gives(q)
  PROVE  Fades
  BY DEF StaffShape, Gives, NoRequest, Fades

LEMMA CommittingFades ==
  ASSUME StaffShape, NEW q \in Handlers, Commits(q)
  PROVE  Fades /\ NoneFresh
<1> SUFFICES ASSUME NEW p \in Handlers,
                    request'[p].kind # "idle"
             PROVE  /\ request'[p].kind = request[p].kind
                    /\ ~request'[p].fresh
                    /\ request[p].kind \in {"session", "wrong"} =>
                         request'[p].code = request[p].code
                    /\ request[p].kind \in {"create", "update"} =>
                         request'[p].roles = request[p].roles
                    /\ request[p].kind \in RoleKinds => /\ request'[p].role = request[p].role
                                                        /\ request'[p].state = request[p].state
  BY DEF Fades, NoneFresh
<1>1. request[p].kind # "idle" /\ request'[p] = [request[p] EXCEPT !.fresh = FALSE]
  BY DEF Commits, NoRequest
<1>2. request[p] \in RequestRow
  BY DEF StaffShape
<1> QED BY <1>1, <1>2
        DEF RequestRow, Idles, CodeRequests, Logins, AccountWrites, RoleWrites, RoleKinds

LEMMA UsedStays ==
  ASSUME OInv, seats' \subseteq seats,
         \A c \in StaffCodes : staffCode[c].state = "used" => staffCode'[c].state = "used",
         \A q \in Handlers : request'[q].kind = "session" =>
           request[q].kind = "session" /\ request'[q].code = request[q].code
  PROVE  UsedOnce'
<1>1. \A q \in Handlers : request[q].kind = "session" => request[q].code \in StaffCodes
  BY RowKinds DEF OInv, SInv, StaffShape, Logins
<1>2. \A s \in seats : s.code \in StaffCodes
  BY DEF OInv, CodeShape
<1> QED BY <1>1, <1>2 DEF OInv, UsedOnce, CodeUsedOnce

LEMMA RolesStay ==
  ASSUME OInv, Fades, UNCHANGED <<member, role>>, raced => raced'
  PROVE  RolesHeld'
<1>1. HeldRolesExist'
  BY DEF OInv, RolesHeld, HeldRolesExist, ActiveRoles
<1>2. ActiveRoles' = ActiveRoles /\ \A r : Holders(r)' = Holders(r)
  BY DEF ActiveRoles, Holders
<1> QED BY <1>1, <1>2 DEF OInv, RolesHeld, Fades, RoleKinds, ActiveRoles, Holders

LEMMA DutyStays ==
  ASSUME OInv, seats' \subseteq seats, UNCHANGED member, raced => raced',
         \A q \in Handlers : request'[q].kind = "session" /\ request'[q].fresh =>
           /\ request[q].kind = "session" /\ request[q].fresh
           /\ staffCode'[request'[q].code].admin = staffCode[request[q].code].admin
  PROVE  SeatsOnDuty'
  BY DEF OInv, SeatsOnDuty, SessionsOfActive, OnDuty

LEMMA OrderInitially == AdminInit => OInv
<1> SUFFICES ASSUME AdminInit PROVE OInv
  OBVIOUS
<1>1. CodeShape
  BY AdminAssumption DEF AdminInit, CodeShape, CodeState
<1>2. UsedOnce
  BY DEF AdminInit, UsedOnce, CodeUsedOnce, NoRequest
<1>3. RolesHeld
  BY OwnerIsRole DEF AdminInit, RolesHeld, HeldRolesExist, ActiveRoles, NoRequest
<1>4. SeatsOnDuty
  BY DEF AdminInit, SeatsOnDuty, SessionsOfActive, NoRequest
<1> QED BY <1>1, <1>2, <1>3, <1>4, StaffInitially DEF OInv

LEMMA OrderBegins ==
  ASSUME OInv, NEW q \in Handlers, NEW r \in RequestRow, Starts(q, r),
         UNCHANGED <<member, role, staffCode, seats, raced>>,
         r.kind # "session",
         r.kind = "newRole" => r.state = "active",
         r.kind = "role" => r.state # "absent",
         r.kind \in {"create", "update"} => r.roles \subseteq ActiveRoles,
         r.kind = "role" /\ r.state = "inactive" => Holders(r.role) = {}
  PROVE  CodeShape' /\ UsedOnce' /\ RolesHeld' /\ SeatsOnDuty'
<1>1. \A p \in Handlers : request'[p] = IF p = q THEN r ELSE request[p]
  BY DEF Starts, OInv, SInv, StaffShape
<1>2. CodeShape'
  BY DEF OInv, CodeShape
<1>3. UsedOnce'
  BY <1>1, UsedStays
<1>4. RolesHeld'
  BY <1>1 DEF OInv, RolesHeld, HeldRolesExist, ActiveRoles, Holders
<1>5. SeatsOnDuty'
  BY <1>1, DutyStays
<1> QED BY <1>2, <1>3, <1>4, <1>5

LEMMA OrderOfLogins ==
  ASSUME OInv, NEW q \in Handlers, LoginStep(q)
  PROVE  CodeShape' /\ UsedOnce' /\ RolesHeld' /\ SeatsOnDuty'
<1>s. StaffShape /\ CodeShape
  BY DEF OInv, SInv
<1>1. ASSUME NEW a \in Admins, AsksForCode(q, a)
      PROVE  CodeShape' /\ UsedOnce' /\ RolesHeld' /\ SeatsOnDuty'
  <2> DEFINE r == [kind |-> "code", admin |-> a, fresh |-> TRUE]
  <2>1. r \in RequestRow /\ r.kind = "code"
    BY DEF RequestRow, CodeRequests
  <2>2. Starts(q, r) /\ UNCHANGED <<member, role, staffCode, seats, raced>>
    BY <1>1 DEF AsksForCode
  <2> HIDE DEF r
  <2> QED BY <2>1, <2>2, OrderBegins
<1>2. ASSUME NEW c \in StaffCodes, NEW right \in BOOLEAN, LoginReads(q, c, right)
      PROVE  CodeShape' /\ UsedOnce' /\ RolesHeld' /\ SeatsOnDuty'
  <2> DEFINE r == [kind |-> IF right THEN "login" ELSE "wrong", code |-> c, fresh |-> TRUE]
  <2>1. r \in RequestRow /\ r.kind \in {"login", "wrong"}
    BY DEF RequestRow, Logins
  <2>2. Starts(q, r) /\ UNCHANGED <<member, role, staffCode, seats, raced>>
    BY <1>2 DEF LoginReads
  <2> HIDE DEF r
  <2> QED BY <2>1, <2>2, OrderBegins
<1>3. ASSUME NEW c \in StaffCodes, CreateChallenge(q, c)
      PROVE  CodeShape' /\ UsedOnce' /\ RolesHeld' /\ SeatsOnDuty'
  <2>1. Fades /\ UNCHANGED <<member, role, seats, raced>>
    BY <1>s, <1>3, GivingFades DEF CreateChallenge
  <2>2. request[q].admin \in Admins
    BY <1>3, <1>s, RowKinds DEF CreateChallenge, StaffShape, CodeRequests
  <2>3. /\ staffCode[c].state = "none"
        /\ staffCode' = [staffCode EXCEPT
             ![c] = [state |-> "open", admin |-> request[q].admin, attempts |-> 0]]
    BY <1>3 DEF CreateChallenge
  <2>4. CodeShape'
    BY <1>s, <2>1, <2>2, <2>3 DEF CodeShape, CodeState
  <2>5. \A d \in StaffCodes : staffCode[d].state = "used" => staffCode'[d] = staffCode[d]
    BY <1>s, <2>3 DEF CodeShape
  <2>6. UsedOnce'
    BY <2>1, <2>5, UsedStays DEF Fades
  <2>7. RolesHeld'
    BY <2>1, RolesStay
  <2>8. \A p \in Handlers : request[p].kind = "session" =>
          request[p].code \in StaffCodes /\ staffCode[request[p].code].state = "used"
    BY <1>s, RowKinds DEF OInv, UsedOnce, StaffShape, Logins
  <2>9. SeatsOnDuty'
    BY <2>1, <2>5, <2>8, DutyStays DEF Fades
  <2> QED BY <2>4, <2>6, <2>7, <2>9
<1>4. CASE RecordFailedAttempt(q)
  <2>1. Fades /\ UNCHANGED <<member, role, seats, raced>>
    BY <1>s, <1>4, GivingFades DEF RecordFailedAttempt
  <2>2. request[q].code \in StaffCodes
    BY <1>4, <1>s, RowKinds DEF RecordFailedAttempt, StaffShape, Logins
  <2>3. staffCode' = [staffCode EXCEPT ![request[q].code].attempts = @ + 1]
    BY <1>4 DEF RecordFailedAttempt
  <2>4. CodeShape'
    BY <1>s, <2>1, <2>2, <2>3 DEF CodeShape
  <2>5. \A d \in StaffCodes : /\ staffCode'[d].state = staffCode[d].state
                              /\ staffCode'[d].admin = staffCode[d].admin
    BY <1>s, <2>3 DEF CodeShape
  <2>6. UsedOnce'
    BY <2>1, <2>5, UsedStays DEF Fades
  <2>7. RolesHeld'
    BY <2>1, RolesStay
  <2>8. \A p \in Handlers : request[p].kind = "session" => request[p].code \in StaffCodes
    BY <1>s, RowKinds DEF StaffShape, Logins
  <2>9. SeatsOnDuty'
    BY <2>1, <2>5, <2>8, DutyStays DEF Fades
  <2> QED BY <2>4, <2>6, <2>7, <2>9
<1>5. CASE ConsumeChallenge(q) /\ Gives(q)
  <2>1. Fades /\ UNCHANGED <<member, role, seats, raced>>
    BY <1>s, <1>5, GivingFades DEF ConsumeChallenge
  <2>2. request[q].code \in StaffCodes
    BY <1>5, <1>s, RowKinds DEF ConsumeChallenge, StaffShape, Logins
  <2>3. staffCode' \in {staffCode, [staffCode EXCEPT ![request[q].code].state = "used"]}
    BY <1>5 DEF ConsumeChallenge
  <2>4. CodeShape'
    BY <1>s, <2>1, <2>2, <2>3 DEF CodeShape, CodeState
  <2>5. \A d \in StaffCodes : /\ staffCode'[d].state \in {staffCode[d].state, "used"}
                              /\ staffCode'[d].admin = staffCode[d].admin
    BY <1>s, <2>3 DEF CodeShape
  <2>6. UsedOnce'
    BY <2>1, <2>5, UsedStays DEF Fades
  <2>7. RolesHeld'
    BY <2>1, RolesStay
  <2>8. \A p \in Handlers : request[p].kind = "session" => request[p].code \in StaffCodes
    BY <1>s, RowKinds DEF StaffShape, Logins
  <2>9. SeatsOnDuty'
    BY <2>1, <2>5, <2>8, DutyStays DEF Fades
  <2> QED BY <2>4, <2>6, <2>7, <2>9
<1>6. CASE ConsumeChallenge(q) /\ ~Gives(q)
  <2> DEFINE c == request[q].code
  <2>1. c \in StaffCodes /\ request[q] \in Logins /\ request[q].kind = "login"
    BY <1>6, <1>s, RowKinds DEF ConsumeChallenge, StaffShape, Logins
  <2>2. /\ staffCode[c].state = "open" /\ OnDuty(staffCode[c].admin)
        /\ staffCode' = [staffCode EXCEPT ![c].state = "used"]
        /\ request' = [request EXCEPT ![q].kind = "session", ![q].fresh = TRUE]
        /\ UNCHANGED <<member, role, seats, raced>>
    BY <1>6 DEF ConsumeChallenge, Usable
  <2>k. UNCHANGED <<member, role, seats, raced>>
    BY <2>2
  <2>3. /\ \A p \in Handlers : p # q => request'[p] = request[p]
        /\ request'[q].kind = "session" /\ request'[q].code = c
    BY <1>s, <2>1, <2>2 DEF StaffShape, Logins
  <2>4. \A d \in StaffCodes : /\ staffCode'[d].state = IF d = c THEN "used" ELSE staffCode[d].state
                              /\ staffCode'[d].admin = staffCode[d].admin
    BY <1>s, <2>2 DEF CodeShape
  <2>5. CodeShape'
    BY <1>s, <2>2 DEF CodeShape, CodeState
  <2>6. \A p \in Handlers : request[p].kind = "session" =>
          request[p].code \in StaffCodes /\ request[p].code # c
    BY <1>s, <2>2, RowKinds DEF OInv, UsedOnce, StaffShape, Logins
  <2>7. \A s \in seats : s.code \in StaffCodes /\ s.code # c
    BY <1>s, <2>2 DEF OInv, UsedOnce, CodeShape
  <2>8. UsedOnce'
    <3>1. CodeUsedOnce'
      BY <2>2 DEF OInv, UsedOnce, CodeUsedOnce
    <3>2. \A s \in seats' : staffCode'[s.code].state = "used"
      BY <2>2, <2>4, <2>7 DEF OInv, UsedOnce
    <3>3. ASSUME NEW p \in Handlers, request'[p].kind = "session"
          PROVE  /\ staffCode'[request'[p].code].state = "used"
                 /\ \A s \in seats' : s.code # request'[p].code
                 /\ \A o \in Handlers \ {p} :
                      request'[o].kind = "session" => request'[o].code # request'[p].code
      <4>1. CASE p = q
        BY <2>k, <2>1, <2>3, <2>4, <2>6, <2>7, <4>1
      <4>2. CASE p # q
        <5>1. request'[p] = request[p] /\ request[p].kind = "session"
          BY <2>3, <3>3, <4>2
        <5>2. \A o \in Handlers \ {p} :
                request'[o].kind = "session" => request'[o].code # request'[p].code
          BY <2>3, <2>6, <5>1 DEF OInv, UsedOnce
        <5> QED BY <2>k, <2>4, <2>6, <5>1, <5>2 DEF OInv, UsedOnce
      <4> QED BY <4>1, <4>2
    <3> QED BY <3>1, <3>2, <3>3 DEF UsedOnce
  <2>9. RolesHeld'
    <3>1. HeldRolesExist'
      BY <2>2 DEF OInv, RolesHeld, HeldRolesExist, ActiveRoles
    <3>2. ActiveRoles' = ActiveRoles /\ \A r : Holders(r)' = Holders(r)
      BY <2>2 DEF ActiveRoles, Holders
    <3> QED BY <2>3, <3>1, <3>2 DEF OInv, RolesHeld
  <2>10. SeatsOnDuty'
    <3>1. SessionsOfActive'
      BY <2>2 DEF OInv, SeatsOnDuty, SessionsOfActive, OnDuty
    <3>2. ASSUME NEW p \in Handlers, request'[p].kind = "session", request'[p].fresh
          PROVE  OnDuty(staffCode[request[p].code].admin)'
      <4>1. CASE p = q
        BY <2>1, <2>2, <2>3, <2>4, <4>1 DEF OnDuty
      <4>2. CASE p # q
        <5>1. request'[p] = request[p]
          BY <2>3, <4>2
        <5> QED BY <2>k, <2>4, <2>6, <3>2, <5>1 DEF OInv, SeatsOnDuty, OnDuty
      <4> QED BY <4>1, <4>2
    <3> QED BY <3>1, <3>2 DEF SeatsOnDuty
  <2> QED BY <2>5, <2>8, <2>9, <2>10
<1>7. CASE CreateSession(q)
  <2> DEFINE c == request[q].code
  <2> DEFINE s == [admin |-> staffCode[c].admin, code |-> c, by |-> q]
  <2>1. c \in StaffCodes /\ request[q].kind = "session"
    BY <1>7, <1>s, RowKinds DEF CreateSession, StaffShape, Logins
  <2>2. /\ seats' = seats \cup {s}
        /\ raced' = (raced \/ ~request[q].fresh)
        /\ UNCHANGED <<member, role, staffCode>>
    BY <1>7 DEF CreateSession
  <2>3. Fades
    BY <1>7, <1>s, GivingFades DEF CreateSession
  <2>4. request'[q].kind = "idle" /\ \A p \in Handlers \ {q} : request'[p] = request[p]
    BY <1>7, <1>s DEF CreateSession, Gives, NoRequest, StaffShape
  <2>5. CodeShape'
    BY <1>s, <2>1, <2>2 DEF CodeShape
  <2>6. UsedOnce'
    BY <2>1, <2>2, <2>4 DEF OInv, UsedOnce, CodeUsedOnce
  <2>7. RolesHeld'
    BY <2>2, <2>3, RolesStay
  <2>8. SeatsOnDuty'
    <3>1. \A a : OnDuty(a)' = OnDuty(a)
      BY <2>2 DEF OnDuty
    <3>2. SessionsOfActive'
      <4>1. CASE raced \/ ~request[q].fresh
        BY <2>2, <4>1 DEF SessionsOfActive
      <4>2. CASE ~raced /\ request[q].fresh
        <5>1. OnDuty(s.admin)
          BY <2>1, <4>2 DEF OInv, SeatsOnDuty
        <5>2. \A t \in seats : OnDuty(t.admin)
          BY <4>2 DEF OInv, SeatsOnDuty, SessionsOfActive
        <5> HIDE DEF s
        <5> QED BY <2>2, <3>1, <5>1, <5>2 DEF SessionsOfActive
      <4> QED BY <4>1, <4>2
    <3> QED BY <2>2, <2>4, <3>1, <3>2 DEF OInv, SeatsOnDuty
  <2> QED BY <2>5, <2>6, <2>7, <2>8
<1> QED BY <1>1, <1>2, <1>3, <1>4, <1>5, <1>6, <1>7 DEF LoginStep

LEMMA OrderCommits ==
  ASSUME OInv, Fades, NoneFresh, UNCHANGED staffCode, seats' \subseteq seats,
         HeldRolesExist', SessionsOfActive'
  PROVE  CodeShape' /\ UsedOnce' /\ RolesHeld' /\ SeatsOnDuty'
<1>1. CodeShape'
  BY DEF OInv, CodeShape
<1>2. UsedOnce'
  BY UsedStays DEF Fades
<1>3. RolesHeld'
  BY DEF OInv, RolesHeld, Fades, NoneFresh, RoleKinds
<1>4. SeatsOnDuty'
  BY DEF SeatsOnDuty, NoneFresh
<1> QED BY <1>1, <1>2, <1>3, <1>4

(* A request whose row cannot be written ends and leaves everything alone. *)
LEMMA OrderGives ==
  ASSUME OInv, NEW q \in Handlers, Gives(q),
         UNCHANGED <<member, role, staffCode, seats, raced>>
  PROVE  CodeShape' /\ UsedOnce' /\ RolesHeld' /\ SeatsOnDuty'
<1>1. Fades
  BY GivingFades DEF OInv, SInv
<1>2. CodeShape' /\ RolesHeld'
  BY <1>1, RolesStay DEF OInv, CodeShape
<1>3. UsedOnce'
  BY <1>1, UsedStays DEF Fades
<1>4. SeatsOnDuty'
  BY <1>1, DutyStays DEF Fades
<1> QED BY <1>2, <1>3, <1>4

LEMMA OrderOfAccounts ==
  ASSUME OInv, NEW q \in Handlers, CommitCreate(q) \/ CommitUpdate(q)
  PROVE  CodeShape' /\ UsedOnce' /\ RolesHeld' /\ SeatsOnDuty'
<1> DEFINE b == request[q].admin
<1>1. request[q] \in AccountWrites /\ request[q].kind \in {"create", "update"} /\ StaffShape
  BY RowKinds DEF CommitCreate, CommitUpdate, OInv, SInv, StaffShape
<1>2. UNCHANGED <<role, staffCode, seats>>
  BY DEF CommitCreate, CommitUpdate
<1>3. CASE Gives(q) /\ UNCHANGED <<member, raced>>
  BY <1>2, <1>3, OrderGives
<1>4. CASE /\ Commits(q) /\ Assignable(request[q].roles)
           /\ \/ /\ member[b].status = "NONE"
                 /\ member' = [member EXCEPT ![b] = [status |-> "INVITED",
                                                     roles |-> request[q].roles]]
              \/ member' = [member EXCEPT ![b].roles = request[q].roles]
  <2>1. Fades /\ NoneFresh
    BY <1>1, <1>4, CommittingFades
  <2>2. \A a \in Admins :
          /\ member'[a].roles = IF a = b THEN request[q].roles ELSE member[a].roles
          /\ member[a].status = "ACTIVE" => member'[a].status = "ACTIVE"
    BY <1>1, <1>4 DEF StaffShape, AccountWrites
  <2>3. raced' \/ (~raced /\ request[q].roles \subseteq ActiveRoles)
    BY <1>1, <1>4 DEF OInv, RolesHeld, Commits
  <2>4. HeldRolesExist'
    BY <1>2, <1>4, <2>2, <2>3
    DEF OInv, RolesHeld, HeldRolesExist, Assignable, ActiveRoles
  <2>5. SessionsOfActive'
    <3>1. \A s \in seats : s.admin \in Admins
      BY DEF OInv, CodeShape
    <3> QED BY <1>2, <2>2, <2>3, <3>1 DEF OInv, SeatsOnDuty, SessionsOfActive, OnDuty
  <2> QED BY <1>2, <2>1, <2>4, <2>5, OrderCommits
<1> QED BY <1>3, <1>4 DEF CommitCreate, CommitUpdate

LEMMA OrderOfStatus ==
  ASSUME OInv, NEW q \in Handlers, CommitStatus(q)
  PROVE  CodeShape' /\ UsedOnce' /\ RolesHeld' /\ SeatsOnDuty'
<1> DEFINE b == request[q].admin
<1>1. request[q] \in AccountWrites /\ StaffShape
  BY RowKinds DEF CommitStatus, OInv, SInv, StaffShape
<1>2. /\ Commits(q) /\ UNCHANGED <<role, staffCode>>
      /\ seats' = SeatsLeft(b, request[q].status)
  BY DEF CommitStatus
<1>3. Fades /\ NoneFresh /\ (raced => raced')
  BY <1>1, <1>2, CommittingFades DEF Commits
<1>4. \A a \in Admins : /\ member'[a].roles = member[a].roles
                        /\ member'[a].status = IF a = b THEN request[q].status
                                                        ELSE member[a].status
  BY <1>1 DEF CommitStatus, StaffShape, AccountWrites
<1>5. seats' \subseteq seats
  BY <1>2 DEF SeatsLeft
<1>6. HeldRolesExist'
  BY <1>2, <1>3, <1>4 DEF OInv, RolesHeld, HeldRolesExist, ActiveRoles
<1>7. SessionsOfActive'
  <2>1. \A s \in seats : s.admin \in Admins
    BY DEF OInv, CodeShape
  <2>2. \A s \in seats' : s.admin = b => request[q].status = "ACTIVE"
    BY <1>2 DEF SeatsLeft
  <2> QED BY <1>3, <1>4, <1>5, <2>1, <2>2 DEF OInv, SeatsOnDuty, SessionsOfActive, OnDuty
<1> QED BY <1>2, <1>3, <1>5, <1>6, <1>7, OrderCommits

LEMMA OrderOfRoles ==
  ASSUME OInv, NEW q \in Handlers, CommitRole(q)
  PROVE  CodeShape' /\ UsedOnce' /\ RolesHeld' /\ SeatsOnDuty'
<1> DEFINE r == request[q].role
<1>1. request[q] \in RoleWrites /\ StaffShape
  BY RowKinds DEF CommitRole, OInv, SInv, StaffShape, RoleKinds
<1>2. UNCHANGED <<member, staffCode, seats>>
  BY DEF CommitRole
<1>3. CASE Gives(q) /\ UNCHANGED <<role, raced>>
  BY <1>2, <1>3, OrderGives
<1>4. CASE /\ Commits(q) /\ RoleWritable(request[q].kind, r)
           /\ role' = [role EXCEPT ![r] = [state |-> request[q].state,
                                           permissions |-> request[q].permissions]]
  <2>1. Fades /\ NoneFresh /\ (raced => raced')
    BY <1>1, <1>4, CommittingFades DEF Commits
  <2>2. \A o \in Roles : role'[o].state = IF o = r THEN request[q].state ELSE role[o].state
    BY <1>1, <1>4 DEF StaffShape, RoleWrites
  <2>3. \/ Holders(r) = {}
        \/ request[q].kind = "newRole" /\ request[q].state = "active"
        \/ request[q].kind = "role" /\ request[q].state # "absent"
    BY <1>4 DEF OInv, RolesHeld, RoleWritable
  <2>4. raced' \/ Holders(r) = {} \/ request[q].state = "active"
    <3>1. CASE request[q].kind = "role" /\ request[q].state # "absent"
      BY <1>1, <1>4, <3>1 DEF OInv, RolesHeld, Commits, RoleWrites, RoleState
    <3> QED BY <2>3, <3>1
  <2>5. HeldRolesExist'
    <3>1. \A a \in Admins : member[a].roles \subseteq Roles
      BY <1>1 DEF StaffShape
    <3>2. \A a \in Admins : \A o \in member[a].roles : role'[o].state # "absent"
      BY <2>2, <2>3, <3>1 DEF OInv, RolesHeld, HeldRolesExist, Holders
    <3>3. raced' \/ \A a \in Admins : \A o \in member[a].roles : role'[o].state = "active"
      BY <2>1, <2>2, <2>4, <3>1 DEF OInv, RolesHeld, HeldRolesExist, ActiveRoles, Holders
    <3> QED BY <1>2, <3>1, <3>2, <3>3 DEF HeldRolesExist, ActiveRoles
  <2>6. SessionsOfActive'
    BY <1>2, <2>1 DEF OInv, SeatsOnDuty, SessionsOfActive, OnDuty
  <2> QED BY <1>2, <2>1, <2>5, <2>6, OrderCommits
<1> QED BY <1>3, <1>4 DEF CommitRole

LEMMA OrderInductive == OInv /\ [AdminNext]_avars => OInv'
<1> SUFFICES ASSUME OInv, [AdminNext]_avars
             PROVE  CodeShape' /\ UsedOnce' /\ RolesHeld' /\ SeatsOnDuty'
  BY StaffInductive DEF OInv
<1>1. ASSUME NEW q \in Handlers, LoginStep(q)
      PROVE  CodeShape' /\ UsedOnce' /\ RolesHeld' /\ SeatsOnDuty'
  BY <1>1, OrderOfLogins
<1>2. ASSUME NEW q \in Handlers, NEW actor \in Admins, AccountRequest(q, actor)
      PROVE  CodeShape' /\ UsedOnce' /\ RolesHeld' /\ SeatsOnDuty'
  <2>w. ASSUME NEW kind \in {"create", "update", "status"}, NEW b \in Admins,
               NEW st \in AdminStatus, NEW roles \in SUBSET Roles,
               Writes(q, kind, b, st, roles),
               UNCHANGED <<member, role, staffCode, seats, raced>>,
               kind # "status" => roles \subseteq ActiveRoles
        PROVE  CodeShape' /\ UsedOnce' /\ RolesHeld' /\ SeatsOnDuty'
    <3> DEFINE r == [kind |-> kind, admin |-> b, status |-> st, roles |-> roles,
                     fresh |-> TRUE]
    <3>1. /\ r \in RequestRow /\ r.kind \in {"create", "update", "status"}
          /\ r.kind # "status" => r.roles \subseteq ActiveRoles
      BY <2>w DEF RequestRow, AccountWrites
    <3>2. Starts(q, r)
      BY <2>w DEF Writes
    <3> HIDE DEF r
    <3> QED BY <2>w, <3>1, <3>2, OrderBegins
  <2>1. ASSUME NEW b \in Admins, NEW rs \in SUBSET Roles,
               ReadForCreate(q, actor, b, rs) \/ ReadForUpdate(q, actor, b, rs)
        PROVE  CodeShape' /\ UsedOnce' /\ RolesHeld' /\ SeatsOnDuty'
    BY <2>1, <2>w DEF ReadForCreate, ReadForUpdate, AdminStatus
  <2>2. ASSUME NEW b \in Admins, NEW s \in {"ACTIVE", "SUSPENDED", "REVOKED"},
               ReadForStatus(q, actor, b, s)
        PROVE  CodeShape' /\ UsedOnce' /\ RolesHeld' /\ SeatsOnDuty'
    BY <2>2, <2>w DEF ReadForStatus, AdminStatus
  <2> QED BY <1>2, <2>1, <2>2 DEF AccountRequest
<1>3. ASSUME NEW q \in Handlers, NEW actor \in Admins, RoleRequest(q, actor)
      PROVE  CodeShape' /\ UsedOnce' /\ RolesHeld' /\ SeatsOnDuty'
  <2>0. Grants \subseteq SUBSET Permissions
    BY AdminAssumption
  <2>w. ASSUME NEW kind \in RoleKinds, NEW o \in Roles, NEW state \in RoleState,
               NEW permissions \in SUBSET Permissions,
               WritesRole(q, kind, o, state, permissions),
               UNCHANGED <<member, role, staffCode, seats, raced>>,
               kind = "newRole" => state = "active",
               kind = "role" => state # "absent",
               kind = "role" /\ state = "inactive" => Holders(o) = {}
        PROVE  CodeShape' /\ UsedOnce' /\ RolesHeld' /\ SeatsOnDuty'
    <3> DEFINE r == [kind |-> kind, role |-> o, state |-> state, permissions |-> permissions,
                     fresh |-> TRUE]
    <3>1. /\ r \in RequestRow /\ r.kind \in RoleKinds
          /\ r.kind = kind /\ r.state = state /\ r.role = o
      BY <2>w DEF RequestRow, RoleWrites
    <3>2. Starts(q, r)
      BY <2>w DEF WritesRole
    <3> HIDE DEF r
    <3> QED BY <2>w, <3>1, <3>2, OrderBegins DEF RoleKinds
  <2>1. ASSUME NEW r \in Roles, NEW ps \in Grants, ReadForNewRole(q, actor, r, ps)
        PROVE  CodeShape' /\ UsedOnce' /\ RolesHeld' /\ SeatsOnDuty'
    BY <2>0, <2>1, <2>w DEF ReadForNewRole, RoleState, RoleKinds
  <2>2. ASSUME NEW r \in Roles, NEW ps \in Grants, NEW s \in {"active", "inactive"},
               ReadForRole(q, actor, r, s, ps)
        PROVE  CodeShape' /\ UsedOnce' /\ RolesHeld' /\ SeatsOnDuty'
    BY <2>0, <2>2, <2>w DEF ReadForRole, RoleState, RoleKinds
  <2>3. ASSUME NEW r \in Roles, ReadForRemoval(q, actor, r)
        PROVE  CodeShape' /\ UsedOnce' /\ RolesHeld' /\ SeatsOnDuty'
    BY <2>3, <2>w DEF ReadForRemoval, RoleState, RoleKinds
  <2> QED BY <1>3, <2>1, <2>2, <2>3 DEF RoleRequest
<1>4. ASSUME NEW q \in Handlers,
             CommitCreate(q) \/ CommitUpdate(q) \/ CommitStatus(q) \/ CommitRole(q)
      PROVE  CodeShape' /\ UsedOnce' /\ RolesHeld' /\ SeatsOnDuty'
  BY <1>4, OrderOfAccounts, OrderOfStatus, OrderOfRoles
<1>5. ASSUME UNCHANGED <<member, role, request, raced>>, seats' \subseteq seats, CodeShape',
             \A c \in StaffCodes : /\ staffCode[c].state = "used" => staffCode'[c].state = "used"
                                   /\ staffCode'[c].admin = staffCode[c].admin
      PROVE  CodeShape' /\ UsedOnce' /\ RolesHeld' /\ SeatsOnDuty'
  <2>1. \A q \in Handlers : request[q].kind = "session" => request[q].code \in StaffCodes
    BY RowKinds DEF OInv, SInv, StaffShape, Logins
  <2>2. Fades
    BY <1>5 DEF Fades
  <2>3. UsedOnce' /\ RolesHeld'
    BY <1>5, <2>2, UsedStays, RolesStay
  <2>4. SeatsOnDuty'
    BY <1>5, <2>1, DutyStays
  <2> QED BY <1>5, <2>3, <2>4
<1>6. CASE \/ \E actor, b \in Admins : RevokeSessions(actor, b)
           \/ \E s \in seats : SessionEnds(s)
           \/ UNCHANGED avars
  <2>1. seats' \subseteq seats /\ UNCHANGED <<member, role, staffCode, request, raced>>
    BY <1>6 DEF RevokeSessions, SessionEnds, avars
  <2>2. CodeShape'
    BY <2>1 DEF OInv, CodeShape
  <2> QED BY <1>5, <2>1, <2>2
<1>7. ASSUME NEW c \in StaffCodes, CodeExpires(c)
      PROVE  CodeShape' /\ UsedOnce' /\ RolesHeld' /\ SeatsOnDuty'
  <2>1. CodeShape'
    BY <1>7 DEF CodeExpires, OInv, CodeShape, CodeState
  <2>2. \A d \in StaffCodes : /\ staffCode[d].state = "used" => staffCode'[d].state = "used"
                              /\ staffCode'[d].admin = staffCode[d].admin
    BY <1>7 DEF CodeExpires, OInv, CodeShape
  <2>3. UNCHANGED <<member, role, request, raced, seats>>
    BY <1>7 DEF CodeExpires
  <2> QED BY <1>5, <2>1, <2>2, <2>3
<1> QED BY <1>1, <1>2, <1>3, <1>4, <1>6, <1>7 DEF AdminNext

(* A code opens one session, roles that are held exist, and as long as no  *)
(* overtaken check was committed held roles are active and every session   *)
(* belongs to an ACTIVE account, for any number of requests.               *)
THEOREM StaffStaysInOrder == AdminSpec => []StaffInOrder
<1>1. OInv => StaffInOrder
  BY DEF OInv, UsedOnce, RolesHeld, SeatsOnDuty, StaffInOrder
<1> QED BY OrderInitially, OrderInductive, <1>1, PTL DEF AdminSpec

-----------------------------------------------------------------------------
(* The guesses that were let in before the limit was reached are counted   *)
(* beyond it, each of them once.                                           *)

Guesses(c) == {q \in Handlers : request[q].kind = "wrong" /\ request[q].code = c}

AttemptsOK ==
  \A c \in StaffCodes :
    staffCode[c].attempts + Cardinality(Guesses(c)) <= MaxAttempts + Cardinality(Handlers) - 1

(* What a step may do to a code: count it below the limit, leave it with   *)
(* the guesses that are under way or fewer, or count one of them.          *)
Counted(c) ==
  \/ staffCode'[c].attempts < MaxAttempts
  \/ staffCode'[c].attempts = staffCode[c].attempts /\ Guesses(c)' \subseteq Guesses(c)
  \/ /\ staffCode'[c].attempts = staffCode[c].attempts + 1
     /\ \E q \in Guesses(c) : Guesses(c)' \subseteq Guesses(c) \ {q}

LEMMA GuessesAreFew ==
  ASSUME NEW S \in SUBSET Handlers
  PROVE  /\ IsFiniteSet(S) /\ Cardinality(S) \in Nat
         /\ Cardinality(Handlers) \in Nat /\ Cardinality(S) <= Cardinality(Handlers)
  BY AdminAssumption, FS_Subset, FS_CardinalityType

LEMMA AttemptsInitially == AdminInit => AttemptsOK
<1> SUFFICES ASSUME AdminInit, NEW c \in StaffCodes
             PROVE  staffCode[c].attempts + Cardinality(Guesses(c))
                      <= MaxAttempts + Cardinality(Handlers) - 1
  BY DEF AttemptsOK
<1>1. Guesses(c) = {} /\ staffCode[c].attempts = 0
  BY DEF AdminInit, Guesses, NoRequest
<1>2. Cardinality({}) = 0
  BY FS_EmptySet
<1>3. Cardinality(Handlers) \in Nat /\ MaxAttempts \in Nat \ {0}
  BY AdminAssumption, FS_CardinalityType
<1> QED BY <1>1, <1>2, <1>3

LEMMA AttemptsKept ==
  ASSUME AttemptsOK, CodeShape, CodeShape', \A c \in StaffCodes : Counted(c)
  PROVE  AttemptsOK'
<1> SUFFICES ASSUME NEW c \in StaffCodes
             PROVE  staffCode'[c].attempts + Cardinality(Guesses(c)')
                      <= MaxAttempts + Cardinality(Handlers) - 1
  BY DEF AttemptsOK
<1>1. Guesses(c) \in SUBSET Handlers /\ Guesses(c)' \in SUBSET Handlers
  BY DEF Guesses
<1>2. /\ staffCode[c].attempts \in Nat /\ staffCode'[c].attempts \in Nat
      /\ MaxAttempts \in Nat \ {0}
  BY AdminAssumption DEF CodeShape
<1>3. /\ IsFiniteSet(Guesses(c)) /\ Cardinality(Guesses(c)) \in Nat
      /\ Cardinality(Guesses(c)') \in Nat /\ Cardinality(Handlers) \in Nat
      /\ Cardinality(Guesses(c)') <= Cardinality(Handlers)
  BY <1>1, GuessesAreFew
<1>4. staffCode[c].attempts + Cardinality(Guesses(c)) <= MaxAttempts + Cardinality(Handlers) - 1
  BY DEF AttemptsOK
<1>5. CASE staffCode'[c].attempts < MaxAttempts
  BY <1>2, <1>3, <1>5
<1>6. CASE staffCode'[c].attempts = staffCode[c].attempts /\ Guesses(c)' \subseteq Guesses(c)
  <2>1. Cardinality(Guesses(c)') <= Cardinality(Guesses(c))
    BY <1>3, <1>6, FS_Subset
  <2> QED BY <1>2, <1>3, <1>4, <1>6, <2>1
<1>7. ASSUME staffCode'[c].attempts = staffCode[c].attempts + 1,
             NEW q \in Guesses(c), Guesses(c)' \subseteq Guesses(c) \ {q}
      PROVE  staffCode'[c].attempts + Cardinality(Guesses(c)')
               <= MaxAttempts + Cardinality(Handlers) - 1
  <2>1. /\ IsFiniteSet(Guesses(c) \ {q})
        /\ Cardinality(Guesses(c) \ {q}) = Cardinality(Guesses(c)) - 1
    BY <1>3, FS_RemoveElement
  <2>2. Cardinality(Guesses(c)') <= Cardinality(Guesses(c) \ {q})
    BY <1>7, <2>1, FS_Subset
  <2> QED BY <1>2, <1>3, <1>4, <1>7, <2>1, <2>2
<1> QED BY <1>5, <1>6, <1>7 DEF Counted

LEMMA FadingCounts ==
  ASSUME Fades, \A c \in StaffCodes : staffCode'[c].attempts = staffCode[c].attempts
  PROVE  \A c \in StaffCodes : Counted(c)
  BY DEF Fades, Guesses, Counted

(* A request begins that is no guess, or guesses a code that is usable.    *)
LEMMA BeginningCounts ==
  ASSUME StaffShape, NEW q \in Handlers, NEW r, Starts(q, r), UNCHANGED staffCode,
         r.kind = "wrong" => Usable(r.code)
  PROVE  \A c \in StaffCodes : Counted(c)
<1>1. \A p \in Handlers : request'[p] = IF p = q THEN r ELSE request[p]
  BY DEF Starts, StaffShape
<1> QED BY <1>1 DEF Guesses, Counted, Usable

LEMMA LoginsCount ==
  ASSUME OInv, NEW q \in Handlers, LoginStep(q)
  PROVE  \A c \in StaffCodes : Counted(c)
<1>s. StaffShape /\ CodeShape
  BY DEF OInv, SInv
<1>1. ASSUME NEW a \in Admins, AsksForCode(q, a)
      PROVE  \A c \in StaffCodes : Counted(c)
  BY <1>s, <1>1, BeginningCounts DEF AsksForCode
<1>2. ASSUME NEW c \in StaffCodes, NEW right \in BOOLEAN, LoginReads(q, c, right)
      PROVE  \A d \in StaffCodes : Counted(d)
  BY <1>s, <1>2, BeginningCounts DEF LoginReads
<1>3. ASSUME NEW c \in StaffCodes, CreateChallenge(q, c)
      PROVE  \A d \in StaffCodes : Counted(d)
  <2>1. Fades
    BY <1>s, <1>3, GivingFades DEF CreateChallenge
  <2>2. \A d \in StaffCodes : staffCode'[d].attempts = IF d = c THEN 0 ELSE staffCode[d].attempts
    BY <1>s, <1>3 DEF CreateChallenge, CodeShape
  <2>3. 0 < MaxAttempts
    BY AdminAssumption
  <2> QED BY <2>1, <2>2, <2>3 DEF Fades, Guesses, Counted
<1>4. CASE RecordFailedAttempt(q)
  <2>1. request[q].code \in StaffCodes /\ request[q].kind = "wrong"
    BY <1>4, <1>s, RowKinds DEF RecordFailedAttempt, StaffShape, Logins
  <2>2. /\ \A p \in Handlers \ {q} : request'[p] = request[p]
        /\ request'[q].kind = "idle"
    BY <1>4, <1>s DEF RecordFailedAttempt, Gives, NoRequest, StaffShape
  <2>3. \A c \in StaffCodes :
          staffCode'[c].attempts = IF c = request[q].code THEN staffCode[c].attempts + 1
                                                          ELSE staffCode[c].attempts
    BY <1>4, <1>s DEF RecordFailedAttempt, CodeShape
  <2>4. \A c : Guesses(c)' \subseteq Guesses(c) \ {q}
    BY <2>2 DEF Guesses
  <2>5. q \in Guesses(request[q].code)
    BY <2>1 DEF Guesses
  <2> QED BY <2>3, <2>4, <2>5 DEF Counted
<1>5. CASE ConsumeChallenge(q)
  <2>1. request[q].code \in StaffCodes /\ request[q] \in Logins
    BY <1>5, <1>s, RowKinds DEF ConsumeChallenge, StaffShape, Logins
  <2>2. \A c \in StaffCodes : staffCode'[c].attempts = staffCode[c].attempts
    BY <1>5, <1>s, <2>1 DEF ConsumeChallenge, CodeShape
  <2>3. /\ \A p \in Handlers \ {q} : request'[p] = request[p]
        /\ request'[q].kind # "wrong"
    BY <1>5, <1>s, <2>1 DEF ConsumeChallenge, Gives, NoRequest, StaffShape, Logins
  <2> QED BY <2>2, <2>3 DEF Guesses, Counted
<1>6. CASE CreateSession(q)
  <2>1. Fades /\ UNCHANGED staffCode
    BY <1>s, <1>6, GivingFades DEF CreateSession
  <2> QED BY <2>1, FadingCounts
<1> QED BY <1>1, <1>2, <1>3, <1>4, <1>5, <1>6 DEF LoginStep

LEMMA StepsCount ==
  ASSUME OInv, [AdminNext]_avars
  PROVE  \A c \in StaffCodes : Counted(c)
<1>s. StaffShape /\ CodeShape
  BY DEF OInv, SInv
<1>1. ASSUME NEW q \in Handlers, NEW actor \in Admins, AccountRequest(q, actor)
      PROVE  \A c \in StaffCodes : Counted(c)
  <2>1. ASSUME NEW kind \in {"create", "update", "status"}, NEW b, NEW st, NEW roles,
               Writes(q, kind, b, st, roles), UNCHANGED staffCode
        PROVE  \A c \in StaffCodes : Counted(c)
    BY <1>s, <2>1, BeginningCounts DEF Writes
  <2> QED BY <1>1, <2>1 DEF AccountRequest, ReadForCreate, ReadForUpdate, ReadForStatus
<1>2. ASSUME NEW q \in Handlers, NEW actor \in Admins, RoleRequest(q, actor)
      PROVE  \A c \in StaffCodes : Counted(c)
  <2>1. ASSUME NEW kind \in RoleKinds, NEW o, NEW state, NEW permissions,
               WritesRole(q, kind, o, state, permissions), UNCHANGED staffCode
        PROVE  \A c \in StaffCodes : Counted(c)
    BY <1>s, <2>1, BeginningCounts DEF WritesRole, RoleKinds
  <2> QED BY <1>2, <2>1 DEF RoleRequest, ReadForNewRole, ReadForRole, ReadForRemoval, RoleKinds
<1>3. ASSUME NEW q \in Handlers,
             CommitCreate(q) \/ CommitUpdate(q) \/ CommitStatus(q) \/ CommitRole(q)
      PROVE  \A c \in StaffCodes : Counted(c)
  <2>1. (Gives(q) \/ Commits(q)) /\ UNCHANGED staffCode
    BY <1>3 DEF CommitCreate, CommitUpdate, CommitStatus, CommitRole
  <2>2. Fades
    BY <1>s, <2>1, GivingFades, CommittingFades
  <2> QED BY <2>1, <2>2, FadingCounts
<1>4. CASE \/ \E actor, b \in Admins : RevokeSessions(actor, b)
           \/ \E s \in seats : SessionEnds(s)
           \/ \E c \in StaffCodes : CodeExpires(c)
           \/ UNCHANGED avars
  <2>1. /\ UNCHANGED request
        /\ \A c \in StaffCodes : staffCode'[c].attempts = staffCode[c].attempts
    BY <1>s, <1>4 DEF RevokeSessions, SessionEnds, CodeExpires, avars, CodeShape
  <2> QED BY <2>1, FadingCounts DEF Fades
<1> QED BY <1>1, <1>2, <1>3, <1>4, LoginsCount DEF AdminNext

(* The staff's tables hold what their columns allow, and a code is guessed *)
(* at most once more than its limit for every other request that may run   *)
(* at the time.                                                            *)
THEOREM StaffTypesCorrect == AdminSpec => []AdminTypeOK
<1>1. AdminInit => OInv /\ AttemptsOK
  BY OrderInitially, AttemptsInitially
<1>2. OInv /\ AttemptsOK /\ [AdminNext]_avars => (OInv /\ AttemptsOK)'
  <2> SUFFICES ASSUME OInv, AttemptsOK, [AdminNext]_avars PROVE OInv' /\ AttemptsOK'
    OBVIOUS
  <2>1. OInv' /\ CodeShape /\ CodeShape'
    BY OrderInductive DEF OInv
  <2> QED BY <2>1, StepsCount, AttemptsKept
<1>3. OInv /\ AttemptsOK => AdminTypeOK
  <2> SUFFICES ASSUME OInv, AttemptsOK PROVE AdminTypeOK
    OBVIOUS
  <2>1. ASSUME NEW c \in StaffCodes
        PROVE  staffCode[c].attempts \in 0 .. MaxAttempts + Cardinality(Handlers) - 1
    <3>1. Guesses(c) \in SUBSET Handlers
      BY DEF Guesses
    <3>2. Cardinality(Guesses(c)) \in Nat /\ Cardinality(Handlers) \in Nat
      BY <3>1, GuessesAreFew
    <3>3. staffCode[c].attempts \in Nat /\ MaxAttempts \in Nat
      BY AdminAssumption DEF OInv, CodeShape
    <3> QED BY <3>2, <3>3 DEF AttemptsOK
  <2>2. staffCode \in [StaffCodes -> [state : CodeState, admin : Admins,
                          attempts : 0 .. MaxAttempts + Cardinality(Handlers) - 1]]
    BY <2>1 DEF OInv, CodeShape
  <2> QED BY <2>2 DEF AdminTypeOK, OInv, SInv, StaffShape, CodeShape
<1> QED BY <1>1, <1>2, <1>3, PTL DEF AdminSpec

-----------------------------------------------------------------------------
(* What a request has read of the reviews still holds when it decides,     *)
(* unless its own moderator has claimed one of them since.                 *)
NoneOfHis ==
  \A m \in Moderators, a \in AppealIds :
    a \in hearing[m] \ joined[m] /\ appeal[a] # Nobody
      => \A v \in ReviewsAbout(appeal[a].about) : assigned[v].by # m

APInv == AppealTypeOK /\ NoneOfHis

LEMMA ReviewsExist ==
  ASSUME NEW subject \in Subjects
  PROVE  ReviewsAbout(subject) \subseteq Reviewed
  BY DEF Subjects, Reviewed, ReviewsAbout

LEMMA AppealsInitially == AppealInit => APInv
  BY AppealAssumption DEF AppealInit, APInv, AppealTypeOK, NoneOfHis

LEMMA AppealsInductive == APInv /\ [AppealNext]_appealVars => APInv'
<1> SUFFICES ASSUME APInv, [AppealNext]_appealVars
             PROVE  APInv'
  OBVIOUS
<1> USE DEF APInv
<1>r. \A a \in AppealIds : appeal[a] # Nobody
        => /\ appeal[a].about \in Subjects
           /\ ReviewsAbout(appeal[a].about) \subseteq Reviewed
  BY ReviewsExist DEF AppealTypeOK
<1>1. ASSUME NEW V \in {{"prompt"}, Pictures}, PutUp(V)
      PROVE  APInv'
  <2>1. AppealTypeOK'
    BY <1>1 DEF PutUp, AppealTypeOK
  <2>2. \A v \in Reviewed : assigned'[v].by \in {assigned[v].by, Nobody}
    BY <1>1 DEF PutUp
  <2> QED BY <1>1, <1>r, <2>1, <2>2, AppealAssumption DEF PutUp, NoneOfHis
<1>2. ASSUME NEW m \in Moderators, NEW v \in Reviewed, AssignReview(m, v)
      PROVE  APInv'
  <2> DEFINE his == {a \in hearing[m] : appeal[a] # Nobody /\ v \in ReviewsAbout(appeal[a].about)}
  <2>1. /\ joined' = [joined EXCEPT ![m] = @ \cup his] /\ his \subseteq hearing[m]
        /\ UNCHANGED <<appeal, hearing>>
    BY <1>2 DEF AssignReview
  <2>2. AppealTypeOK'
    <3>1. assigned' \in [Reviewed -> [status : {"absent", "OPEN", "CLAIMED", "DECIDED"},
                                     by : Moderators \cup {Nobody}]]
      BY <1>2 DEF AssignReview, AppealTypeOK
    <3>2. hearing[m] \subseteq AppealIds /\ joined[m] \subseteq hearing[m]
      BY DEF AppealTypeOK
    <3> HIDE DEF his
    <3> QED BY <2>1, <3>1, <3>2 DEF AppealTypeOK
  <2>3. \A w \in Reviewed : assigned'[w].by = IF w = v THEN m ELSE assigned[w].by
    BY <1>2 DEF AssignReview, AppealTypeOK
  <2>4. ASSUME NEW n \in Moderators, NEW a \in AppealIds,
               a \in hearing'[n] \ joined'[n], appeal'[a] # Nobody
        PROVE  \A w \in ReviewsAbout(appeal'[a].about) : assigned'[w].by # n
    <3>1. a \in hearing[n] \ joined[n] /\ appeal[a] # Nobody /\ appeal'[a] = appeal[a]
      BY <2>1, <2>4 DEF AppealTypeOK
    <3>2. \A w \in ReviewsAbout(appeal[a].about) : w \in Reviewed /\ assigned[w].by # n
      BY <1>r, <3>1 DEF NoneOfHis
    <3>3. n = m => v \notin ReviewsAbout(appeal[a].about)
      BY <2>1, <2>4, <3>1 DEF AppealTypeOK
    <3> QED BY <2>3, <3>1, <3>2, <3>3
  <2> QED BY <2>2, <2>4 DEF NoneOfHis
<1>3. ASSUME NEW m \in Moderators, NEW v \in Reviewed, CloseReview(m, v)
      PROVE  APInv'
  <2>1. AppealTypeOK'
    BY <1>3 DEF CloseReview, AppealTypeOK
  <2>2. \A w \in Reviewed : assigned'[w].by = assigned[w].by
    BY <1>3 DEF CloseReview, AppealTypeOK
  <2> QED BY <1>3, <1>r, <2>1, <2>2 DEF CloseReview, NoneOfHis
<1>4. ASSUME NEW a \in AppealIds, NEW subject \in Subjects, CreateAppeal(a, subject)
      PROVE  APInv'
  <2>1. AppealTypeOK'
    BY <1>4 DEF CreateAppeal, AppealTypeOK
  <2>2. \A b \in AppealIds : b # a => appeal'[b] = appeal[b]
    BY <1>4 DEF CreateAppeal, AppealTypeOK
  <2> QED BY <1>4, <2>1, <2>2 DEF CreateAppeal, NoneOfHis
<1>5. ASSUME NEW m \in Moderators, NEW a \in AppealIds, ReadAppeal(m, a)
      PROVE  APInv'
  <2>1. AppealTypeOK'
    BY <1>5 DEF ReadAppeal, AppealTypeOK
  <2>2. \A n \in Moderators : hearing'[n] = IF n = m THEN hearing[n] \cup {a} ELSE hearing[n]
    BY <1>5 DEF ReadAppeal, AppealTypeOK
  <2> QED BY <1>5, <2>1, <2>2 DEF ReadAppeal, NoneOfHis
<1>6. ASSUME NEW m \in Moderators, NEW a \in AppealIds, DecideAppeal(m, a)
      PROVE  APInv'
  <2>1. \A n \in Moderators :
          /\ hearing'[n] = IF n = m THEN hearing[n] \ {a} ELSE hearing[n]
          /\ joined'[n] = IF n = m THEN joined[n] \ {a} ELSE joined[n]
    BY <1>6 DEF DecideAppeal, AppealTypeOK
  <2>2. AppealTypeOK'
    <3>1. /\ hearing' \in [Moderators -> SUBSET AppealIds]
          /\ joined' \in [Moderators -> SUBSET AppealIds]
          /\ UNCHANGED assigned
      BY <1>6 DEF DecideAppeal, AppealTypeOK
    <3>2. appeal' \in [AppealIds -> {Nobody} \cup
                       [about : Subjects, status : {"OPEN", "ACCEPTED", "REJECTED"},
                        by : Moderators \cup {Nobody}]]
      BY <1>6 DEF DecideAppeal, AppealTypeOK, StillOpen
    <3>3. \A n \in Moderators : joined'[n] \subseteq hearing'[n]
      BY <2>1 DEF AppealTypeOK
    <3> QED BY <3>1, <3>2, <3>3 DEF AppealTypeOK
  <2>3. \A b \in AppealIds : appeal[b] = Nobody => appeal'[b] = Nobody
    BY <1>6 DEF DecideAppeal, StillOpen, AppealTypeOK
  <2>4. \A b \in AppealIds : appeal[b] # Nobody => appeal'[b].about = appeal[b].about
    BY <1>6 DEF DecideAppeal, StillOpen, AppealTypeOK
  <2>5. \A n \in Moderators : hearing'[n] \ joined'[n] \subseteq hearing[n] \ joined[n]
    BY <2>1
  <2>6. UNCHANGED assigned
    BY <1>6 DEF DecideAppeal
  <2> QED BY <2>2, <2>3, <2>4, <2>5, <2>6, AppealAssumption DEF NoneOfHis
<1>7. CASE TaskGoes
  BY <1>7 DEF TaskGoes, AppealTypeOK, NoneOfHis
<1>8. CASE UNCHANGED appealVars
  BY <1>8 DEF appealVars, AppealTypeOK, NoneOfHis
<1> QED BY <1>1, <1>2, <1>3, <1>4, <1>5, <1>6, <1>7, <1>8 DEF AppealNext

(* What the invariant makes of one step.                                   *)
HeardAct ==
  \A a \in AppealIds :
    appeal[a] # Nobody /\ appeal'[a] # Nobody /\ appeal'[a] # appeal[a] =>
      /\ appeal[a].status = "OPEN"
      /\ \/ a \in joined[appeal'[a].by]
         \/ IF appeal[a].about = "task"
            THEN \A v \in Reviewed : assigned[v].by # appeal'[a].by
            ELSE assigned[appeal[a].about].by # appeal'[a].by

LEMMA HeardStep == APInv /\ [AppealNext]_appealVars => [HeardAct]_appealVars
<1> SUFFICES ASSUME APInv, AppealNext
             PROVE  HeardAct
  OBVIOUS
<1> USE DEF APInv
<1>1. CASE UNCHANGED appeal
  BY <1>1 DEF HeardAct
<1>2. ASSUME NEW a \in AppealIds, NEW subject \in Subjects, CreateAppeal(a, subject)
      PROVE  HeardAct
  BY <1>2 DEF CreateAppeal, AppealTypeOK, HeardAct
<1>3. CASE TaskGoes
  BY <1>3 DEF TaskGoes, HeardAct
<1>4. ASSUME NEW m \in Moderators, NEW h \in AppealIds, DecideAppeal(m, h), ~ UNCHANGED appeal
      PROVE  HeardAct
  <2>1. h \in hearing[m] /\ StillOpen(h)
    BY <1>4 DEF DecideAppeal
  <2>2. PICK d \in {"ACCEPTED", "REJECTED"} :
          appeal' = [appeal EXCEPT ![h].status = d, ![h].by = m]
    BY <1>4 DEF DecideAppeal
  <2>3. \A b \in AppealIds : b # h => appeal'[b] = appeal[b]
    BY <2>2 DEF AppealTypeOK
  <2>4. appeal[h] # Nobody /\ appeal[h].status = "OPEN" /\ appeal'[h].by = m
    BY <2>1, <2>2 DEF StillOpen, AppealTypeOK
  <2>5. h \in joined[m] \/ \A v \in ReviewsAbout(appeal[h].about) : assigned[v].by # m
    BY <2>1, <2>4 DEF NoneOfHis
  <2> QED BY <2>3, <2>4, <2>5 DEF HeardAct, ReviewsAbout
<1>5. \/ UNCHANGED appeal
      \/ \E a \in AppealIds, subject \in Subjects : CreateAppeal(a, subject)
      \/ TaskGoes
      \/ \E m \in Moderators, a \in AppealIds : DecideAppeal(m, a)
  BY DEF AppealNext, PutUp, AssignReview, CloseReview, ReadAppeal
<1> QED BY <1>1, <1>2, <1>3, <1>4, <1>5

(* An appeal is decided once, and by a moderator to whom no review of what *)
(* it is about is assigned, although he reads the reviews in one step and  *)
(* decides in another: unless he claimed one himself in between            *)
(* (decideAppeal() asks again only whether the appeal is open).            *)
THEOREM AppealsHeardByAnother == AppealSpec => HeardByAnother
<1>1. AppealSpec => []APInv
  BY AppealsInitially, AppealsInductive, PTL DEF AppealSpec
<1>2. APInv /\ [AppealNext]_appealVars => [HeardAct]_appealVars
  BY HeardStep
<1>3. AppealSpec => [][HeardAct]_appealVars
  BY <1>1, <1>2, PTL DEF AppealSpec
<1> QED BY <1>3 DEF HeardByAnother, HeardAct

(* The rows of reviews and appeals keep their types.                       *)
THEOREM AppealsTypeCorrect == AppealSpec => []AppealTypeOK
<1>1. APInv => AppealTypeOK
  BY DEF APInv
<1> QED BY AppealsInitially, AppealsInductive, <1>1, PTL DEF AppealSpec

-----------------------------------------------------------------------------
(* The staff together (MCStaff): every story is one of each component.     *)

LEMMA StaffTell ==
  StaffSpec => AdminSpec /\ ReviewSpec /\ AppealSpec
<1>1. StaffInit => AdminInit /\ ReviewInit /\ AppealInit
  BY DEF StaffInit
<1> DEFINE Told == AccountsStory \/ ReviewsStory \/ AppealsStory
<1>2. [Told]_staffVars => [AdminNext]_avars
  BY DEF AccountsStory, ReviewsStory, AppealsStory, staffVars
<1>3. [Told]_staffVars => [ReviewNext]_reviewVars
  BY DEF AccountsStory, ReviewsStory, AppealsStory, staffVars
<1>4. [Told]_staffVars => [AppealNext]_appealVars
  BY DEF AccountsStory, ReviewsStory, AppealsStory, staffVars
<1> QED
  BY <1>1, <1>2, <1>3, <1>4, PTL DEF StaffSpec, AdminSpec, ReviewSpec, AppealSpec

(* No row of the staff, its reviews and the appeals against them takes a   *)
(* value its columns do not allow.                                         *)
THEOREM AllStaffTypesCorrect == StaffSpec => []StaffTypeOK
BY StaffTell, StaffTypesCorrect, ReviewsTypeCorrect, AppealsTypeCorrect,
   PTL DEF StaffTypeOK

=============================================================================
