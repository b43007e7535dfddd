---------------------------- MODULE AdminAccounts ----------------------------
(***************************************************************************)
(* The staff of the administration: accounts, roles and their permissions, *)
(* one-time codes, sessions, and the requests that change them.            *)
(*                                                                         *)
(* A change of an account or of a role is two steps: it reads what its     *)
(* checks need, and later commits a transaction that no longer asks.  A    *)
(* login is three: it looks at the code, consumes it and reads the         *)
(* account, and inserts the session (READ COMMITTED).  request[q].fresh    *)
(* says that no change was committed since q's last read, and "raced"      *)
(* that some request has been committed although one was.                  *)
(***************************************************************************)
EXTENDS Naturals, FiniteSets
CONSTANTS Admins, FirstAdmin, Roles, OwnerRole, Builtin, Grants, StaffCodes, Handlers,
          MaxAttempts
VARIABLES member, role, staffCode, seats, request, raced

avars == <<member, role, staffCode, seats, request, raced>>

Permissions == {"admin-accounts:write", "admin-sessions:revoke", "roles:write"}

ASSUME AdminAssumption == /\ FirstAdmin \in Admins
                          /\ OwnerRole \in Builtin /\ Builtin \subseteq Roles
                          /\ Grants \subseteq (SUBSET Permissions) \ {{}}
                          /\ MaxAttempts \in Nat \ {0} /\ IsFiniteSet(Handlers)

AdminStatus == {"NONE", "INVITED", "ACTIVE", "SUSPENDED", "REVOKED"}
RoleState == {"absent", "active", "inactive"}
CodeState == {"none", "open", "used", "expired"}
NoRequest == [kind |-> "idle"]

(* The seed: the owner role with every permission and one active owner.    *)
AdminInit ==
  /\ member = [a \in Admins |-> IF a = FirstAdmin
                                 THEN [status |-> "ACTIVE", roles |-> {OwnerRole}]
                                 ELSE [status |-> "NONE", roles |-> {}]]
  /\ role = [r \in Roles |-> IF r = OwnerRole
                             THEN [state |-> "active", permissions |-> Permissions]
                             ELSE [state |-> "absent", permissions |-> {}]]
  /\ staffCode = [c \in StaffCodes |-> [state |-> "none", admin |-> FirstAdmin, attempts |-> 0]]
  /\ seats = {}
  /\ request = [q \in Handlers |-> NoRequest]
  /\ raced = FALSE

ActiveRoles == {r \in Roles : role[r].state = "active"}
OnDuty(a) == member[a].status = "ACTIVE"
MayDo(a) == UNION {role[r].permissions : r \in member[a].roles \cap ActiveRoles}

(* requirePermission: the session's account must be ACTIVE now.            *)
Permitted(a, p) == OnDuty(a) /\ p \in MayDo(a) /\ \E s \in seats : s.admin = a

(* What a request takes with it, and what a committed change does to the   *)
(* others' view.                                                           *)
Starts(q, r) == request[q] = NoRequest /\ request' = [request EXCEPT ![q] = r]
Commits(q) ==
  /\ raced' = (raced \/ ~request[q].fresh)
  /\ request' = [p \in Handlers |->
                   IF p = q \/ request[p].kind = "idle" THEN NoRequest
                   ELSE [request[p] EXCEPT !.fresh = FALSE]]
Gives(q) == request' = [request EXCEPT ![q] = NoRequest]

-----------------------------------------------------------------------------
(* Codes and sessions.                                                     *)

Reusable(a) == \E c \in StaffCodes : /\ staffCode[c].state = "open" /\ staffCode[c].admin = a
                                /\ staffCode[c].attempts < MaxAttempts

AsksForCode(q, a) ==
  /\ OnDuty(a) /\ ~Reusable(a)
  /\ Starts(q, [kind |-> "code", admin |-> a, fresh |-> TRUE])
  /\ UNCHANGED <<member, role, staffCode, seats, raced>>

CreateChallenge(q, c) ==
  /\ request[q].kind = "code" /\ staffCode[c].state = "none"
  /\ staffCode' = [staffCode EXCEPT ![c] = [state |-> "open", admin |-> request[q].admin, attempts |-> 0]]
  /\ Gives(q)
  /\ UNCHANGED <<member, role, seats, raced>>

(* A plausible slip, for a mutant of Usable.                                *)
Unlimited(c) == staffCode[c].state = "open"
Usable(c) == staffCode[c].state = "open" /\ staffCode[c].attempts < MaxAttempts

(* login() up to the comparison of the code; right: the guess was right.   *)
LoginReads(q, c, right) ==
  /\ Usable(c)
  /\ Starts(q, [kind |-> IF right THEN "login" ELSE "wrong", code |-> c, fresh |-> TRUE])
  /\ UNCHANGED <<member, role, staffCode, seats, raced>>

(* Guesses that were let in together are counted past the limit: at most   *)
(* one more for each request.                                              *)
RecordFailedAttempt(q) ==
  /\ request[q].kind = "wrong"
  /\ staffCode' = [staffCode EXCEPT ![request[q].code].attempts = @ + 1]
  /\ Gives(q)
  /\ UNCHANGED <<member, role, seats, raced>>

(* completeLogin: the update of the code, which is conditional, and the    *)
(* reading of the account.  Returning null does not roll the code back.    *)
ConsumeChallenge(q) ==
  LET c == request[q].code
      a == staffCode[c].admin
  IN /\ request[q].kind = "login"
     /\ IF Usable(c)
        THEN /\ staffCode' = [staffCode EXCEPT ![c].state = "used"]
             /\ IF OnDuty(a)
                THEN request' = [request EXCEPT ![q].kind = "session", ![q].fresh = TRUE]
                ELSE Gives(q)
        ELSE Gives(q) /\ UNCHANGED staffCode
     /\ UNCHANGED <<member, role, seats, raced>>

CreateSession(q) ==
  LET c == request[q].code
  IN /\ request[q].kind = "session"
     /\ seats' = seats \cup {[admin |-> staffCode[c].admin, code |-> c, by |-> q]}
     /\ raced' = (raced \/ ~request[q].fresh)
     /\ Gives(q)
     /\ UNCHANGED <<member, role, staffCode>>

(* Logging out, or the end of a session's days.                            *)
SessionEnds(s) == /\ s \in seats /\ seats' = seats \ {s}
                  /\ UNCHANGED <<member, role, staffCode, request, raced>>

CodeExpires(c) == /\ staffCode[c].state = "open" /\ staffCode' = [staffCode EXCEPT ![c].state = "expired"]
                  /\ UNCHANGED <<member, role, seats, request, raced>>

-----------------------------------------------------------------------------
(* Accounts.                                                               *)

(* A plausible slip, for a mutant of OtherActiveOwners.                     *)
ActiveOwners(a) == {b \in Admins : OnDuty(b) /\ OwnerRole \in member[b].roles \cap ActiveRoles}
OtherActiveOwners(a) ==
  {b \in Admins \ {a} : OnDuty(b) /\ OwnerRole \in member[b].roles \cap ActiveRoles}

(* protectFinalOwner lets the change pass.                                 *)
OwnerProtected(a, next) ==
  \/ OwnerRole \notin member[a].roles \/ ~OnDuty(a)
  \/ OwnerRole \in next \cap ActiveRoles
  \/ OtherActiveOwners(a) # {}

(* A request to write account b and the fields it will write.              *)
Writes(q, kind, b, status, roles) ==
  Starts(q, [kind |-> kind, admin |-> b, status |-> status, roles |-> roles, fresh |-> TRUE])

ReadForCreate(q, actor, b, roles) ==
  /\ Permitted(actor, "admin-accounts:write")
  /\ member[b].status = "NONE"
  /\ roles # {} /\ roles \subseteq ActiveRoles
  /\ Writes(q, "create", b, "INVITED", roles)
  /\ UNCHANGED <<member, role, staffCode, seats, raced>>

ReadForUpdate(q, actor, b, roles) ==
  /\ Permitted(actor, "admin-accounts:write")
  /\ member[b].status # "NONE"
  /\ roles # {} /\ roles \subseteq ActiveRoles
  /\ b = actor => roles = member[b].roles
  /\ OwnerProtected(b, roles)
  /\ Writes(q, "update", b, "ACTIVE", roles)
  /\ UNCHANGED <<member, role, staffCode, seats, raced>>

(* A plausible slip, for a mutant of ReadForStatus.                         *)
AnyStatus(q, actor, b, status) ==
  /\ Permitted(actor, "admin-accounts:write")
  /\ member[b].status # "NONE"
  /\ b = actor => status = "ACTIVE"
  /\ status # "ACTIVE" => OwnerProtected(b, {})
  /\ Writes(q, "status", b, status, {})
  /\ UNCHANGED <<member, role, staffCode, seats, raced>>

ReadForStatus(q, actor, b, status) ==
  /\ Permitted(actor, "admin-accounts:write")
  /\ member[b].status # "NONE"
  /\ b = actor => status = "ACTIVE"
  /\ status # "ACTIVE" => OwnerProtected(b, {})
  /\ member[b].status = "REVOKED" => status = "REVOKED"
  /\ Writes(q, "status", b, status, {})
  /\ UNCHANGED <<member, role, staffCode, seats, raced>>

(* The foreign key of AdminUserRole: a role that is gone aborts the write. *)
Assignable(rs) == \A r \in rs : role[r].state # "absent"

CommitCreate(q) ==
  LET b == request[q].admin
  IN /\ request[q].kind = "create"
     /\ IF member[b].status = "NONE" /\ Assignable(request[q].roles)
        THEN /\ member' = [member EXCEPT ![b] = [status |-> "INVITED", roles |-> request[q].roles]]
             /\ Commits(q)
        ELSE Gives(q) /\ UNCHANGED <<member, raced>>
     /\ UNCHANGED <<role, staffCode, seats>>

CommitUpdate(q) ==
  /\ request[q].kind = "update"
  /\ IF Assignable(request[q].roles)
     THEN /\ member' = [member EXCEPT ![request[q].admin].roles = request[q].roles]
          /\ Commits(q)
     ELSE Gives(q) /\ UNCHANGED <<member, raced>>
  /\ UNCHANGED <<role, staffCode, seats>>

(* A plausible slip, for a mutant of SeatsLeft.                             *)
KeepsSeats(b, status) == IF status = "REVOKED" THEN {s \in seats : s.admin # b} ELSE seats
SeatsLeft(b, status) == IF status = "ACTIVE" THEN seats ELSE {s \in seats : s.admin # b}

CommitStatus(q) ==
  LET b == request[q].admin
  IN /\ request[q].kind = "status"
     /\ member' = [member EXCEPT ![b].status = request[q].status]
     /\ seats' = SeatsLeft(b, request[q].status)
     /\ Commits(q)
     /\ UNCHANGED <<role, staffCode>>

RevokeSessions(actor, b) ==
  /\ Permitted(actor, "admin-sessions:revoke")
  /\ member[b].status # "NONE" /\ b # actor
  /\ seats' = {s \in seats : s.admin # b}
  /\ UNCHANGED <<member, role, staffCode, request, raced>>

-----------------------------------------------------------------------------
(* Roles.                                                                  *)

Holders(r) == {a \in Admins : r \in member[a].roles}

(* protectRole lets the change pass.                                       *)
RoleOpen(actor, r) == r # OwnerRole /\ r \notin member[actor].roles \cap ActiveRoles

WritesRole(q, kind, r, state, permissions) ==
  Starts(q, [kind |-> kind, role |-> r, state |-> state, permissions |-> permissions,
             fresh |-> TRUE])

ReadForNewRole(q, actor, r, permissions) ==
  /\ Permitted(actor, "roles:write") /\ role[r].state = "absent"
  /\ WritesRole(q, "newRole", r, "active", permissions)
  /\ UNCHANGED <<member, role, staffCode, seats, raced>>

ReadForRole(q, actor, r, state, permissions) ==
  /\ Permitted(actor, "roles:write") /\ role[r].state # "absent"
  /\ RoleOpen(actor, r)
  /\ state = "inactive" => Holders(r) = {}
  /\ WritesRole(q, "role", r, state, permissions)
  /\ UNCHANGED <<member, role, staffCode, seats, raced>>

ReadForRemoval(q, actor, r) ==
  /\ Permitted(actor, "roles:write") /\ role[r].state # "absent"
  /\ RoleOpen(actor, r) /\ r \notin Builtin
  /\ Holders(r) = {}
  /\ WritesRole(q, "removal", r, "absent", {})
  /\ UNCHANGED <<member, role, staffCode, seats, raced>>

(* Unique code, row that must exist, and the key that restricts deletion.  *)
RoleWritable(k, r) ==
  \/ k = "newRole" /\ role[r].state = "absent"
  \/ k = "role" /\ role[r].state # "absent"
  \/ k = "removal" /\ role[r].state # "absent" /\ Holders(r) = {}

CommitRole(q) ==
  LET r == request[q].role
  IN /\ request[q].kind \in {"newRole", "role", "removal"}
     /\ IF RoleWritable(request[q].kind, r)
        THEN /\ role' = [role EXCEPT ![r] = [state |-> request[q].state,
                                             permissions |-> request[q].permissions]]
             /\ Commits(q)
        ELSE Gives(q) /\ UNCHANGED <<role, raced>>
     /\ UNCHANGED <<member, staffCode, seats>>

-----------------------------------------------------------------------------
AccountRequest(q, actor) ==
  \E b \in Admins :
    \/ \E rs \in SUBSET Roles : ReadForCreate(q, actor, b, rs) \/ ReadForUpdate(q, actor, b, rs)
    \/ \E s \in {"ACTIVE", "SUSPENDED", "REVOKED"} : ReadForStatus(q, actor, b, s)

RoleRequest(q, actor) ==
  \E r \in Roles :
    \/ \E ps \in Grants :
         \/ ReadForNewRole(q, actor, r, ps)
         \/ \E s \in {"active", "inactive"} : ReadForRole(q, actor, r, s, ps)
    \/ ReadForRemoval(q, actor, r)

LoginStep(q) ==
  \/ \E a \in Admins : AsksForCode(q, a)
  \/ \E c \in StaffCodes : CreateChallenge(q, c) \/ \E right \in BOOLEAN : LoginReads(q, c, right)
  \/ RecordFailedAttempt(q) \/ ConsumeChallenge(q) \/ CreateSession(q)

AdminNext ==
  \/ \E q \in Handlers :
       \/ LoginStep(q)
       \/ \E actor \in Admins : AccountRequest(q, actor) \/ RoleRequest(q, actor)
       \/ CommitCreate(q) \/ CommitUpdate(q) \/ CommitStatus(q) \/ CommitRole(q)
  \/ \E actor, b \in Admins : RevokeSessions(actor, b)
  \/ \E s \in seats : SessionEnds(s)
  \/ \E c \in StaffCodes : CodeExpires(c)

AdminSpec == AdminInit /\ [][AdminNext]_avars

-----------------------------------------------------------------------------
(* Every row has the values its columns allow; codes are owned by someone  *)
(* who existed when they were sent, and counted at most one guess beyond   *)
(* the limit for each request that may run at a time.                      *)
AdminTypeOK ==
  /\ member \in [Admins -> [status : AdminStatus, roles : SUBSET Roles]]
  /\ role \in [Roles -> [state : RoleState, permissions : SUBSET Permissions]]
  /\ staffCode \in [StaffCodes -> [state : CodeState, admin : Admins,
                         attempts : 0 .. MaxAttempts + Cardinality(Handlers) - 1]]
  /\ seats \subseteq [admin : Admins, code : StaffCodes, by : Handlers]
  /\ DOMAIN request = Handlers
  /\ raced \in BOOLEAN

(* As long as no change was committed on checks that another change had    *)
(* overtaken, an ACTIVE account holds the owner role, and that role grants *)
(* everything: nobody locks the staff out of the administration            *)
(* (protectFinalOwner, protectRole, the rules about one's own account).    *)
OwnerRemains ==
  raced \/ \E a \in Admins : OnDuty(a) /\ OwnerRole \in member[a].roles /\ MayDo(a) = Permissions

(* The same without the condition: what docs/admin-console-requirements.md *)
(* and docs/development-plan.md promise ("the last Owner cannot be         *)
(* disabled or removed").  Two owners who suspend each other at the same   *)
(* time leave none.                                                        *)
OwnerAlwaysRemains == \E a \in Admins : OnDuty(a) /\ OwnerRole \in member[a].roles

(* One code opens one session, however many logins present it at a time.   *)
CodeUsedOnce == \A s, t \in seats : s.code = t.code => s = t

(* A role that somebody holds exists whatever is overtaken (the foreign    *)
(* keys), and is active unless a change was committed on overtaken checks. *)
HeldRolesExist ==
  \A a \in Admins : /\ \A r \in member[a].roles : role[r].state # "absent"
                    /\ raced \/ member[a].roles \subseteq ActiveRoles

(* Sessions belong to ACTIVE accounts unless a login or a change was       *)
(* overtaken: suspending and revoking delete them, and none appears later. *)
SessionsOfActive == raced \/ \A s \in seats : OnDuty(s.admin)

(* The staff's rows agree with each other: codes with sessions, accounts   *)
(* with roles, sessions with accounts.                                     *)
StaffInOrder == CodeUsedOnce /\ HeldRolesExist /\ SessionsOfActive

(* A revoked account is never anything else again, unless a change of its  *)
(* status was decided before it was revoked.                               *)
RevokedForGood ==
  [][\A a \in Admins : member[a].status = "REVOKED" => member'[a].status = "REVOKED" \/ raced']_avars
=============================================================================
