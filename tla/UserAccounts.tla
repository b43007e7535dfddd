---------------------------- MODULE UserAccounts -----------------------------
(***************************************************************************)
(* The customers: login by one-time code, sessions, the status that the    *)
(* administration, the prompt rules and the deletion of an account set,    *)
(* and the versions of a prompt rule.                                      *)
(*                                                                         *)
(* A request is a few steps; between two of them other requests commit.    *)
(* pending[q].fresh: since q last read, nothing it relies on was changed   *)
(* by another; overtaken: some request has committed although it was.      *)
(***************************************************************************)
EXTENDS Naturals, FiniteSets
CONSTANTS Users, Phones, Gone, Codes, Requests, Keys, Versions, Actions, MaxAttempts
VARIABLES user, code, seats, rule, hit, pending, overtaken

uvars == <<user, code, seats, rule, hit, pending, overtaken>>

RiskAction == {"REJECT", "RESTRICT", "BAN", "MANUAL_REVIEW"}

ASSUME UserAssumption == /\ Gone \notin Phones
                         /\ Actions \subseteq RiskAction
                         /\ Versions \subseteq Nat
                         /\ MaxAttempts \in Nat \ {0} /\ IsFiniteSet(Requests)

UserStatus == {"NONE", "ACTIVE", "RESTRICTED", "BANNED", "DELETED"}
NoHit == "none"
Rest == [kind |-> "rest"]
NoUser == [status |-> "NONE", phone |-> Gone]
NoCode == [state |-> "none", phone |-> Gone, attempts |-> 0]
NoRule == [state |-> "absent", action |-> "REJECT"]

UserInit ==
  /\ user = [u \in Users |-> NoUser]
  /\ code = [c \in Codes |-> NoCode]
  /\ seats = {}
  /\ rule = [v \in Versions |-> NoRule]
  /\ hit = [u \in Users |-> [k \in Keys |-> NoHit]]
  /\ pending = [q \in Requests |-> Rest]
  /\ overtaken = FALSE

Begins(q, r) == pending[q] = Rest /\ pending' = [pending EXCEPT ![q] = r]
Ends(q) == pending' = [pending EXCEPT ![q] = Rest]

(* q's commit is followed by staleness of every request in S.              *)
EndsAndOvertakes(q, S) ==
  /\ overtaken' = (overtaken \/ ~pending[q].fresh)
  /\ pending' = [p \in Requests |-> IF p = q THEN Rest
                                    ELSE IF p \in S THEN [pending[p] EXCEPT !.fresh = FALSE]
                                    ELSE pending[p]]
Overtakes(S) ==
  pending' = [p \in Requests |-> IF p \in S THEN [pending[p] EXCEPT !.fresh = FALSE]
                                 ELSE pending[p]]

(* The requests that have read u's row and rely on it.                     *)
RelyOn(u) == {q \in Requests : pending[q].kind \in {"session", "hit", "upload", "deletion"}
                               /\ pending[q].user = u}

Owner(p) == {u \in Users : user[u].phone = p}
Barred(u) == user[u].status \in {"BANNED", "DELETED"}
SeatsWithout(u) == {s \in seats : s.user # u}

(* requireActiveUser: a session, and the status ACTIVE.                    *)
SignedIn(u) == user[u].status = "ACTIVE" /\ \E s \in seats : s.user = u

-----------------------------------------------------------------------------
(* Codes and sessions.                                                     *)

(* A plausible slip, for a mutant of Valid: wrong guesses are unlimited.   *)
NoLimit(c) == code[c].state = "open"
Valid(c) == code[c].state = "open" /\ code[c].attempts < MaxAttempts

(* sendCode up to creating the challenge; an existing one is sent again.   *)
RequestCode(q, p) ==
  /\ \A u \in Owner(p) : ~Barred(u)
  /\ ~\E c \in Codes : code[c].phone = p /\ Valid(c)
  /\ Begins(q, [kind |-> "code", phone |-> p])
  /\ UNCHANGED <<user, code, seats, rule, hit, overtaken>>

StoreCode(q, c) ==
  /\ pending[q].kind = "code" /\ code[c].state = "none"
  /\ code' = [code EXCEPT ![c] = [state |-> "open", phone |-> pending[q].phone, attempts |-> 0]]
  /\ Ends(q)
  /\ UNCHANGED <<user, seats, rule, hit, overtaken>>

ReadCode(q, c, right) ==
  /\ Valid(c)
  /\ Begins(q, [kind |-> IF right THEN "login" ELSE "wrong", code |-> c])
  /\ UNCHANGED <<user, code, seats, rule, hit, overtaken>>

CountWrongCode(q) ==
  LET c == pending[q].code
  IN /\ pending[q].kind = "wrong"
     /\ code' = IF code[c].state = "deleted" THEN code ELSE [code EXCEPT ![c].attempts = @ + 1]
     /\ Ends(q)
     /\ UNCHANGED <<user, seats, rule, hit, overtaken>>

(* completeLogin: the conditional update of the code, and the upsert of    *)
(* the user of its phone number.  Returning null commits both.             *)
UseCode(q, u) ==
  LET c == pending[q].code
      p == code[c].phone
  IN /\ pending[q].kind = "login"
     /\ IF Valid(c)
        THEN /\ IF Owner(p) # {} THEN u \in Owner(p) ELSE user[u] = NoUser
             /\ code' = [code EXCEPT ![c].state = "used"]
             /\ user' = IF Owner(p) # {} THEN user
                        ELSE [user EXCEPT ![u] = [status |-> "ACTIVE", phone |-> p]]
             /\ IF Barred(u) THEN Ends(q)
                ELSE pending' = [pending EXCEPT ![q] = [kind |-> "session", user |-> u, code |-> c,
                                                        fresh |-> TRUE]]
        ELSE Ends(q) /\ UNCHANGED <<user, code>>
     /\ UNCHANGED <<seats, rule, hit, overtaken>>

OpenSession(q) ==
  /\ pending[q].kind = "session"
  /\ seats' = seats \cup {[user |-> pending[q].user, code |-> pending[q].code, by |-> q]}
  /\ EndsAndOvertakes(q, {})
  /\ UNCHANGED <<user, code, rule, hit>>

Logout(s) == /\ s \in seats /\ seats' = seats \ {s}
             /\ UNCHANGED <<user, code, rule, hit, pending, overtaken>>

CodeLapses(c) == /\ code[c].state = "open" /\ code' = [code EXCEPT ![c].state = "lapsed"]
                 /\ UNCHANGED <<user, seats, rule, hit, pending, overtaken>>

-----------------------------------------------------------------------------
(* The administration changes a status, whatever it is, in one transaction *)
(* and may revoke all sessions.                                            *)
(* A plausible slip, for a mutant of SeatsAfter.                           *)
KeepsAll(u, status) == seats
SeatsAfter(u, status) == IF status = "BANNED" THEN SeatsWithout(u) ELSE seats

ChangeStatus(u, status) ==
  /\ user[u].status # "NONE"
  /\ user' = [user EXCEPT ![u].status = status]
  /\ seats' = SeatsAfter(u, status)
  /\ Overtakes(RelyOn(u))
  /\ UNCHANGED <<code, rule, hit, overtaken>>

RevokeUserSessions(u) ==
  /\ user[u].status # "NONE" /\ seats' = SeatsWithout(u)
  /\ UNCHANGED <<user, code, rule, hit, pending, overtaken>>

-----------------------------------------------------------------------------
(* Prompts.  Of the published versions that match, the first by priority   *)
(* decides; which that is depends on the prompt.                           *)
Published == {v \in Versions : rule[v].state = "PUBLISHED"}

InspectPrompt(q, u, k, v) ==
  /\ SignedIn(u) /\ v \in Published
  /\ Begins(q, [kind |-> "hit", user |-> u, key |-> k, action |-> rule[v].action, fresh |-> TRUE])
  /\ UNCHANGED <<user, code, seats, rule, hit, overtaken>>

Penalty(action) == IF action = "BAN" THEN "BANNED" ELSE "RESTRICTED"

(* A plausible slip, for a mutant of Known: looked up by the action too.   *)
KnownSame(r) == hit[r.user][r.key] = r.action /\ r.action = "REJECT"
Known(r) == hit[r.user][r.key] # NoHit

(* recordHitAndApply: one hit for a user and a request id, and with it the *)
(* restriction or the ban, by row id and without regard to the status.     *)
RecordHit(q) ==
  LET r == pending[q]
      u == r.user
  IN /\ r.kind = "hit"
     /\ IF Known(r) THEN Ends(q) /\ UNCHANGED <<user, seats, hit, overtaken>>
        ELSE /\ hit' = [hit EXCEPT ![u][r.key] = r.action]
             /\ IF r.action \in {"RESTRICT", "BAN"}
                THEN /\ user' = [user EXCEPT ![u].status = Penalty(r.action)]
                     /\ seats' = SeatsAfter(u, Penalty(r.action))
                     /\ EndsAndOvertakes(q, RelyOn(u))
                ELSE Ends(q) /\ UNCHANGED <<user, seats, overtaken>>
     /\ UNCHANGED <<code, rule>>

-----------------------------------------------------------------------------
(* Versions of one rule.                                                   *)
CreateRule(v, action) ==
  /\ rule[v].state = "absent"
  /\ \A w \in Versions : w < v => rule[w].state # "absent"
  /\ rule' = [rule EXCEPT ![v] = [state |-> "DRAFT", action |-> action]]
  /\ UNCHANGED <<user, code, seats, hit, pending, overtaken>>

(* publishRule's first update sees the versions published so far; its      *)
(* second one publishes by id.                                             *)
ArchivePublished(q, v) ==
  /\ rule[v].state # "absent"
  /\ Begins(q, [kind |-> "publish", version |-> v, old |-> Published, fresh |-> TRUE])
  /\ UNCHANGED <<user, code, seats, rule, hit, overtaken>>

Archives(r) == r.old

PublishRule(q) ==
  LET r == pending[q]
  IN /\ r.kind = "publish"
     /\ rule' = [w \in Versions |-> IF w = r.version THEN [rule[w] EXCEPT !.state = "PUBLISHED"]
                                    ELSE IF w \in Archives(r) THEN [rule[w] EXCEPT !.state = "ARCHIVED"]
                                    ELSE rule[w]]
     /\ EndsAndOvertakes(q, {p \in Requests : pending[p].kind = "publish"})
     /\ UNCHANGED <<user, code, seats, hit>>

ArchiveRule(v) ==
  /\ rule[v].state # "absent" /\ rule' = [rule EXCEPT ![v].state = "ARCHIVED"]
  /\ UNCHANGED <<user, code, seats, hit, pending, overtaken>>

-----------------------------------------------------------------------------
UserStep ==
  \/ \E q \in Requests :
       \/ \E p \in Phones : RequestCode(q, p)
       \/ \E c \in Codes : StoreCode(q, c) \/ \E right \in BOOLEAN : ReadCode(q, c, right)
       \/ CountWrongCode(q) \/ OpenSession(q) \/ RecordHit(q) \/ PublishRule(q)
       \/ \E u \in Users : UseCode(q, u) \/ \E k \in Keys, v \in Versions : InspectPrompt(q, u, k, v)
       \/ \E v \in Versions : ArchivePublished(q, v)
  \/ \E s \in seats : Logout(s)
  \/ \E c \in Codes : CodeLapses(c)
  \/ \E u \in Users : RevokeUserSessions(u) \/ \E s \in {"ACTIVE", "RESTRICTED", "BANNED"} : ChangeStatus(u, s)
  \/ \E v \in Versions : ArchiveRule(v) \/ \E a \in Actions : CreateRule(v, a)

-----------------------------------------------------------------------------
(* Every row has the values its columns allow; a phone number has at most  *)
(* one user.                                                               *)
UserTypeOK ==
  /\ user \in [Users -> [status : UserStatus, phone : Phones \cup {Gone}]]
  /\ code \in [Codes -> [state : {"none", "open", "used", "lapsed", "deleted"}, phone : Phones \cup {Gone},
                         attempts : 0 .. MaxAttempts + Cardinality(Requests) - 1]]
  /\ seats \subseteq [user : Users, code : Codes, by : Requests]
  /\ rule \in [Versions -> [state : {"absent", "DRAFT", "PUBLISHED", "ARCHIVED"}, action : RiskAction]]
  /\ hit \in [Users -> [Keys -> RiskAction \cup {NoHit}]]
  /\ \A p \in Phones : Cardinality(Owner(p)) <= 1

(* One code opens one session, however many logins present it at a time.   *)
OneSessionPerCode == \A s, t \in seats : s.code = t.code => s = t

(* Banned and deleted users have no session left, and none appears, unless *)
(* a login read the user before.                                           *)
BarredSignedOut == overtaken \/ \A s \in seats : ~Barred(s.user)

(* No automatic restriction without a new hit: repeating a request whose   *)
(* restriction the administration has lifted does not restrict again.      *)
PenaltyHasHit == [][\A q \in Requests : RecordHit(q) /\ user' # user => hit' # hit]_uvars

(* One version of a rule is in force, unless two publications overlapped.  *)
OnePublished == overtaken \/ Cardinality(Published) <= 1

(* Sessions, codes and rules agree, however logins, bans and publications  *)
(* overlap (login, changeStatus, publish).                                 *)
AccountsInOrder == OneSessionPerCode /\ BarredSignedOut /\ OnePublished
=============================================================================
