------------------------------ MODULE QuotaBook ------------------------------
(***************************************************************************)
(* What the generation pipeline promises about credits, without queue,     *)
(* workers or requests: a task's price is reserved once, and then either   *)
(* consumed once or released once, for good.  A user's balance is never a  *)
(* running total of its own: it is what the phases of his tasks say.       *)
(***************************************************************************)
EXTENDS Integers, FiniteSets

CONSTANTS
  Users,
  Tasks,
  Owner,          (* Owner[t]: the user who pays for task t.              *)
  Cost,           (* Cost[t]: the credits task t is priced at.            *)
  MaxCost,        (* The price of the most expensive task there can be.   *)
  InitialQuota    (* Credits granted to an account when it is opened.     *)

ASSUME BookAssumption ==
  /\ IsFiniteSet(Tasks)
  /\ MaxCost \in Nat
  /\ InitialQuota \in Nat
  /\ Owner \in [Tasks -> Users]
  /\ Cost \in [Tasks -> 1..MaxCost]

VARIABLES
  phase,          (* phase[t]: what became of task t's price.             *)
  granted,        (* The users whose account has been opened.             *)
  account         (* account[u]: the balance shown to user u.             *)

bookVars == <<phase, granted, account>>

Phases == {"unpriced", "reserved", "consumed", "released"}

(* The credits of the tasks in S, one token per credit. *)
Units(S) == {x \in Tasks \X (1..MaxCost) : x[1] \in S /\ x[2] <= Cost[x[1]]}

(* The tasks of user u whose price is in phase p, under the phases ph. *)
OfUser(u, ph, p) == {t \in Tasks : Owner[t] = u /\ ph[t] = p}

Grant(u, gr) == IF u \in gr THEN InitialQuota ELSE 0

(* The balance of user u that the phases ph amount to. *)
Statement(u, ph, gr) ==
  LET held  == Cardinality(Units(OfUser(u, ph, "reserved")))
      spent == Cardinality(Units(OfUser(u, ph, "consumed")))
  IN  [total |-> Grant(u, gr),
       available |-> Grant(u, gr) - held - spent,
       reserved |-> held]

BookInit ==
  /\ phase = [t \in Tasks |-> "unpriced"]
  /\ granted = {}
  /\ account = [u \in Users |-> Statement(u, phase, granted)]

(* Task t goes from one phase to another and every balance follows. *)
Move(t, from, to) ==
  /\ phase[t] = from
  /\ phase' = [phase EXCEPT ![t] = to]
  /\ account' = [u \in Users |-> Statement(u, phase', granted')]

OpenAccount(u) ==
  /\ granted' = granted \cup {u}
  /\ account' = [v \in Users |-> Statement(v, phase, granted')]
  /\ UNCHANGED phase

(* Reserving is refused when it would overdraw the account. *)
Reserve(t) ==
  /\ granted' = granted \cup {Owner[t]}
  /\ Statement(Owner[t], phase, granted').available >= Cost[t]
  /\ Move(t, "unpriced", "reserved")

Consume(t) == UNCHANGED granted /\ Move(t, "reserved", "consumed")

Release(t) == UNCHANGED granted /\ Move(t, "reserved", "released")

BookNext ==
  \/ \E u \in Users : OpenAccount(u)
  \/ \E t \in Tasks : Reserve(t) \/ Consume(t) \/ Release(t)

BookSpec == BookInit /\ [][BookNext]_bookVars

-----------------------------------------------------------------------------
(* A price is in one of its phases, and accounts are the users'.           *)
BookTypeOK ==
  /\ phase \in [Tasks -> Phases]
  /\ granted \subseteq Users

=============================================================================
