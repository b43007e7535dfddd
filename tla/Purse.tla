------------------------------- MODULE Purse -------------------------------
(***************************************************************************)
(* What paid billing promises a customer, without orders, codes, ledgers   *)
(* and transactions that overlap: packages of images are his alone, what   *)
(* he asks for is paid with images of open packages and, as far as they do *)
(* not suffice, with cash, exactly at its price and never twice with the   *)
(* same; and cash set aside for a task is given back or kept, once.        *)
(* Images that were drawn do not come back; see ReleasedImagesReturn of    *)
(* PaidBilling.                                                            *)
(***************************************************************************)
EXTENDS Integers, Tally

CONSTANTS
  Payers, TaskKeys,
  Sources,        (* What a package of images may come from.              *)
  Sizes,          (* How many images packages have.                       *)
  TaskUser, Need, (* Whose task t is, and how many images it makes.       *)
  UnitCents,      (* The price of an image without a package.             *)
  GrantCents,
  Nobody

VARIABLES
  holder,         (* holder[s]: who has got package s, or Nobody.         *)
  left,           (* left[s]: how many of its images are left.            *)
  closed,         (* The packages that were refunded.                     *)
  drawn,          (* <<t, s>>: task t has drawn on package s.             *)
  free,           (* free[u]: the cash that u may spend.                  *)
  pledge,         (* pledge[t]: the cash set aside for t ...              *)
  fate            (* ... and what became of it.                           *)

packages == <<holder, left, closed, drawn>>
coins == <<free, pledge, fate>>
purseVars == <<packages, coins>>

PurseInit ==
  /\ holder = [s \in Sources |-> Nobody]
  /\ left = [s \in Sources |-> 0]
  /\ closed = {}
  /\ drawn = {}
  /\ free = [u \in Payers |-> 0]
  /\ pledge = [t \in TaskKeys |-> 0]
  /\ fate = [t \in TaskKeys |-> "none"]

(* An order that was paid, or a code, gives its package to one payer.      *)
Receive(s, u, n) ==
  /\ holder[s] = Nobody
  /\ holder' = [holder EXCEPT ![s] = u]
  /\ left' = [left EXCEPT ![s] = n]
  /\ UNCHANGED <<closed, drawn, coins>>

Close(s) ==
  /\ holder[s] # Nobody
  /\ closed' = closed \cup {s}
  /\ left' = [left EXCEPT ![s] = 0]
  /\ UNCHANGED <<holder, drawn, coins>>

Deposit(u) ==
  /\ free' = [free EXCEPT ![u] = @ + GrantCents]
  /\ UNCHANGED <<packages, pledge, fate>>

SetAside(t, cents) ==
  /\ fate[t] = "none"
  /\ cents <= free[TaskUser[t]]
  /\ free' = [free EXCEPT ![TaskUser[t]] = @ - cents]
  /\ pledge' = [pledge EXCEPT ![t] = cents]
  /\ fate' = [fate EXCEPT ![t] = "pledged"]

(* take[s] images of package s, and cash for the rest of what t needs.     *)
Pay(t, take) ==
  LET from  == {s \in Sources : take[s] > 0}
      cents == (Need[t] - Tally(take)) * UnitCents
  IN  /\ \A s \in from : /\ take[s] <= left[s] /\ s \notin closed
                         /\ holder[s] = TaskUser[t] /\ <<t, s>> \notin drawn
      /\ Tally(take) <= Need[t]
      /\ left' = [s \in Sources |-> left[s] - take[s]]
      /\ drawn' = drawn \cup {<<t, s>> : s \in from}
      /\ IF cents = 0 THEN UNCHANGED coins ELSE SetAside(t, cents)
      /\ UNCHANGED <<holder, closed>>

GiveBack(t) ==
  /\ fate[t] = "pledged"
  /\ free' = [free EXCEPT ![TaskUser[t]] = @ + pledge[t]]
  /\ fate' = [fate EXCEPT ![t] = "returned"]
  /\ UNCHANGED <<packages, pledge>>

Keep(t) ==
  /\ fate[t] = "pledged"
  /\ fate' = [fate EXCEPT ![t] = "kept"]
  /\ UNCHANGED <<packages, free, pledge>>

PurseNext ==
  \/ \E s \in Sources, u \in Payers, n \in Sizes : Receive(s, u, n)
  \/ \E s \in Sources : Close(s)
  \/ \E u \in Payers : Deposit(u)
  \/ \E t \in TaskKeys : \/ \E take \in [Sources -> 0..Need[t]] : Pay(t, take)
                         \/ GiveBack(t) \/ Keep(t)

PurseSpec == PurseInit /\ [][PurseNext]_purseVars

=============================================================================
