------------------------------- MODULE MCBooks -------------------------------
(***************************************************************************)
(* The books, each on a small instance: the credits, what tasks buy with   *)
(* entitlements and cash, the prices, and the reconciliation of the        *)
(* credits.  The modules share no variable, so one run tells the story of  *)
(* one of them, chosen at the start; the others keep their initial values. *)
(***************************************************************************)
EXTENDS PaidBilling, Reconciliation, QuotaBook, PriceRules, TLC

CONSTANTS u1, u2, t1, t2, t3, t4, plan1

(* The credits: u1 can pay for any two of his three tasks.                 *)
MCOwner == [t \in Tasks |-> IF t = t4 THEN u2 ELSE u1]
MCCost  == [t \in Tasks |-> IF t = t1 THEN 1 ELSE 2]

(* Paid billing: an order for two images and a code for two, which either  *)
(* of two payers may get, cash for one image each, and two tasks of u1, of *)
(* two images and of one, that compete for what is his.                    *)
MCUser   == [t \in TaskKeys |-> u1]
MCNeed   == t1 :> 2 @@ t2 :> 1
MCImages == plan1 :> 2
MCPrice  == plan1 :> 5

(* The reconciliation: three credits, and tasks that cost two and one.     *)
MCTotalCost == t1 :> 2 @@ t2 :> 1

VARIABLE story

booksVars == <<billingVars, reconciliationVars, bookVars, priceVars, story>>

BooksInit ==
  /\ BillingInit /\ ReconciliationInit /\ BookInit /\ PriceInit
  /\ story \in {"billing", "reconciliation", "credits", "prices"}
  /\ story # "prices" => rules[1].unit = Max(UnitPrices)

BillingStory ==
  /\ story = "billing" /\ BillingNext
  /\ UNCHANGED <<reconciliationVars, bookVars, priceVars, story>>
ReconciliationStory ==
  /\ story = "reconciliation" /\ ReconciliationNext
  /\ UNCHANGED <<billingVars, bookVars, priceVars, story>>
CreditStory ==
  /\ story = "credits" /\ BookNext
  /\ UNCHANGED <<billingVars, reconciliationVars, priceVars, story>>
PriceStory ==
  /\ story = "prices" /\ PriceNext
  /\ UNCHANGED <<billingVars, reconciliationVars, bookVars, story>>
BooksSpec ==
  /\ BooksInit
  /\ [][BillingStory \/ ReconciliationStory \/ CreditStory \/ PriceStory]_booksVars

(* The sets of two share their elements, so that few permutations suffice. *)
MCSymmetry == Permutations(Workers) \cup Permutations(RefundKeys)

(* Every row has the values its columns allow.                             *)
BooksTypeOK ==
  BillingTypeOK /\ ReconciliationTypeOK /\ BookTypeOK /\ PriceTypeOK

==============================================================================
