------------------------------ MODULE PaidBilling ------------------------------
(***************************************************************************)
(* Plans, orders, payments, redemption codes, entitlements and cash: what  *)
(* the billing repository and the paid part of a task's reservation and    *)
(* settlement do to them.  A transaction of the READ COMMITTED database    *)
(* whose later writes rest on earlier reads is two steps: it takes its     *)
(* readings along in "flight", and what it finds when it writes may have   *)
(* changed.  A transaction whose updates carry their conditions is one.    *)
(***************************************************************************)
EXTENDS Integers, Sequences, FiniteSetsExt, Tally

CONSTANTS
  None, Payers, Plans,
  Orders,         (* Idempotency keys of orders.                          *)
  Codes,          (* Redemption codes.                                    *)
  TaskKeys,       (* Idempotency keys of createTask, one payer's each.    *)
  Events,         (* Event ids of the payment provider.                   *)
  RefundKeys, CashKeys,
  TaskUser, Need, (* Whose task t is, and how many images it makes.       *)
  Images, PriceCents, (* What plan p contains and costs.                  *)
  UnitCents,      (* The price of an image without entitlement.           *)
  GrantCents,     (* What an administrator grants at a time.              *)
  MaxFlight       (* BOUND: transactions under way at once.               *)

(* The rows of the tables, which None is none of.                          *)
OrderRows == [user : Payers, plan : Plans, status : {"PENDING", "PAID", "REFUNDED"},
              refunded : Nat]
CodeRows == [plan : Plans, status : {"ACTIVE", "REDEEMED", "DISABLED"}]
EntitlementRows == [user : Payers, available : Nat, reserved : Nat,
                    status : {"ACTIVE", "REFUNDED"}]
TaskRows == [status : {"ACTIVE", "RELEASE", "CONSUME"}, images : Nat, cents : Nat]

(* Administrators choose the keys of their grants; the other keys of the   *)
(* ledger of cash are made from the key, or the id, of a task.             *)
ASSUME BillingAssumption ==
  /\ TaskUser \in [TaskKeys -> Payers]
  /\ Need \in [TaskKeys -> Nat \ {0}]
  /\ Images \in [Plans -> Nat \ {0}]
  /\ PriceCents \in [Plans -> Nat \ {0}]
  /\ UnitCents \in Nat \ {0} /\ GrantCents \in Nat \ {0} /\ MaxFlight \in Nat
  /\ IsFiniteSet(Orders) /\ IsFiniteSet(Codes) /\ IsFiniteSet(TaskKeys)
  /\ Orders \cap Codes = {}
  /\ CashKeys \cap ({"reserve", "RELEASE", "CONSUME"} \X TaskKeys) = {}
  /\ None \notin Payers \cup TaskKeys
  /\ None \notin OrderRows \cup CodeRows \cup EntitlementRows \cup TaskRows

Sources == Orders \cup Codes

VARIABLES
  plan,           (* plan[p]: none, DRAFT or PUBLISHED.                   *)
  order,          (* order[o]: its row, or None.                          *)
  code,           (* code[c]: its row, or None.                           *)
  event,          (* event[e]: none, PROCESSED or IGNORED.                *)
  refund,         (* refund[r]: the order that was refunded, or None.     *)
  entitlement,    (* entitlement[s]: what order or code s granted.        *)
  shelf,          (* The sources not yet expired, earliest expiry first.  *)
  imageLedger,    (* EntitlementLedgerEntry.                              *)
  cash,           (* cash[u]: the account of u.                           *)
  cashLedger,     (* CashLedgerEntry.                                     *)
  task,           (* task[t]: the paid part of the task's row, or None.   *)
  flight          (* Transactions that have read and not written yet.     *)

shop == <<plan, order, code, event, refund>>
images == <<entitlement, shelf, imageLedger>>
money == <<cash, cashLedger>>
billingVars == <<shop, images, money, task, flight>>

BillingInit ==
  /\ plan = [p \in Plans |-> None]
  /\ order = [o \in Orders |-> None]
  /\ code = [c \in Codes |-> None]
  /\ event = [e \in Events |-> None]
  /\ refund = [r \in RefundKeys |-> None]
  /\ entitlement = [s \in Sources |-> None]
  /\ shelf = <<>>
  /\ imageLedger = {}
  /\ cash = [u \in Payers |-> [available |-> 0, reserved |-> 0]]
  /\ cashLedger = {}
  /\ task = [t \in TaskKeys |-> None]
  /\ flight = {}

(* Idempotency keys are unique in each ledger: a second entry with the     *)
(* same key aborts the transaction that writes it.                         *)
Unused(ledger, key) == \A e \in ledger : e.key # key

AmountOf(entries) == Tally([e \in entries |-> e.amount])

-----------------------------------------------------------------------------
(* Plans, orders and codes.                                                *)

CreatePlan(p) ==
  /\ plan[p] = None
  /\ plan' = [plan EXCEPT ![p] = "DRAFT"]
  /\ UNCHANGED <<order, code, event, refund, images, money, task, flight>>

PublishPlan(p) ==
  /\ plan[p] # None
  /\ plan' = [plan EXCEPT ![p] = "PUBLISHED"]
  /\ UNCHANGED <<order, code, event, refund, images, money, task, flight>>

(* A key that has been used gets the order it was used for. *)
CreateOrder(o, u, p) ==
  /\ order[o] = None
  /\ plan[p] = "PUBLISHED"
  /\ order' = [order EXCEPT ![o] = [user |-> u, plan |-> p, status |-> "PENDING",
                                    refunded |-> 0]]
  /\ UNCHANGED <<plan, code, event, refund, images, money, task, flight>>

CreateRedemptionCodes(C, p) ==
  /\ plan[p] = "PUBLISHED"
  /\ \A c \in C : code[c] = None
  /\ code' = [c \in Codes |->
                IF c \in C THEN [plan |-> p, status |-> "ACTIVE"] ELSE code[c]]
  /\ UNCHANGED <<plan, order, event, refund, images, money, task, flight>>

DisableRedemptionCode(c) ==
  /\ code[c] # None
  /\ code[c].status = "ACTIVE"
  /\ code' = [code EXCEPT ![c].status = "DISABLED"]
  /\ UNCHANGED <<plan, order, event, refund, images, money, task, flight>>

(* Source s grants user u the images of plan p.  How many days a plan is   *)
(* valid decides where on the shelf they go.                               *)
GrantEntitlement(s, u, p, key) ==
  /\ Unused(imageLedger, key)
  /\ entitlement' = [entitlement EXCEPT ![s] =
       [user |-> u, available |-> Images[p], reserved |-> 0, status |-> "ACTIVE"]]
  /\ \E i \in 0..Len(shelf) :
       shelf' = SubSeq(shelf, 1, i) \o <<s>> \o SubSeq(shelf, i + 1, Len(shelf))
  /\ imageLedger' = imageLedger \cup
       {[type |-> "GRANT", source |-> s, task |-> None, amount |-> Images[p], key |-> key]}

(* The update of a code's status carries the condition that it is active,  *)
(* so that of two users who have both read it as active one gets nothing.  *)
ClaimCode(c) ==
  /\ code[c] # None
  /\ code[c].status = "ACTIVE"
  /\ code' = [code EXCEPT ![c].status = "REDEEMED"]

RedeemCode(c, u) ==
  /\ ClaimCode(c)
  /\ GrantEntitlement(c, u, code[c].plan, <<"redemption", c>>)
  /\ UNCHANGED <<plan, order, event, refund, money, task, flight>>

(* The head of the shelf expires. *)
Expire ==
  /\ shelf # <<>>
  /\ shelf' = Tail(shelf)
  /\ UNCHANGED <<shop, entitlement, imageLedger, money, task, flight>>

-----------------------------------------------------------------------------
(* Payments and refunds.                                                   *)

Payable(o, cents) ==
  order[o] # None /\ PriceCents[order[o].plan] = cents /\ order[o].status = "PENDING"

(* An event has been seen before, names an order that can be paid, or is   *)
(* recorded and ignored.                                                   *)
ReadPayment(e, o, cents) ==
  /\ event[e] = None
  /\ IF Payable(o, cents)
     THEN /\ Cardinality(flight) < MaxFlight
          /\ flight' = flight \cup {[op |-> "pay", event |-> e, order |-> o]}
          /\ UNCHANGED event
     ELSE event' = [event EXCEPT ![e] = "IGNORED"] /\ UNCHANGED flight
  /\ UNCHANGED <<plan, order, code, refund, images, money, task>>

(* Mutant: every event has a key of its own.                               *)
NoGrantKey(o, e) == <<"grant", o, e>>

GrantKey(o, e) == <<"grant", o>>

(* The order is updated whatever its status is by now; the unique keys of  *)
(* the entitlement, of its ledger entry and of the event stop a second     *)
(* payment.                                                                *)
CommitPayment(x) ==
  LET o == x.order IN
  /\ x.op = "pay"
  /\ event[x.event] = None
  /\ order' = [order EXCEPT ![o].status = "PAID"]
  /\ GrantEntitlement(o, order[o].user, order[o].plan, GrantKey(o, x.event))
  /\ event' = [event EXCEPT ![x.event] = "PROCESSED"]
  /\ flight' = flight \ {x}
  /\ UNCHANGED <<plan, code, refund, money, task>>

(* All of an order is refunded, while nothing it granted has been used. *)
Refundable(o) ==
  /\ order[o] # None
  /\ order[o].status = "PAID"
  /\ entitlement[o].reserved = 0
  /\ entitlement[o].available = Images[order[o].plan]

ReadRefund(r, o) ==
  /\ refund[r] = None
  /\ Refundable(o)
  /\ Cardinality(flight) < MaxFlight
  /\ flight' = flight \cup {[op |-> "refund", key |-> r, order |-> o]}
  /\ UNCHANGED <<shop, images, money, task>>

(* No write of a refund looks at what it overwrites.  The key of its       *)
(* ledger entry is that of the new refund, so it is always a new one.      *)
CommitRefund(x) ==
  LET o == x.order IN
  /\ x.op = "refund"
  /\ refund[x.key] = None
  /\ refund' = [refund EXCEPT ![x.key] = o]
  /\ entitlement' = [entitlement EXCEPT ![o].available = 0, ![o].status = "REFUNDED"]
  /\ imageLedger' = imageLedger \cup
       {[type |-> "REFUND", source |-> o, task |-> None,
         amount |-> Images[order[o].plan], key |-> <<"refund", x.key>>]}
  /\ order' = [order EXCEPT ![o].refunded = PriceCents[order[o].plan],
                            ![o].status = "REFUNDED"]
  /\ flight' = flight \ {x}
  /\ UNCHANGED <<plan, code, event, shelf, money, task>>

-----------------------------------------------------------------------------
(* Cash.                                                                   *)

CashEntry(type, u, key, amount) ==
  [type |-> type, user |-> u, amount |-> amount, key |-> key]

(* Mutant: the update carries no condition on the balance.                 *)
MovesUnchecked(u, key, available, reserved) ==
  /\ Unused(cashLedger, key)
  /\ cash' = [cash EXCEPT ![u].available = @ + available, ![u].reserved = @ + reserved]

(* The condition on the balance is part of the update, and a key is        *)
(* written once.                                                           *)
CashMoves(u, key, available, reserved) ==
  /\ Unused(cashLedger, key)
  /\ cash[u].available + available >= 0
  /\ cash[u].reserved + reserved >= 0
  /\ cash' = [cash EXCEPT ![u].available = @ + available, ![u].reserved = @ + reserved]

GrantCash(u, k) ==
  /\ CashMoves(u, k, GrantCents, 0)
  /\ cashLedger' = cashLedger \cup {CashEntry("GRANT", u, k, GrantCents)}
  /\ UNCHANGED <<shop, images, task, flight>>

-----------------------------------------------------------------------------
(* Reservations: createTask's reservePaidBilling.                          *)

(* The places on the shelf that images of user u can be taken from.        *)
Candidates(u) ==
  {i \in DOMAIN shelf : /\ entitlement[shelf[i]].user = u
                        /\ entitlement[shelf[i]].status = "ACTIVE"
                        /\ entitlement[shelf[i]].available > 0}

AvailableIn(places) == Tally([i \in places |-> entitlement[shelf[i]].available])

(* What n images take from each source, the first to expire first. *)
Takes(u, n) ==
  LET Before(i) == AvailableIn({j \in Candidates(u) : j < i})
      From(i) == Max({0, Min({entitlement[shelf[i]].available, n - Before(i)})})
  IN  [s \in Sources |->
         IF \E i \in Candidates(u) : shelf[i] = s
         THEN From(CHOOSE i \in Candidates(u) : shelf[i] = s)
         ELSE 0]

(* Mutant: the last image is given away.                                   *)
OneFree(t) ==
  LET n == Min({AvailableIn(Candidates(TaskUser[t])), Need[t]})
  IN  [op |-> "reserve", task |-> t, take |-> Takes(TaskUser[t], n), images |-> n,
       cents |-> Max({0, Need[t] - n - 1}) * UnitCents]

(* Entitlements pay for as many images as there are, cash for the rest. *)
Allocation(t) ==
  LET n == Min({AvailableIn(Candidates(TaskUser[t])), Need[t]})
  IN  [op |-> "reserve", task |-> t, take |-> Takes(TaskUser[t], n), images |-> n,
       cents |-> (Need[t] - n) * UnitCents]

ReadAllocation(t) ==
  LET a == Allocation(t) IN
  /\ task[t] = None
  /\ cash[TaskUser[t]].available >= a.cents
  /\ Cardinality(flight) < MaxFlight
  /\ flight' = flight \cup {a}
  /\ UNCHANGED <<shop, images, money, task>>

Taken(x) == {s \in Sources : x.take[s] > 0}

ReserveEntry(x, s) ==
  [type |-> "RESERVE", source |-> s, task |-> None, amount |-> x.take[s],
   key |-> <<"reserve", x.task, s>>]

(* Mutant: whether the images are still there is not asked again.          *)
TakeAnyway(x) ==
  /\ \A s \in Taken(x) : Unused(imageLedger, ReserveEntry(x, s).key)
  /\ entitlement' = [s \in Sources |->
       IF s \in Taken(x)
       THEN [entitlement[s] EXCEPT !.available = @ - x.take[s], !.reserved = @ + x.take[s]]
       ELSE entitlement[s]]
  /\ imageLedger' = imageLedger \cup {ReserveEntry(x, s) : s \in Taken(x)}

(* An entitlement that has too few images by now, or is active no more,    *)
(* aborts the reservation; one that has expired by now does not.  The      *)
(* entries name no task.                                                   *)
TakeImages(x) ==
  /\ \A s \in Taken(x) :
       /\ entitlement[s].status = "ACTIVE"
       /\ entitlement[s].available >= x.take[s]
       /\ Unused(imageLedger, ReserveEntry(x, s).key)
  /\ entitlement' = [s \in Sources |->
       IF s \in Taken(x)
       THEN [entitlement[s] EXCEPT !.available = @ - x.take[s], !.reserved = @ + x.take[s]]
       ELSE entitlement[s]]
  /\ imageLedger' = imageLedger \cup {ReserveEntry(x, s) : s \in Taken(x)}

TakeCash(x) ==
  LET u == TaskUser[x.task]
      key == <<"reserve", x.task>>
  IN  IF x.cents = 0 THEN UNCHANGED money
      ELSE /\ CashMoves(u, key, -x.cents, x.cents)
           /\ cashLedger' = cashLedger \cup {CashEntry("RESERVE", u, key, x.cents)}

(* What was reserved is committed with the task, or, when the user's       *)
(* credits do not suffice ("credited" is false), without any task.         *)
CommitReservation(x, credited) ==
  /\ x.op = "reserve"
  /\ task[x.task] = None
  /\ TakeImages(x)
  /\ TakeCash(x)
  /\ task' = [task EXCEPT ![x.task] =
       IF credited THEN [status |-> "ACTIVE", images |-> x.images, cents |-> x.cents]
       ELSE None]
  /\ flight' = flight \ {x}
  /\ UNCHANGED <<shop, shelf>>

(* Every other transaction that finds what it wrote in the way, or whose   *)
(* connection is lost, is rolled back.                                     *)
Abort(x) ==
  /\ flight' = flight \ {x}
  /\ UNCHANGED <<shop, images, money, task>>

-----------------------------------------------------------------------------
(* Settlement: settlePaidBilling, called by whichever transaction ends     *)
(* the task (see GenerationTask), with mode RELEASE or CONSUME.            *)

(* Mutant: consumed cash stays reserved.                                   *)
StaysReserved(t, mode) ==
  LET u == TaskUser[t]
      n == task[t].cents
      back == IF mode = "RELEASE" THEN n ELSE 0
  IN  IF n = 0 THEN UNCHANGED money
      ELSE /\ CashMoves(u, <<mode, t>>, back, -back)
           /\ cashLedger' = cashLedger \cup {CashEntry(mode, u, <<mode, t>>, n)}

SettleCash(t, mode) ==
  LET u == TaskUser[t]
      n == task[t].cents
      key == <<mode, t>>
  IN  IF n = 0 THEN UNCHANGED money
      ELSE /\ CashMoves(u, key, IF mode = "RELEASE" THEN n ELSE 0, -n)
           /\ cashLedger' = cashLedger \cup {CashEntry(mode, u, key, n)}

(* The entitlements to settle are looked up by the task of their entries. *)
Entries(t) == {e \in imageLedger : e.type = "RESERVE" /\ e.task = t}

SettleImages(t, mode) ==
  LET Settled(s) == AmountOf({e \in Entries(t) : e.source = s})
      back == IF mode = "RELEASE" THEN 1 ELSE 0
  IN  /\ \A e \in Entries(t) : entitlement[e.source].reserved >= e.amount
      /\ entitlement' = [s \in Sources |->
           IF entitlement[s] = None THEN None
           ELSE [entitlement[s] EXCEPT !.reserved = @ - Settled(s),
                                       !.available = @ + back * Settled(s)]]
      /\ imageLedger' = imageLedger \cup
           {[e EXCEPT !.type = mode, !.key = <<mode, t, e.source>>] : e \in Entries(t)}

SettlePaidBilling(t, mode) ==
  /\ task[t] # None
  /\ task[t].status = "ACTIVE"
  /\ SettleCash(t, mode)
  /\ SettleImages(t, mode)
  /\ task' = [task EXCEPT ![t].status = mode]
  /\ UNCHANGED <<shop, shelf, flight>>

-----------------------------------------------------------------------------
Shop ==
  \/ \E p \in Plans : CreatePlan(p) \/ PublishPlan(p)
  \/ \E o \in Orders, u \in Payers, p \in Plans : CreateOrder(o, u, p)
  \/ \E C \in (SUBSET Codes) \ {{}}, p \in Plans : CreateRedemptionCodes(C, p)
  \/ \E c \in Codes : DisableRedemptionCode(c)
  \/ \E c \in Codes, u \in Payers : RedeemCode(c, u)
  \/ Expire

Payments ==
  \/ \E e \in Events, o \in Orders, cents \in {PriceCents[p] : p \in Plans} \cup {0} :
       ReadPayment(e, o, cents)
  \/ \E r \in RefundKeys, o \in Orders : ReadRefund(r, o)
  \/ \E u \in Payers, k \in CashKeys : GrantCash(u, k)
  \/ \E x \in flight : CommitPayment(x) \/ CommitRefund(x) \/ Abort(x)

Paying ==
  \/ \E t \in TaskKeys : ReadAllocation(t)
  \/ \E x \in flight, credited \in BOOLEAN : CommitReservation(x, credited)
  \/ \E t \in TaskKeys, mode \in {"RELEASE", "CONSUME"} : SettlePaidBilling(t, mode)

BillingNext == Shop \/ Payments \/ Paying

BillingSpec == BillingInit /\ [][BillingNext]_billingVars

-----------------------------------------------------------------------------
(* Properties.                                                             *)

CashOf(u, type) == AmountOf({e \in cashLedger : e.user = u /\ e.type = type})

ImagesOf(s, type) == AmountOf({e \in imageLedger : e.source = s /\ e.type = type})

(* Every row has the values its columns allow (schema.prisma).             *)
BillingTypeOK ==
  /\ plan \in [Plans -> {None, "DRAFT", "PUBLISHED"}]
  /\ event \in [Events -> {None, "PROCESSED", "IGNORED"}]
  /\ refund \in [RefundKeys -> Orders \cup {None}]
  /\ cash \in [Payers -> [available : Nat, reserved : Nat]]
  /\ order \in [Orders -> OrderRows \cup {None}]
  /\ code \in [Codes -> CodeRows \cup {None}]
  /\ entitlement \in [Sources -> EntitlementRows \cup {None}]
  /\ task \in [TaskKeys -> TaskRows \cup {None}]
  /\ shelf \in Seq(Sources)

(* The two balances of a cash account are what the ledger adds up to,      *)
(* whatever reservations, settlements and grants overlap.                  *)
CashMatchesLedger ==
  \A u \in Payers :
    /\ cash[u].reserved = CashOf(u, "RESERVE") - CashOf(u, "RELEASE") - CashOf(u, "CONSUME")
    /\ cash[u].available + cash[u].reserved = CashOf(u, "GRANT") - CashOf(u, "CONSUME")

(* However many events of the provider claim the same payment, and         *)
(* however many users enter the same code, an order that was paid and a    *)
(* code that was redeemed granted their images once, and no other did.     *)
GrantedOnce ==
  \A s \in Sources :
    LET grants == {e \in imageLedger : e.source = s /\ e.type = "GRANT"}
        earned == IF s \in Orders THEN order[s] # None /\ order[s].status # "PENDING"
                  ELSE code[s] # None /\ code[s].status = "REDEEMED"
    IN  /\ Cardinality(grants) = IF earned THEN 1 ELSE 0
        /\ earned <=> entitlement[s] # None
        /\ s \in Orders /\ earned => entitlement[s].user = order[s].user

(* Reservations that read the same images as available do not both get     *)
(* them: no entitlement is drawn on beyond what was granted, and what an   *)
(* active one has left is the rest.                                        *)
NoImageTwice ==
  \A s \in Sources :
    /\ ImagesOf(s, "RESERVE") <= ImagesOf(s, "GRANT")
    /\ entitlement[s] # None /\ entitlement[s].status = "ACTIVE" =>
         entitlement[s].available = ImagesOf(s, "GRANT") - ImagesOf(s, "RESERVE")

(* A task exists only if every image of it is paid for, by entitlements    *)
(* the ledger shows drawn on for it, or by cash reserved for it.           *)
FullyCovered ==
  \A t \in TaskKeys : task[t] # None =>
    LET drawn == {e \in imageLedger : e.type = "RESERVE" /\ \E s \in Sources : e.key = <<"reserve", t, s>>}
    IN  /\ task[t].images <= AmountOf(drawn)
        /\ task[t].images * UnitCents + task[t].cents = Need[t] * UnitCents
        /\ task[t].cents > 0 =>
             \E e \in cashLedger : e.key = <<"reserve", t>> /\ e.amount = task[t].cents

(* The cash of a task is reserved until it ends; then it is consumed once  *)
(* or given back once, in full, as the task ended.                         *)
CashSettledOnce ==
  \A t \in TaskKeys : task[t] # None /\ task[t].cents > 0 =>
    {<<e.type, e.amount>> : e \in {x \in cashLedger : x.key \in {<<"RELEASE", t>>, <<"CONSUME", t>>}}}
      = IF task[t].status = "ACTIVE" THEN {} ELSE {<<task[t].status, task[t].cents>>}

(* What was refunded is closed: no reservation that has seen an            *)
(* entitlement before its refund draws on it afterwards.                   *)
RefundedIsClosed ==
  [][\A s \in Sources :
       entitlement[s] # None /\ entitlement[s].status = "REFUNDED" =>
         entitlement'[s].status = "REFUNDED" /\ entitlement'[s].reserved <= entitlement[s].reserved]_billingVars

(* A settlement is never refused for want of reserved cash: there is no    *)
(* other way for a task to end.                                            *)
CanAlwaysSettle ==
  \A u \in Payers :
    LET held == {t \in TaskKeys : TaskUser[t] = u /\ task[t] # None /\ task[t].status = "ACTIVE"}
    IN  cash[u].reserved >= Tally([t \in held |-> task[t].cents])

(* What the ledgers of money and of images promise: the cash adds up and   *)
(* is settled once (reserveCash's and settlePaidBilling's balances).       *)
CashIsAccounted == CashMatchesLedger /\ CashSettledOnce

(* What a payer has, for the abstract specification: the packages of his   *)
(* entitlements, the tasks that have drawn on them, his cash, and what of  *)
(* it is set aside for tasks.                                              *)
HolderOf == [s \in Sources |-> IF entitlement[s] = None THEN None ELSE entitlement[s].user]
ImagesLeft == [s \in Sources |-> IF entitlement[s] = None THEN 0 ELSE entitlement[s].available]
Refunded == {s \in Sources : entitlement[s] # None /\ entitlement[s].status = "REFUNDED"}
DrawnOn == {ts \in TaskKeys \X Sources :
              \E e \in imageLedger : e.type = "RESERVE" /\ e.key = <<"reserve", ts[1], ts[2]>>}

CashEntered(kind, t) == {e \in cashLedger : e.key = <<kind, t>>}
FreeCash == [u \in Payers |-> cash[u].available]
Pledged == [t \in TaskKeys |-> AmountOf(CashEntered("reserve", t))]
FateOf == [t \in TaskKeys |->
  CASE CashEntered("reserve", t) = {}  -> "none"
    [] CashEntered("RELEASE", t) # {}  -> "returned"
    [] CashEntered("CONSUME", t) # {}  -> "kept"
    [] OTHER                           -> "pledged"]

Purses == INSTANCE Purse WITH
  Sizes <- {Images[p] : p \in Plans}, Nobody <- None,
  holder <- HolderOf, left <- ImagesLeft, closed <- Refunded, drawn <- DrawnOn,
  free <- FreeCash, pledge <- Pledged, fate <- FateOf

(* However transactions overlap, fail and repeat, each of them does to the *)
(* payers' purses one of the things that Purse allows, or nothing.         *)
ImplementsPurse == Purses!PurseSpec

(* Nothing that was paid for is granted twice, and nothing granted is      *)
(* drawn on twice (the ledger's unique keys, the conditional update).      *)
PaidOnce == GrantedOnce /\ NoImageTwice

(* No image is made for nothing, and no task is kept from ending.          *)
AlwaysCovered == FullyCovered /\ CanAlwaysSettle

(* The images of entitlements that a task had reserved are given back when *)
(* it is released.                                                         *)
ReleasedImagesReturn ==
  \A t \in TaskKeys, s \in Sources :
    /\ task[t] # None /\ task[t].status = "RELEASE"
    /\ \E e \in imageLedger : e.key = <<"reserve", t, s>>
    => \E e \in imageLedger : e.key = <<"RELEASE", t, s>>

=============================================================================
