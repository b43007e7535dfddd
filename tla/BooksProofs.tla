----------------------------- MODULE BooksProofs -----------------------------
(***************************************************************************)
(* What the books of the shop promise: that cash and images are accounted  *)
(* for and nothing is paid twice, whatever is late or fails; that payers'  *)
(* purses change as Purse says only; that there is always a price, however *)
(* many administrators publish; and that a reconciliation makes a repair   *)
(* once, credits and ledger together.                                      *)
(***************************************************************************)
EXTENDS MCBooks, QuotaBookProofs, TallyProofs

-----------------------------------------------------------------------------
(* What is sold, paid and given back (PaidBilling).                        *)

(* Amounts of ledger entries.                                              *)

Priced(ledger) == IsFiniteSet(ledger) /\ \A e \in ledger : e.amount \in Nat

LEMMA AmountType ==
  ASSUME NEW S, Priced(S)
  PROVE  AmountOf(S) \in Nat
<1>1. [e \in S |-> e.amount] \in [S -> Nat] /\ IsFiniteSet(S)
  BY DEF Priced
<1> QED
  BY <1>1, TallyType DEF AmountOf

LEMMA AmountAdd ==
  ASSUME NEW S, Priced(S), NEW e, e \notin S, e.amount \in Nat
  PROVE  /\ Priced(S \cup {e})
         /\ AmountOf(S \cup {e}) = AmountOf(S) + e.amount
<1> DEFINE f == [x \in S |-> x.amount]
           g == [x \in S \cup {e} |-> x.amount]
<1>1. f \in [S -> Nat] /\ g \in [S \cup {e} -> Nat] /\ IsFiniteSet(S)
  BY DEF Priced
<1>2. (\A x \in S : g[x] = f[x]) /\ g[e] = e.amount
  OBVIOUS
<1>3. Tally(g) = Tally(f) + g[e]
  <2> HIDE DEF f, g
  <2> QED
    BY <1>1, <1>2, TallyAdd
<1> QED
  BY <1>2, <1>3, FS_AddElement DEF AmountOf, Priced

LEMMA AmountGrows ==
  ASSUME NEW S, NEW T, Priced(T), S \subseteq T
  PROVE  AmountOf(S) <= AmountOf(T)
<1>1. /\ [e \in S |-> e.amount] \in [S -> Nat]
      /\ [e \in T |-> e.amount] \in [T -> Nat]
      /\ IsFiniteSet(T)
  BY DEF Priced
<1>2. \A x \in S : [e \in S |-> e.amount][x] <= [e \in T |-> e.amount][x]
  BY <1>1
<1> QED
  BY <1>1, <1>2, TallyGrows DEF AmountOf

LEMMA AmountOfNone == AmountOf({}) = 0
BY TallyEmpty DEF AmountOf

LEMMA PricedPart ==
  ASSUME NEW S, NEW T, Priced(T), S \subseteq T
  PROVE  Priced(S)
BY FS_Subset DEF Priced

-----------------------------------------------------------------------------
(* Cash.  An entry is written with a key of its own, and the sums over the *)
(* entries of its user and type grow by its amount.                        *)

Posted(type, u, key, n) ==
  /\ Unused(cashLedger, key)
  /\ cashLedger' = cashLedger \cup {CashEntry(type, u, key, n)}

LEMMA CashPosted ==
  ASSUME Priced(cashLedger), NEW type, NEW u, NEW key, NEW n \in Nat,
         Posted(type, u, key, n)
  PROVE  /\ Priced(cashLedger')
         /\ CashOf(u, type)' = CashOf(u, type) + n
         /\ \A v, ty : v # u \/ ty # type => CashOf(v, ty)' = CashOf(v, ty)
<1> DEFINE e == CashEntry(type, u, key, n)
           Of(led, v, ty) == {x \in led : x.user = v /\ x.type = ty}
<1>1. e.type = type /\ e.user = u /\ e.amount = n /\ e.key = key
  BY DEF CashEntry
<1>2. e \notin cashLedger /\ cashLedger' = cashLedger \cup {e}
  BY <1>1 DEF Posted, Unused
<1>3. \A v, ty : CashOf(v, ty) = AmountOf(Of(cashLedger, v, ty))
  BY DEF CashOf
<1>4. \A v, ty : CashOf(v, ty)' = AmountOf(Of(cashLedger', v, ty))
  BY DEF CashOf, AmountOf
<1>5. Priced(Of(cashLedger, u, type)) /\ e \notin Of(cashLedger, u, type)
  BY <1>2, PricedPart
<1>6. /\ Of(cashLedger', u, type) = Of(cashLedger, u, type) \cup {e}
      /\ \A v, ty : v # u \/ ty # type => Of(cashLedger', v, ty) = Of(cashLedger, v, ty)
  <2> HIDE DEF e
  <2> QED
    BY <1>1, <1>2
<1>7. Priced(cashLedger')
  <2> HIDE DEF e
  <2> QED
    BY <1>1, <1>2, AmountAdd
<1>8. AmountOf(Of(cashLedger, u, type) \cup {e}) = AmountOf(Of(cashLedger, u, type)) + n
  <2> HIDE DEF e, Of
  <2> QED
    BY <1>1, <1>5, AmountAdd
<1>9. AmountOf(Of(cashLedger', u, type)) = AmountOf(Of(cashLedger, u, type)) + n
  BY <1>6, <1>8, Zenon
<1>10. ASSUME NEW v, NEW ty, v # u \/ ty # type
       PROVE  CashOf(v, ty)' = CashOf(v, ty)
  <2>1. Of(cashLedger', v, ty) = Of(cashLedger, v, ty)
    BY <1>6, <1>10
  <2>2. CashOf(v, ty)' = AmountOf(Of(cashLedger', v, ty))
    BY <1>4
  <2>3. CashOf(v, ty) = AmountOf(Of(cashLedger, v, ty))
    BY <1>3
  <2> HIDE DEF Of
  <2> QED
    BY <2>1, <2>2, <2>3
<1> HIDE DEF Of, e
<1> QED
  BY <1>3, <1>4, <1>7, <1>9, <1>10

-----------------------------------------------------------------------------
(* The inductive invariant of paid billing.                                *)

PayRows == [op : {"pay"}, event : Events, order : Orders]
RefundRows == [op : {"refund"}, key : RefundKeys, order : Orders]
ReserveRows == [op : {"reserve"}, task : TaskKeys, take : [Sources -> Nat],
                images : Nat, cents : Nat]

(* What a transaction has read that nothing takes back: the order is       *)
(* there, and was paid if it is to be refunded; what is to be taken was    *)
(* granted, and what it makes of a task is paid for.                       *)
StillTrue(x) ==
  \/ x \in PayRows /\ order[x.order] # None
  \/ x \in RefundRows /\ order[x.order] # None /\ order[x.order].status # "PENDING"
  \/ /\ x \in ReserveRows
     /\ \A s \in Sources : x.take[s] > 0 => entitlement[s] # None
     /\ x.images <= Tally(x.take)
     /\ x.images * UnitCents + x.cents = Need[x.task] * UnitCents

FlightOK == \A x \in flight : StillTrue(x)

(* Whatever stands on the shelf was granted, and stands there once.        *)
ShelfOK ==
  /\ \A i \in DOMAIN shelf : entitlement[shelf[i]] # None
  /\ \A i, j \in DOMAIN shelf : shelf[i] = shelf[j] => i = j

(* The key of an entry tells what it was written for, and a settlement is  *)
(* that of a task that has ended in the same way.                          *)
CashEntryOK(e) ==
  \/ e.type = "GRANT" /\ e.key \in CashKeys
  \/ e.type = "RESERVE" /\ \E t \in TaskKeys : e.key = <<"reserve", t>>
  \/ /\ e.type \in {"RELEASE", "CONSUME"}
     /\ \E t \in TaskKeys : /\ e.key = <<e.type, t>>
                            /\ task[t] # None
                            /\ task[t].status = e.type /\ task[t].cents = e.amount

CashLedgerOK == Priced(cashLedger) /\ \A e \in cashLedger : CashEntryOK(e)

(* A task that has ended has settled its cash.                             *)
CashSettled ==
  \A t \in TaskKeys : task[t] # None /\ task[t].status # "ACTIVE" /\ task[t].cents > 0 =>
    \E e \in cashLedger : e.type = task[t].status /\ e.key = <<task[t].status, t>>

(* No entry names a task, and what was reserved had been granted.          *)
ImageLedgerOK ==
  /\ Priced(imageLedger)
  /\ \A e \in imageLedger : /\ e.task = None
                            /\ e.source \in Sources
                            /\ e.type = "RESERVE" => entitlement[e.source] # None

(* An order that was paid, a code that was redeemed.                       *)
Earned(s) ==
  IF s \in Orders THEN order[s] # None /\ order[s].status # "PENDING"
  ELSE code[s] # None /\ code[s].status = "REDEEMED"

Grants(s) == {e \in imageLedger : e.source = s /\ e.type = "GRANT"}

(* The grant of an order has the key that a second payment would write.    *)
GrantOK(s) ==
  /\ IF Earned(s)
     THEN /\ entitlement[s] # None
          /\ \E e \in Grants(s) :
               Grants(s) = {e} /\ (s \in Orders => e.key = <<"grant", s>>)
     ELSE Grants(s) = {} /\ entitlement[s] = None
  /\ s \in Orders /\ Earned(s) => entitlement[s].user = order[s].user

GrantsOK == \A s \in Sources : GrantOK(s)

CashInv == CashLedgerOK /\ CashSettled /\ CashMatchesLedger /\ CanAlwaysSettle

ImageInv == ImageLedgerOK /\ NoImageTwice

BillingInv ==
  BillingTypeOK /\ FlightOK /\ ShelfOK /\ CashInv /\ ImageInv /\ GrantsOK /\ FullyCovered

-----------------------------------------------------------------------------
(* What is left alone keeps the invariant.                                 *)

LEMMA CashStays ==
  ASSUME CashInv, UNCHANGED <<cash, cashLedger, task>>
  PROVE  CashInv'
<1>1. \A u, type : CashOf(u, type)' = CashOf(u, type)
  BY DEF CashOf, AmountOf
<1>2. CashMatchesLedger'
  BY <1>1 DEF CashInv, CashMatchesLedger
<1>3. CashLedgerOK' /\ CashSettled'
  BY DEF CashInv, CashLedgerOK, CashSettled, Priced, CashEntryOK
<1>4. CanAlwaysSettle'
  BY DEF CashInv, CanAlwaysSettle
<1> QED
  BY <1>2, <1>3, <1>4 DEF CashInv

LEMMA ImagesStay ==
  ASSUME ImageInv, UNCHANGED <<imageLedger, entitlement>>
  PROVE  ImageInv'
<1>1. \A s, type : ImagesOf(s, type)' = ImagesOf(s, type)
  BY DEF ImagesOf, AmountOf
<1> QED
  BY <1>1 DEF ImageInv, ImageLedgerOK, NoImageTwice, Priced

LEMMA FlightStays ==
  ASSUME FlightOK, flight' \subseteq flight,
         \A s \in Sources : entitlement[s] # None => entitlement'[s] # None,
         \A o \in Orders : order[o] # None =>
           /\ order'[o] # None
           /\ order[o].status # "PENDING" => order'[o].status # "PENDING"
  PROVE  FlightOK'
<1> SUFFICES ASSUME NEW x \in flight PROVE StillTrue(x)'
  BY DEF FlightOK
<1>1. StillTrue(x)
  BY DEF FlightOK
<1>2. CASE x \in PayRows /\ order[x.order] # None
  BY <1>2 DEF StillTrue, PayRows
<1>3. CASE x \in RefundRows /\ order[x.order] # None /\ order[x.order].status # "PENDING"
  BY <1>3 DEF StillTrue, RefundRows
<1>4. CASE /\ x \in ReserveRows
           /\ \A s \in Sources : x.take[s] > 0 => entitlement[s] # None
           /\ x.images <= Tally(x.take)
           /\ x.images * UnitCents + x.cents = Need[x.task] * UnitCents
  BY <1>4 DEF StillTrue
<1> QED
  BY <1>1, <1>2, <1>3, <1>4 DEF StillTrue

LEMMA ShelfStays ==
  ASSUME ShelfOK, UNCHANGED shelf, BillingTypeOK,
         \A s \in Sources : entitlement[s] # None => entitlement'[s] # None
  PROVE  ShelfOK'
BY DEF ShelfOK, BillingTypeOK

Drawn(t) == {e \in imageLedger :
               e.type = "RESERVE" /\ \E s \in Sources : e.key = <<"reserve", t, s>>}

Covered(t) ==
  /\ task[t].images <= AmountOf(Drawn(t))
  /\ task[t].images * UnitCents + task[t].cents = Need[t] * UnitCents
  /\ task[t].cents > 0 =>
       \E e \in cashLedger : e.key = <<"reserve", t>> /\ e.amount = task[t].cents

LEMMA CoveredAll ==
  /\ FullyCovered <=> \A t \in TaskKeys : task[t] # None => Covered(t)
  /\ FullyCovered' <=> \A t \in TaskKeys : task'[t] # None => Covered(t)'
BY DEF FullyCovered, Covered, Drawn

(* What a task draws on stays drawn on, whatever else is entered.          *)
LEMMA CoveredStays ==
  ASSUME NEW t \in TaskKeys, Covered(t), task[t] \in TaskRows,
         task'[t] # None, task'[t].images = task[t].images, task'[t].cents = task[t].cents,
         Priced(imageLedger), Priced(imageLedger'),
         imageLedger \subseteq imageLedger', cashLedger \subseteq cashLedger'
  PROVE  Covered(t)'
<1>1. Drawn(t) \subseteq Drawn(t)'
  BY DEF Drawn
<1>2. Priced(Drawn(t)) /\ Priced(Drawn(t)')
  BY PricedPart DEF Drawn
<1>3. AmountOf(Drawn(t)) <= AmountOf(Drawn(t)')
  BY <1>1, <1>2, AmountGrows
<1>4. AmountOf(Drawn(t)) \in Nat /\ AmountOf(Drawn(t)') \in Nat
  BY <1>2, AmountType
<1>5. AmountOf(Drawn(t))' = AmountOf(Drawn(t)')
  BY DEF AmountOf
<1>6. task[t].images \in Nat
  BY DEF TaskRows
<1> QED
  BY <1>3, <1>4, <1>5, <1>6 DEF Covered

LEMMA CoverStays ==
  ASSUME FullyCovered, BillingTypeOK, UNCHANGED task,
         Priced(imageLedger), Priced(imageLedger'),
         imageLedger \subseteq imageLedger', cashLedger \subseteq cashLedger'
  PROVE  FullyCovered'
<1> SUFFICES ASSUME NEW t \in TaskKeys, task'[t] # None
             PROVE  Covered(t)'
  BY CoveredAll
<1>1. Covered(t) /\ task[t] \in TaskRows
  BY CoveredAll DEF BillingTypeOK
<1> QED
  BY <1>1, CoveredStays

-----------------------------------------------------------------------------
(* Images.  An entry adds its amount to what the ledger says of its source *)
(* and type, and to nothing else.                                          *)

LEMMA ImagesSame ==
  ASSUME NEW N, imageLedger' = imageLedger \cup N, NEW s, NEW type,
         \A e \in N : e.source # s \/ e.type # type
  PROVE  ImagesOf(s, type)' = ImagesOf(s, type)
<1>1. {e \in imageLedger' : e.source = s /\ e.type = type}
        = {e \in imageLedger : e.source = s /\ e.type = type}
  OBVIOUS
<1> QED
  BY <1>1 DEF ImagesOf, AmountOf

LEMMA ImagesMore ==
  ASSUME Priced(imageLedger), NEW N, imageLedger' = imageLedger \cup N, NEW s, NEW type,
         NEW e \in N, e \notin imageLedger, e.amount \in Nat, e.source = s, e.type = type,
         \A f \in N : f.source = s /\ f.type = type => f = e
  PROVE  ImagesOf(s, type)' = ImagesOf(s, type) + e.amount
<1> DEFINE S == {f \in imageLedger : f.source = s /\ f.type = type}
<1>1. {f \in imageLedger' : f.source = s /\ f.type = type} = S \cup {e}
  OBVIOUS
<1>2. Priced(S) /\ e \notin S
  BY PricedPart
<1>3. ImagesOf(s, type) = AmountOf(S)
  BY DEF ImagesOf
<1>4. ImagesOf(s, type)' = AmountOf({f \in imageLedger' : f.source = s /\ f.type = type})
  BY DEF ImagesOf, AmountOf
<1>5. ImagesOf(s, type)' = AmountOf(S \cup {e})
  BY <1>1, <1>4
<1> HIDE DEF S
<1> QED
  BY <1>2, <1>3, <1>5, AmountAdd

LEMMA ImagesType ==
  ASSUME Priced(imageLedger), NEW s, NEW type
  PROVE  ImagesOf(s, type) \in Nat
BY PricedPart, AmountType DEF ImagesOf

(* A place on the shelf for one more source.                               *)
With(q, i, s) == SubSeq(q, 1, i) \o <<s>> \o SubSeq(q, i + 1, Len(q))

LEMMA Inserted ==
  ASSUME NEW T, NEW q \in Seq(T), NEW s \in T, NEW i \in Nat, i <= Len(q)
  PROVE  /\ With(q, i, s) \in Seq(T)
         /\ Len(With(q, i, s)) = Len(q) + 1
         /\ \A j \in 1..(Len(q) + 1) :
              With(q, i, s)[j] = IF j <= i THEN q[j] ELSE IF j = i + 1 THEN s ELSE q[j - 1]
<1> DEFINE a == SubSeq(q, 1, i)
           b == SubSeq(q, i + 1, Len(q))
           c == a \o <<s>>
           n == Len(q)
<1>0. n \in Nat /\ i <= n
  OBVIOUS
<1>1. a \in Seq(T) /\ Len(a) = i /\ \A j \in 1..i : a[j] = q[j]
  OBVIOUS
<1>2. b \in Seq(T) /\ Len(b) = n - i /\ \A j \in 1..(n - i) : b[j] = q[j + i]
  OBVIOUS
<1>3. With(q, i, s) = c \o b
  BY DEF With
<1> HIDE DEF a, b, n
<1>4. c \in Seq(T) /\ Len(c) = i + 1 /\ \A j \in 1..(i + 1) : c[j] = IF j <= i THEN q[j] ELSE s
  BY <1>1
<1> HIDE DEF c
<1> DEFINE r == c \o b
<1>5. r \in Seq(T) /\ Len(r) = n + 1
  <2>1. r \in Seq(T) /\ Len(r) = Len(c) + Len(b)
    <3>1. b \in Seq(T) /\ c \in Seq(T)
      BY <1>2, <1>4
    <3> QED
      BY <3>1
  <2> HIDE DEF r
  <2>2. Len(c) + Len(b) = n + 1
    BY <1>0, <1>2, <1>4
  <2> QED
    BY <2>1, <2>2
<1>6. \A j \in 1..(i + 1) : r[j] = c[j]
  BY <1>0, <1>2, <1>4
<1>7. \A j \in (i + 2)..(n + 1) : r[j] = b[j - (i + 1)]
  BY <1>0, <1>2, <1>4
<1> HIDE DEF r
<1>8. ASSUME NEW j \in 1..(n + 1)
      PROVE  r[j] = IF j <= i THEN q[j] ELSE IF j = i + 1 THEN s ELSE q[j - 1]
  <2>1. CASE j \in 1..(i + 1)
    BY <1>0, <1>4, <1>6, <2>1
  <2>2. CASE j \in (i + 2)..(n + 1)
    <3>1. j - (i + 1) \in 1..(n - i) /\ j - (i + 1) + i = j - 1 /\ ~(j <= i) /\ j # i + 1
      BY <1>0, <2>2
    <3>2. r[j] = q[j - 1]
      BY <1>2, <1>7, <2>2, <3>1
    <3> QED
      BY <3>1, <3>2
  <2> QED
    BY <1>0, <2>1, <2>2
<1> QED
  BY <1>3, <1>5, <1>8 DEF r, n

LEMMA OnTheShelf ==
  ASSUME NEW s \in Sources, NEW i \in Nat, i <= Len(shelf), shelf \in Seq(Sources)
  PROVE  /\ With(shelf, i, s) \in Seq(Sources)
         /\ Len(With(shelf, i, s)) = Len(shelf) + 1
         /\ \A j \in 1..(Len(shelf) + 1) : With(shelf, i, s)[j] =
              IF j <= i THEN shelf[j] ELSE IF j = i + 1 THEN s ELSE shelf[j - 1]
BY Inserted, SMT

(* A grant to a source that had none.                                      *)
LEMMA Granting ==
  ASSUME BillingAssumption, BillingTypeOK, ShelfOK, ImageInv,
         NEW s \in Sources, NEW u \in Payers, NEW p \in Plans, NEW key,
         GrantEntitlement(s, u, p, key), entitlement[s] = None, Grants(s) = {}
  PROVE  /\ ImageInv' /\ ShelfOK' /\ shelf' \in Seq(Sources)
         /\ entitlement' \in [Sources -> EntitlementRows \cup {None}]
         /\ entitlement'[s] # None /\ entitlement'[s].user = u
         /\ \A z \in Sources : z # s => entitlement'[z] = entitlement[z]
         /\ \A z \in Sources : entitlement[z] # None => entitlement'[z] # None
         /\ imageLedger \subseteq imageLedger'
         /\ \E e \in Grants(s)' : Grants(s)' = {e} /\ e.key = key
         /\ \A z \in Sources : z # s => Grants(z)' = Grants(z)
<1> DEFINE row == [user |-> u, available |-> Images[p], reserved |-> 0, status |-> "ACTIVE"]
           g == [type |-> "GRANT", source |-> s, task |-> None, amount |-> Images[p], key |-> key]
<1>1. Images[p] \in Nat
  BY DEF BillingAssumption
<1>2. row \in EntitlementRows /\ row # None /\ row.user = u
  BY <1>1 DEF EntitlementRows, BillingAssumption
<1>3. /\ entitlement' \in [Sources -> EntitlementRows \cup {None}]
      /\ entitlement'[s] = row
      /\ \A z \in Sources : z # s => entitlement'[z] = entitlement[z]
  BY <1>2 DEF GrantEntitlement, BillingTypeOK
<1>4. /\ g.type = "GRANT" /\ g.source = s /\ g.task = None /\ g.amount = Images[p]
      /\ g.key = key
  OBVIOUS
<1>5. imageLedger' = imageLedger \cup {g} /\ g \notin imageLedger
  BY <1>4 DEF GrantEntitlement, Unused
<1>6. row.available = Images[p] /\ row.status = "ACTIVE"
  OBVIOUS
<1> HIDE DEF row, g
<1>7. \A z \in Sources : entitlement[z] # None => entitlement'[z] # None
  BY <1>2, <1>3
<1>8. Grants(s)' = {g} /\ \A z \in Sources : z # s => Grants(z)' = Grants(z)
  BY <1>4, <1>5 DEF Grants
<1>9. ImageLedgerOK'
  <2>1. Priced(imageLedger')
    BY <1>1, <1>4, <1>5, AmountAdd DEF ImageInv, ImageLedgerOK
  <2>2. ASSUME NEW e \in imageLedger'
        PROVE  /\ e.task = None /\ e.source \in Sources
               /\ e.type = "RESERVE" => entitlement'[e.source] # None
    BY <1>4, <1>5, <1>7, <2>2 DEF ImageInv, ImageLedgerOK
  <2> QED
    BY <2>1, <2>2 DEF ImageLedgerOK
<1>10. NoImageTwice'
  <2>1. Priced(imageLedger)
    BY DEF ImageInv, ImageLedgerOK
  <2>2. ASSUME NEW z \in Sources
        PROVE  ImagesOf(z, "RESERVE")' = ImagesOf(z, "RESERVE")
    <3> DEFINE N == {g}
    <3>1. \A e \in N : e.source # z \/ e.type # "RESERVE"
      BY <1>4
    <3>2. imageLedger' = imageLedger \cup N
      BY <1>5
    <3> HIDE DEF N
    <3> QED
      BY <3>1, <3>2, ImagesSame
  <2>3. ASSUME NEW z \in Sources, z # s
        PROVE  ImagesOf(z, "GRANT")' = ImagesOf(z, "GRANT")
    <3> DEFINE N == {g}
    <3>1. \A e \in N : e.source # z \/ e.type # "GRANT"
      BY <1>4, <2>3
    <3>2. imageLedger' = imageLedger \cup N
      BY <1>5
    <3> HIDE DEF N
    <3> QED
      BY <3>1, <3>2, ImagesSame
  <2>4. ImagesOf(s, "RESERVE") = 0
    <3>1. {e \in imageLedger : e.source = s /\ e.type = "RESERVE"} = {}
      BY DEF ImageInv, ImageLedgerOK
    <3> QED
      BY <3>1, AmountOfNone DEF ImagesOf
  <2>5. ImagesOf(s, "GRANT")' = Images[p]
    <3>1. Grants(s)' = {} \cup {g} /\ Priced({}) /\ g \notin {}
      BY <1>8, FS_EmptySet DEF Priced
    <3>2. AmountOf({} \cup {g}) = AmountOf({}) + g.amount
      BY <1>1, <1>4, <3>1, AmountAdd
    <3>3. ImagesOf(s, "GRANT")' = AmountOf(Grants(s)')
      BY DEF ImagesOf, Grants, AmountOf
    <3> QED
      BY <1>1, <1>4, <3>1, <3>2, <3>3, AmountOfNone
  <2> SUFFICES ASSUME NEW z \in Sources
               PROVE  /\ ImagesOf(z, "RESERVE")' <= ImagesOf(z, "GRANT")'
                      /\ entitlement'[z] # None /\ entitlement'[z].status = "ACTIVE" =>
                           entitlement'[z].available = ImagesOf(z, "GRANT")' - ImagesOf(z, "RESERVE")'
    BY DEF NoImageTwice
  <2>6. CASE z = s
    BY <1>1, <1>3, <1>6, <2>2, <2>4, <2>5, <2>6
  <2>7. CASE z # s
    BY <1>3, <2>2, <2>3, <2>7 DEF ImageInv, NoImageTwice
  <2> QED
    BY <2>6, <2>7
<1>11. shelf' \in Seq(Sources) /\ ShelfOK'
  <2>1. PICK i \in 0..Len(shelf) : shelf' = With(shelf, i, s)
    BY DEF GrantEntitlement, With
  <2>2. shelf \in Seq(Sources) /\ i \in Nat /\ i <= Len(shelf) /\ Len(shelf) \in Nat
    BY <2>1 DEF BillingTypeOK
  <2>3. /\ shelf' \in Seq(Sources) /\ Len(shelf') = Len(shelf) + 1
        /\ \A j \in 1..(Len(shelf) + 1) :
             shelf'[j] = IF j <= i THEN shelf[j] ELSE IF j = i + 1 THEN s ELSE shelf[j - 1]
    <3>1. /\ With(shelf, i, s) \in Seq(Sources)
          /\ Len(With(shelf, i, s)) = Len(shelf) + 1
          /\ \A j \in 1..(Len(shelf) + 1) : With(shelf, i, s)[j] =
               IF j <= i THEN shelf[j] ELSE IF j = i + 1 THEN s ELSE shelf[j - 1]
      BY <2>2, OnTheShelf
    <3> QED
      BY <2>1, <3>1
  <2>4. \A j \in 1..Len(shelf) : shelf[j] \in Sources /\ entitlement[shelf[j]] # None
    BY <2>2 DEF ShelfOK
  <2>5. \A j, k \in 1..Len(shelf) : shelf[j] = shelf[k] => j = k
    BY <2>2 DEF ShelfOK
  <2>6. DOMAIN shelf' = 1..(Len(shelf) + 1)
    BY <2>3
  <2>7. ASSUME NEW j \in 1..(Len(shelf) + 1)
        PROVE  \/ j <= i /\ j \in 1..Len(shelf) /\ shelf'[j] = shelf[j]
               \/ j = i + 1 /\ shelf'[j] = s
               \/ j > i + 1 /\ j - 1 \in 1..Len(shelf) /\ shelf'[j] = shelf[j - 1]
    BY <2>2, <2>3
  <2>8. ASSUME NEW j \in 1..(Len(shelf) + 1) PROVE entitlement'[shelf'[j]] # None
    <3>1. CASE j <= i /\ j \in 1..Len(shelf) /\ shelf'[j] = shelf[j]
      BY <1>7, <2>4, <3>1
    <3>2. CASE shelf'[j] = s
      BY <1>2, <1>3, <3>2
    <3>3. CASE j - 1 \in 1..Len(shelf) /\ shelf'[j] = shelf[j - 1]
      BY <1>7, <2>4, <3>3
    <3> QED
      BY <2>7, <3>1, <3>2, <3>3
  <2>9. ASSUME NEW j \in 1..(Len(shelf) + 1), NEW k \in 1..(Len(shelf) + 1), shelf'[j] = shelf'[k]
        PROVE  j = k
    <3>1. \A m \in 1..Len(shelf) : shelf[m] # s
      BY <2>4
    <3> DEFINE At(m) == \/ m <= i /\ m \in 1..Len(shelf) /\ shelf'[m] = shelf[m]
                        \/ m = i + 1 /\ shelf'[m] = s
                        \/ m > i + 1 /\ m - 1 \in 1..Len(shelf) /\ shelf'[m] = shelf[m - 1]
    <3>2. At(j) /\ At(k)
      BY <2>7
    <3>3. i \in Int /\ j \in Int /\ k \in Int
      BY <2>2
    <3>4. CASE j <= i /\ j \in 1..Len(shelf) /\ shelf'[j] = shelf[j]
      BY <2>5, <2>9, <3>1, <3>2, <3>3, <3>4
    <3>5. CASE j = i + 1 /\ shelf'[j] = s
      BY <2>5, <2>9, <3>1, <3>2, <3>3, <3>5
    <3>6. CASE j > i + 1 /\ j - 1 \in 1..Len(shelf) /\ shelf'[j] = shelf[j - 1]
      <4>1. CASE k <= i /\ k \in 1..Len(shelf) /\ shelf'[k] = shelf[k]
        <5>1. j - 1 = k
          BY <2>5, <2>9, <3>6, <4>1
        <5> QED
          BY <3>3, <3>6, <4>1, <5>1
      <4>2. CASE k = i + 1 /\ shelf'[k] = s
        BY <2>9, <3>1, <3>6, <4>2
      <4>3. CASE k > i + 1 /\ k - 1 \in 1..Len(shelf) /\ shelf'[k] = shelf[k - 1]
        <5>1. j - 1 = k - 1
          BY <2>5, <2>9, <3>6, <4>3
        <5> QED
          BY <3>3, <5>1
      <4> QED
        BY <3>2, <4>1, <4>2, <4>3
    <3> QED
      BY <3>2, <3>4, <3>5, <3>6
  <2> QED
    BY <2>3, <2>6, <2>8, <2>9 DEF ShelfOK
<1> QED
  BY <1>2, <1>3, <1>4, <1>5, <1>7, <1>8, <1>9, <1>10, <1>11 DEF ImageInv

LEMMA GrantStays ==
  ASSUME NEW s \in Sources, GrantOK(s), Grants(s)' = Grants(s), Earned(s)' <=> Earned(s),
         entitlement[s] = None => entitlement'[s] = None,
         entitlement[s] # None =>
           entitlement'[s] # None /\ entitlement'[s].user = entitlement[s].user,
         s \in Orders /\ order[s] # None => order'[s].user = order[s].user
  PROVE  GrantOK(s)'
<1>1. GrantOK(s)' <=>
        /\ IF Earned(s)'
           THEN /\ entitlement'[s] # None
                /\ \E e \in Grants(s)' :
                     Grants(s)' = {e} /\ (s \in Orders => e.key = <<"grant", s>>)
           ELSE Grants(s)' = {} /\ entitlement'[s] = None
        /\ s \in Orders /\ Earned(s)' => entitlement'[s].user = order'[s].user
  BY DEF GrantOK
<1>2. s \in Orders /\ Earned(s) => order[s] # None
  BY DEF Earned
<1> QED
  BY <1>1, <1>2 DEF GrantOK

LEMMA GrantsStay ==
  ASSUME GrantsOK, UNCHANGED <<imageLedger, entitlement>>,
         \A s \in Sources : Earned(s)' <=> Earned(s),
         \A s \in Orders : order[s] # None => order'[s].user = order[s].user
  PROVE  GrantsOK'
<1> SUFFICES ASSUME NEW s \in Sources PROVE GrantOK(s)'
  BY DEF GrantsOK
<1>1. GrantOK(s) /\ Grants(s)' = Grants(s)
  BY DEF GrantsOK, Grants
<1>2. Earned(s)' <=> Earned(s)
  OBVIOUS
<1> QED
  BY <1>1, <1>2, GrantStays

-----------------------------------------------------------------------------
(* The steps of the shop.                                                  *)

LEMMA PlanSteps ==
  ASSUME BillingInv, NEW p \in Plans, CreatePlan(p) \/ PublishPlan(p)
  PROVE  BillingInv'
<1>1. UNCHANGED <<order, code, event, refund, images, money, task, flight>>
  BY DEF CreatePlan, PublishPlan
<1>2. UNCHANGED <<entitlement, shelf, imageLedger, cash, cashLedger>>
  BY <1>1 DEF images, money
<1>3. BillingTypeOK'
  BY <1>1, <1>2 DEF CreatePlan, PublishPlan, BillingInv, BillingTypeOK
<1>4. FlightOK'
  BY <1>1, <1>2, FlightStays DEF BillingInv
<1>5. ShelfOK' /\ CashInv' /\ ImageInv'
  BY <1>1, <1>2, ShelfStays, CashStays, ImagesStay DEF BillingInv
<1>6. GrantsOK'
  BY <1>1, <1>2, GrantsStay DEF BillingInv, Earned
<1>7. FullyCovered'
  BY <1>1, <1>2, <1>5, CoverStays DEF BillingInv, ImageInv, ImageLedgerOK
<1> QED
  BY <1>3, <1>4, <1>5, <1>6, <1>7 DEF BillingInv

LEMMA OrderSteps ==
  ASSUME BillingAssumption, BillingInv, NEW o \in Orders, NEW u \in Payers, NEW p \in Plans,
         CreateOrder(o, u, p)
  PROVE  BillingInv'
<1> DEFINE row == [user |-> u, plan |-> p, status |-> "PENDING", refunded |-> 0]
<1>1. UNCHANGED <<plan, code, event, refund, entitlement, shelf, imageLedger, cash, cashLedger,
                  task, flight>>
  BY DEF CreateOrder, images, money
<1>2. row \in OrderRows /\ row.status = "PENDING"
  BY DEF OrderRows
<1>3. /\ order[o] = None /\ order' \in [Orders -> OrderRows \cup {None}]
      /\ order'[o] = row /\ \A z \in Orders : z # o => order'[z] = order[z]
  BY <1>2 DEF CreateOrder, BillingInv, BillingTypeOK
<1> HIDE DEF row
<1>4. BillingTypeOK'
  BY <1>1, <1>3 DEF BillingInv, BillingTypeOK
<1>5. FlightOK'
  BY <1>1, <1>3, FlightStays DEF BillingInv
<1>6. ShelfOK' /\ CashInv' /\ ImageInv'
  BY <1>1, ShelfStays, CashStays, ImagesStay DEF BillingInv
<1>7. GrantsOK'
  <2>1. \A s \in Sources : Earned(s)' <=> Earned(s)
    BY <1>1, <1>2, <1>3 DEF Earned
  <2>2. \A s \in Orders : order[s] # None => order'[s].user = order[s].user
    BY <1>3
  <2> QED
    BY <1>1, <2>1, <2>2, GrantsStay DEF BillingInv
<1>8. FullyCovered'
  BY <1>1, <1>6, CoverStays DEF BillingInv, ImageInv, ImageLedgerOK
<1> QED
  BY <1>4, <1>5, <1>6, <1>7, <1>8 DEF BillingInv

(* Codes are issued and withdrawn; neither redeems one.                    *)
LEMMA CodeSteps ==
  ASSUME BillingAssumption, BillingInv,
         \/ \E C \in SUBSET Codes, p \in Plans : CreateRedemptionCodes(C, p)
         \/ \E c \in Codes : DisableRedemptionCode(c)
  PROVE  BillingInv'
<1>1. UNCHANGED <<plan, order, event, refund, entitlement, shelf, imageLedger, cash, cashLedger,
                  task, flight>>
  BY DEF CreateRedemptionCodes, DisableRedemptionCode, images, money
<1> DEFINE Kept == /\ code' \in [Codes -> CodeRows \cup {None}]
                   /\ \A c \in Codes : code'[c] # None /\ code'[c].status = "REDEEMED"
                                         <=> code[c] # None /\ code[c].status = "REDEEMED"
<1>2. Kept
  <2>0. code \in [Codes -> CodeRows \cup {None}] /\ None \notin CodeRows
    BY DEF BillingInv, BillingTypeOK, BillingAssumption
  <2>1. ASSUME NEW C \in SUBSET Codes, NEW p \in Plans, CreateRedemptionCodes(C, p)
        PROVE  Kept
    <3>1. [plan |-> p, status |-> "ACTIVE"] \in CodeRows
      BY DEF CodeRows
    <3>2. [plan |-> p, status |-> "ACTIVE"].status = "ACTIVE"
      OBVIOUS
    <3>3. \A c \in Codes : code'[c] = IF c \in C THEN [plan |-> p, status |-> "ACTIVE"] ELSE code[c]
      BY <2>1 DEF CreateRedemptionCodes
    <3>4. code' \in [Codes -> CodeRows \cup {None}]
      BY <2>0, <2>1, <3>1 DEF CreateRedemptionCodes
    <3>5. \A c \in C : code[c] = None
      BY <2>1 DEF CreateRedemptionCodes
    <3> QED
      BY <3>2, <3>3, <3>4, <3>5
  <2>2. ASSUME NEW c \in Codes, DisableRedemptionCode(c)
        PROVE  Kept
    <3>1. /\ code[c] \in CodeRows /\ code[c].status = "ACTIVE"
          /\ code' = [code EXCEPT ![c] = [code[c] EXCEPT !.status = "DISABLED"]]
      BY <2>0, <2>2 DEF DisableRedemptionCode
    <3>2. /\ [code[c] EXCEPT !.status = "DISABLED"] \in CodeRows
          /\ [code[c] EXCEPT !.status = "DISABLED"].status = "DISABLED"
      BY <3>1 DEF CodeRows
    <3> QED
      BY <2>0, <3>1, <3>2
  <2> QED
    BY <2>1, <2>2
<1>3. BillingTypeOK'
  BY <1>1, <1>2 DEF BillingInv, BillingTypeOK
<1>4. FlightOK'
  BY <1>1, FlightStays DEF BillingInv
<1>5. ShelfOK' /\ CashInv' /\ ImageInv'
  BY <1>1, ShelfStays, CashStays, ImagesStay DEF BillingInv
<1>6. GrantsOK'
  <2>1. \A s \in Sources : Earned(s)' <=> Earned(s)
    BY <1>1, <1>2 DEF Earned, Sources
  <2> QED
    BY <1>1, <2>1, GrantsStay DEF BillingInv
<1>7. FullyCovered'
  BY <1>1, <1>5, CoverStays DEF BillingInv, ImageInv, ImageLedgerOK
<1> QED
  BY <1>3, <1>4, <1>5, <1>6, <1>7 DEF BillingInv

LEMMA RedeemSteps ==
  ASSUME BillingAssumption, BillingInv, NEW c \in Codes, NEW u \in Payers, RedeemCode(c, u)
  PROVE  BillingInv'
<1>1. UNCHANGED <<plan, order, event, refund, cash, cashLedger, task, flight>>
  BY DEF RedeemCode, money
<1>2. /\ code \in [Codes -> CodeRows \cup {None}] /\ None \notin CodeRows
      /\ c \in Sources /\ c \notin Orders
  BY DEF BillingInv, BillingTypeOK, BillingAssumption, Sources
<1>3. /\ code[c] \in CodeRows /\ code[c].status = "ACTIVE" /\ code[c].plan \in Plans
      /\ code' = [code EXCEPT ![c] = [code[c] EXCEPT !.status = "REDEEMED"]]
  BY <1>2 DEF RedeemCode, ClaimCode, CodeRows
<1>4. /\ [code[c] EXCEPT !.status = "REDEEMED"] \in CodeRows
      /\ [code[c] EXCEPT !.status = "REDEEMED"].status = "REDEEMED"
  BY <1>3 DEF CodeRows
<1>5. /\ code' \in [Codes -> CodeRows \cup {None}] /\ code'[c] # None
      /\ code'[c].status = "REDEEMED" /\ \A d \in Codes : d # c => code'[d] = code[d]
  BY <1>2, <1>3, <1>4
<1>6. ~Earned(c) /\ Earned(c)' /\ \A s \in Sources : s # c => (Earned(s)' <=> Earned(s))
  BY <1>1, <1>2, <1>3, <1>5 DEF Earned, Sources
<1>7. entitlement[c] = None /\ Grants(c) = {}
  BY <1>2, <1>6 DEF BillingInv, GrantsOK, GrantOK
<1>8. /\ ImageInv' /\ ShelfOK' /\ shelf' \in Seq(Sources)
      /\ entitlement' \in [Sources -> EntitlementRows \cup {None}]
      /\ entitlement'[c] # None
      /\ \A z \in Sources : z # c => entitlement'[z] = entitlement[z]
      /\ \A z \in Sources : entitlement[z] # None => entitlement'[z] # None
      /\ imageLedger \subseteq imageLedger'
      /\ \E e \in Grants(c)' : Grants(c)' = {e}
      /\ \A z \in Sources : z # c => Grants(z)' = Grants(z)
  <2>1. GrantEntitlement(c, u, code[c].plan, <<"redemption", c>>)
    BY DEF RedeemCode
  <2>2. PICK p \in Plans : p = code[c].plan
    BY <1>3
  <2>3. GrantEntitlement(c, u, p, <<"redemption", c>>)
    BY <2>1, <2>2
  <2> QED
    BY <1>2, <1>7, <2>3, Granting DEF BillingInv
<1>9. BillingTypeOK'
  BY <1>1, <1>5, <1>8 DEF BillingInv, BillingTypeOK
<1>10. FlightOK'
  BY <1>1, <1>8, FlightStays DEF BillingInv
<1>11. CashInv'
  BY <1>1, CashStays DEF BillingInv
<1>12. GrantsOK'
  <2> SUFFICES ASSUME NEW s \in Sources PROVE GrantOK(s)'
    BY DEF GrantsOK
  <2>1. CASE s = c
    BY <1>2, <1>6, <1>8, <2>1 DEF GrantOK
  <2>2. CASE s # c
    <3>1. GrantOK(s) /\ Grants(s)' = Grants(s) /\ (Earned(s)' <=> Earned(s))
      BY <1>6, <1>8, <2>2 DEF BillingInv, GrantsOK
    <3>2. entitlement'[s] = entitlement[s] /\ order' = order
      BY <1>1, <1>8, <2>2
    <3> QED
      BY <3>1, <3>2, GrantStays
  <2> QED
    BY <2>1, <2>2
<1>13. FullyCovered'
  BY <1>1, <1>8, CoverStays DEF BillingInv, ImageInv, ImageLedgerOK
<1> QED
  BY <1>8, <1>9, <1>10, <1>11, <1>12, <1>13 DEF BillingInv

LEMMA ExpireSteps ==
  ASSUME BillingInv, Expire
  PROVE  BillingInv'
<1>1. UNCHANGED <<plan, order, code, event, refund, entitlement, imageLedger, cash, cashLedger,
                  task, flight>>
  BY DEF Expire, shop, money
<1>2. shelf \in Seq(Sources) /\ shelf # <<>> /\ shelf' = Tail(shelf)
  BY DEF Expire, BillingInv, BillingTypeOK
<1>3. /\ shelf' \in Seq(Sources) /\ Len(shelf') = Len(shelf) - 1
      /\ \A i \in 1..Len(shelf') : shelf'[i] = shelf[i + 1]
  BY <1>2
<1>4. ShelfOK'
  <2>1. ShelfOK /\ Len(shelf) \in Nat /\ DOMAIN shelf = 1..Len(shelf) /\ DOMAIN shelf' = 1..Len(shelf')
    BY <1>2, <1>3 DEF BillingInv
  <2>2. \A i \in DOMAIN shelf' : i + 1 \in DOMAIN shelf /\ shelf'[i] = shelf[i + 1] /\ i \in Int
    BY <1>3, <2>1
  <2>3. \A i \in DOMAIN shelf' : entitlement'[shelf'[i]] # None
    BY <1>1, <2>1, <2>2 DEF ShelfOK
  <2>4. ASSUME NEW i \in DOMAIN shelf', NEW j \in DOMAIN shelf', shelf'[i] = shelf'[j]
        PROVE  i = j
    <3>1. i + 1 = j + 1
      BY <2>1, <2>2, <2>4 DEF ShelfOK
    <3> QED
      BY <2>2, <3>1
  <2> QED
    BY <2>3, <2>4 DEF ShelfOK
<1>5. BillingTypeOK'
  BY <1>1, <1>3 DEF BillingInv, BillingTypeOK
<1>6. FlightOK'
  BY <1>1, FlightStays DEF BillingInv
<1>7. CashInv' /\ ImageInv'
  BY <1>1, CashStays, ImagesStay DEF BillingInv
<1>8. GrantsOK'
  BY <1>1, GrantsStay DEF BillingInv, Earned
<1>9. FullyCovered'
  BY <1>1, <1>7, CoverStays DEF BillingInv, ImageInv, ImageLedgerOK
<1> QED
  BY <1>4, <1>5, <1>6, <1>7, <1>8, <1>9 DEF BillingInv

-----------------------------------------------------------------------------
(* The steps of payments.                                                  *)

(* A transaction that reads, or that is given up, changes nothing else.    *)
LEMMA OnlyReads ==
  ASSUME BillingInv, UNCHANGED <<plan, order, code, refund, entitlement, shelf, imageLedger,
                                 cash, cashLedger, task>>,
         event' \in [Events -> {None, "PROCESSED", "IGNORED"}],
         \A x \in flight' : x \in flight \/ StillTrue(x)
  PROVE  BillingInv'
<1>1. BillingTypeOK'
  BY DEF BillingInv, BillingTypeOK
<1>2. FlightOK'
  <2>1. \A x : StillTrue(x)' <=> StillTrue(x)
    BY DEF StillTrue
  <2> QED
    BY <2>1 DEF BillingInv, FlightOK
<1>3. ShelfOK' /\ CashInv' /\ ImageInv'
  BY ShelfStays, CashStays, ImagesStay DEF BillingInv
<1>4. GrantsOK'
  BY GrantsStay DEF BillingInv, Earned
<1>5. FullyCovered'
  BY <1>3, CoverStays DEF BillingInv, ImageInv, ImageLedgerOK
<1> QED
  BY <1>1, <1>2, <1>3, <1>4, <1>5 DEF BillingInv

LEMMA ReadPaymentSteps ==
  ASSUME BillingInv, NEW e \in Events, NEW o \in Orders, NEW cents, ReadPayment(e, o, cents)
  PROVE  BillingInv'
<1> DEFINE x == [op |-> "pay", event |-> e, order |-> o]
<1>1. UNCHANGED <<plan, order, code, refund, entitlement, shelf, imageLedger, cash, cashLedger, task>>
  BY DEF ReadPayment, images, money
<1>2. event' \in [Events -> {None, "PROCESSED", "IGNORED"}]
  BY DEF ReadPayment, BillingInv, BillingTypeOK
<1>3. ASSUME order[o] # None PROVE StillTrue(x)
  BY <1>3 DEF StillTrue, PayRows
<1>4. \A y \in flight' : y \in flight \/ StillTrue(y)
  BY <1>3 DEF ReadPayment, Payable
<1> QED
  BY <1>1, <1>2, <1>4, OnlyReads

LEMMA ReadRefundSteps ==
  ASSUME BillingInv, NEW r \in RefundKeys, NEW o \in Orders, ReadRefund(r, o)
  PROVE  BillingInv'
<1> DEFINE x == [op |-> "refund", key |-> r, order |-> o]
<1>1. UNCHANGED <<plan, order, code, event, refund, entitlement, shelf, imageLedger, cash, cashLedger, task>>
  BY DEF ReadRefund, shop, images, money
<1>2. event' \in [Events -> {None, "PROCESSED", "IGNORED"}]
  BY <1>1 DEF BillingInv, BillingTypeOK
<1>3. StillTrue(x)
  BY DEF StillTrue, RefundRows, ReadRefund, Refundable
<1>4. \A y \in flight' : y \in flight \/ StillTrue(y)
  BY <1>3 DEF ReadRefund
<1> QED
  BY <1>1, <1>2, <1>4, OnlyReads

LEMMA AbortSteps ==
  ASSUME BillingInv, NEW x \in flight, Abort(x)
  PROVE  BillingInv'
<1>1. UNCHANGED <<plan, order, code, event, refund, entitlement, shelf, imageLedger, cash, cashLedger, task>>
  BY DEF Abort, shop, images, money
<1>2. event' \in [Events -> {None, "PROCESSED", "IGNORED"}]
  BY <1>1 DEF BillingInv, BillingTypeOK
<1>3. \A y \in flight' : y \in flight \/ StillTrue(y)
  BY DEF Abort
<1> QED
  BY <1>1, <1>2, <1>3, OnlyReads

LEMMA CommitPaymentSteps ==
  ASSUME BillingAssumption, BillingInv, NEW x \in flight, CommitPayment(x)
  PROVE  BillingInv'
<1> DEFINE o == x.order
<1>0. x \in PayRows /\ x.event \in Events /\ o \in Orders /\ order[o] # None
  BY DEF BillingInv, FlightOK, StillTrue, CommitPayment, PayRows, RefundRows, ReserveRows
<1>1. UNCHANGED <<plan, code, refund, cash, cashLedger, task>> /\ flight' = flight \ {x}
  BY DEF CommitPayment, money
<1>2. /\ order \in [Orders -> OrderRows \cup {None}] /\ None \notin OrderRows
      /\ o \in Sources /\ o \notin Codes
  BY <1>0 DEF BillingInv, BillingTypeOK, BillingAssumption, Sources
<1>3. /\ order[o] \in OrderRows /\ order[o].plan \in Plans /\ order[o].user \in Payers
      /\ order' = [order EXCEPT ![o] = [order[o] EXCEPT !.status = "PAID"]]
  BY <1>0, <1>2 DEF CommitPayment, OrderRows
<1>4. /\ [order[o] EXCEPT !.status = "PAID"] \in OrderRows
      /\ [order[o] EXCEPT !.status = "PAID"].status = "PAID"
      /\ [order[o] EXCEPT !.status = "PAID"].user = order[o].user
  BY <1>3 DEF OrderRows
<1>5. /\ order' \in [Orders -> OrderRows \cup {None}] /\ order'[o] # None
      /\ order'[o].status = "PAID" /\ order'[o].user = order[o].user
      /\ \A z \in Orders : z # o => order'[z] = order[z]
  BY <1>0, <1>2, <1>3, <1>4
<1>6. PICK u \in Payers, p \in Plans : u = order[o].user /\ p = order[o].plan
  BY <1>3
<1>7. GrantEntitlement(o, u, p, <<"grant", o>>)
  BY <1>6 DEF CommitPayment, GrantKey
<1>8. ~Earned(o)
  BY <1>0, <1>2, <1>7 DEF BillingInv, GrantsOK, GrantOK, Grants, GrantEntitlement, Unused
<1>9. Earned(o)' /\ \A s \in Sources : s # o => (Earned(s)' <=> Earned(s))
  BY <1>0, <1>1, <1>5 DEF Earned
<1>10. entitlement[o] = None /\ Grants(o) = {}
  BY <1>2, <1>8 DEF BillingInv, GrantsOK, GrantOK
<1>11. /\ ImageInv' /\ ShelfOK' /\ shelf' \in Seq(Sources)
       /\ entitlement' \in [Sources -> EntitlementRows \cup {None}]
       /\ entitlement'[o] # None /\ entitlement'[o].user = u
       /\ \A z \in Sources : z # o => entitlement'[z] = entitlement[z]
       /\ \A z \in Sources : entitlement[z] # None => entitlement'[z] # None
       /\ imageLedger \subseteq imageLedger'
       /\ \E e \in Grants(o)' : Grants(o)' = {e} /\ e.key = <<"grant", o>>
       /\ \A z \in Sources : z # o => Grants(z)' = Grants(z)
  <2> HIDE DEF o
  <2> QED
    BY <1>2, <1>7, <1>10, Granting DEF BillingInv
<1>12. BillingTypeOK'
  <2>1. event' \in [Events -> {None, "PROCESSED", "IGNORED"}]
    BY <1>0 DEF CommitPayment, BillingInv, BillingTypeOK
  <2> QED
    BY <1>1, <1>5, <1>11, <2>1 DEF BillingInv, BillingTypeOK
<1>13. FlightOK'
  <2>1. \A z \in Orders : order[z] # None =>
          order'[z] # None /\ (order[z].status # "PENDING" => order'[z].status # "PENDING")
    BY <1>5
  <2> QED
    BY <1>1, <1>11, <2>1, FlightStays DEF BillingInv
<1>14. CashInv'
  BY <1>1, CashStays DEF BillingInv
<1>15. GrantsOK'
  <2> SUFFICES ASSUME NEW s \in Sources PROVE GrantOK(s)'
    BY DEF GrantsOK
  <2>1. CASE s = o
    BY <1>0, <1>5, <1>6, <1>9, <1>11, <2>1 DEF GrantOK
  <2>2. CASE s # o
    <3>1. GrantOK(s) /\ Grants(s)' = Grants(s) /\ (Earned(s)' <=> Earned(s))
      BY <1>9, <1>11, <2>2 DEF BillingInv, GrantsOK
    <3>2. entitlement'[s] = entitlement[s] /\ (s \in Orders => order'[s] = order[s])
      BY <1>5, <1>11, <2>2
    <3> QED
      BY <3>1, <3>2, GrantStays
  <2> QED
    BY <2>1, <2>2
<1>16. FullyCovered'
  BY <1>1, <1>11, CoverStays DEF BillingInv, ImageInv, ImageLedgerOK
<1> QED
  BY <1>11, <1>12, <1>13, <1>14, <1>15, <1>16 DEF BillingInv

LEMMA CommitRefundSteps ==
  ASSUME BillingAssumption, BillingInv, NEW x \in flight, CommitRefund(x)
  PROVE  BillingInv'
<1> DEFINE o == x.order
           g == [type |-> "REFUND", source |-> o, task |-> None,
                 amount |-> Images[order[o].plan], key |-> <<"refund", x.key>>]
           row == [order[o] EXCEPT !.refunded = PriceCents[order[o].plan], !.status = "REFUNDED"]
           none == [entitlement[o] EXCEPT !.available = 0, !.status = "REFUNDED"]
<1>0. /\ x \in RefundRows /\ x.key \in RefundKeys /\ o \in Orders /\ o \in Sources
      /\ order[o] # None /\ order[o].status # "PENDING"
  BY DEF BillingInv, FlightOK, StillTrue, CommitRefund, PayRows, RefundRows, ReserveRows, Sources
<1>1. UNCHANGED <<plan, code, event, shelf, cash, cashLedger, task>> /\ flight' = flight \ {x}
  BY DEF CommitRefund, money
<1>2. /\ order[o] \in OrderRows /\ None \notin OrderRows /\ order[o].plan \in Plans
      /\ order \in [Orders -> OrderRows \cup {None}]
  BY <1>0 DEF BillingInv, BillingTypeOK, BillingAssumption, OrderRows
<1>3. PriceCents[order[o].plan] \in Nat /\ Images[order[o].plan] \in Nat
  BY <1>2 DEF BillingAssumption
<1>4. row \in OrderRows /\ row.status = "REFUNDED" /\ row.user = order[o].user
  BY <1>2, <1>3 DEF OrderRows
<1>5. order' = [order EXCEPT ![o] = row]
  BY <1>0, <1>2 DEF CommitRefund
<1>6. /\ order' \in [Orders -> OrderRows \cup {None}] /\ order'[o] # None
      /\ order'[o].status = "REFUNDED" /\ order'[o].user = order[o].user
      /\ \A z \in Orders : z # o => order'[z] = order[z]
  <2> HIDE DEF row
  <2> QED
    BY <1>0, <1>2, <1>4, <1>5
<1>7. Earned(o)
  BY <1>0 DEF Earned
<1>8. entitlement \in [Sources -> EntitlementRows \cup {None}] /\ None \notin EntitlementRows
      /\ entitlement[o] \in EntitlementRows
  BY <1>0, <1>7 DEF BillingInv, BillingTypeOK, BillingAssumption, GrantsOK, GrantOK
<1>9. none \in EntitlementRows /\ none.status = "REFUNDED" /\ none.user = entitlement[o].user
  BY <1>8 DEF EntitlementRows
<1>10. entitlement' = [entitlement EXCEPT ![o] = none]
  BY <1>0, <1>8 DEF CommitRefund
<1>11. /\ g.type = "REFUND" /\ g.source = o /\ g.task = None /\ g.amount \in Nat
       /\ imageLedger' = imageLedger \cup {g}
  BY <1>3 DEF CommitRefund
<1> HIDE DEF row, none, g
<1>12. /\ entitlement' \in [Sources -> EntitlementRows \cup {None}] /\ entitlement'[o] # None
       /\ entitlement'[o].status = "REFUNDED" /\ entitlement'[o].user = entitlement[o].user
       /\ \A z \in Sources : z # o => entitlement'[z] = entitlement[z]
  BY <1>0, <1>8, <1>9, <1>10
<1>13. \A z \in Sources : entitlement[z] # None => entitlement'[z] # None
  BY <1>12
<1>14. Priced(imageLedger') /\ imageLedger \subseteq imageLedger'
  <2>1. CASE g \in imageLedger
    <3>1. imageLedger' = imageLedger
      BY <1>11, <2>1
    <3> QED
      BY <3>1 DEF BillingInv, ImageInv, ImageLedgerOK, Priced
  <2>2. CASE g \notin imageLedger
    BY <1>11, <2>2, AmountAdd DEF BillingInv, ImageInv, ImageLedgerOK
  <2> QED
    BY <1>11, <2>1, <2>2
<1>15. ImageInv'
  <2>1. ImageLedgerOK'
    <3>1. ASSUME NEW e \in imageLedger'
          PROVE  /\ e.task = None /\ e.source \in Sources
                 /\ e.type = "RESERVE" => entitlement'[e.source] # None
      BY <1>0, <1>11, <1>13, <3>1 DEF BillingInv, ImageInv, ImageLedgerOK
    <3> QED
      BY <1>14, <3>1 DEF ImageLedgerOK
  <2>2. ASSUME NEW s \in Sources
        PROVE  /\ ImagesOf(s, "RESERVE")' = ImagesOf(s, "RESERVE")
               /\ ImagesOf(s, "GRANT")' = ImagesOf(s, "GRANT")
    <3> DEFINE N == {g}
    <3>1. imageLedger' = imageLedger \cup N
      BY <1>11
    <3>2. \A e \in N : e.source # s \/ e.type # "RESERVE"
      BY <1>11
    <3>3. \A e \in N : e.source # s \/ e.type # "GRANT"
      BY <1>11
    <3> HIDE DEF N
    <3>4. ImagesOf(s, "RESERVE")' = ImagesOf(s, "RESERVE")
      BY <3>1, <3>2, ImagesSame
    <3>5. ImagesOf(s, "GRANT")' = ImagesOf(s, "GRANT")
      BY <3>1, <3>3, ImagesSame
    <3> QED
      BY <3>4, <3>5
  <2>3. NoImageTwice'
    <3>1. ASSUME NEW s \in Sources
          PROVE  /\ ImagesOf(s, "RESERVE")' <= ImagesOf(s, "GRANT")'
                 /\ entitlement'[s] # None /\ entitlement'[s].status = "ACTIVE" =>
                      entitlement'[s].available = ImagesOf(s, "GRANT")' - ImagesOf(s, "RESERVE")'
      BY <1>12, <2>2 DEF BillingInv, ImageInv, NoImageTwice
    <3> QED
      BY <3>1 DEF NoImageTwice
  <2> QED
    BY <2>1, <2>3 DEF ImageInv
<1>16. BillingTypeOK'
  <2>1. refund' \in [RefundKeys -> Orders \cup {None}]
    BY <1>0 DEF CommitRefund, BillingInv, BillingTypeOK
  <2> QED
    BY <1>1, <1>6, <1>12, <2>1 DEF BillingInv, BillingTypeOK
<1>17. FlightOK'
  <2>1. \A z \in Orders : order[z] # None =>
          order'[z] # None /\ (order[z].status # "PENDING" => order'[z].status # "PENDING")
    BY <1>6
  <2> QED
    BY <1>1, <1>13, <2>1, FlightStays DEF BillingInv
<1>18. CashInv' /\ ShelfOK'
  BY <1>1, <1>13, CashStays, ShelfStays DEF BillingInv
<1>19. GrantsOK'
  <2> SUFFICES ASSUME NEW s \in Sources PROVE GrantOK(s)'
    BY DEF GrantsOK
  <2>1. GrantOK(s) /\ Grants(s)' = Grants(s)
    BY <1>11 DEF BillingInv, GrantsOK, Grants
  <2>2. Earned(s)' <=> Earned(s)
    BY <1>0, <1>1, <1>6 DEF Earned
  <2>3. /\ entitlement[s] = None => entitlement'[s] = None
        /\ entitlement[s] # None => entitlement'[s] # None /\ entitlement'[s].user = entitlement[s].user
        /\ s \in Orders /\ order[s] # None => order'[s].user = order[s].user
    BY <1>6, <1>8, <1>12, <1>13
  <2> QED
    BY <2>1, <2>2, <2>3, GrantStays
<1>20. FullyCovered'
  BY <1>1, <1>14, CoverStays DEF BillingInv, ImageInv, ImageLedgerOK
<1> QED
  BY <1>15, <1>16, <1>17, <1>18, <1>19, <1>20 DEF BillingInv

-----------------------------------------------------------------------------
(* Cash: each kind of entry goes with its own change of the account.       *)

CashChange(type, n) ==
  CASE type = "GRANT"   -> [available |-> n, reserved |-> 0]
    [] type = "RESERVE" -> [available |-> -n, reserved |-> n]
    [] type = "RELEASE" -> [available |-> n, reserved |-> -n]
    [] type = "CONSUME" -> [available |-> 0, reserved |-> -n]

LEMMA CashMatches ==
  ASSUME CashMatchesLedger, Priced(cashLedger), BillingTypeOK,
         NEW u \in Payers, NEW type \in {"GRANT", "RESERVE", "RELEASE", "CONSUME"},
         NEW key, NEW n \in Nat, Posted(type, u, key, n),
         CashMoves(u, key, CashChange(type, n).available, CashChange(type, n).reserved)
  PROVE  /\ CashMatchesLedger' /\ Priced(cashLedger')
         /\ cash' \in [Payers -> [available : Nat, reserved : Nat]]
         /\ cash'[u].reserved = cash[u].reserved + CashChange(type, n).reserved
         /\ \A v \in Payers : v # u => cash'[v] = cash[v]
<1> DEFINE a == CashChange(type, n).available
           r == CashChange(type, n).reserved
           row == [cash[u] EXCEPT !.available = @ + a, !.reserved = @ + r]
<1>1. a \in Int /\ r \in Int
  BY DEF CashChange
<1>2. cash \in [Payers -> [available : Nat, reserved : Nat]]
  BY DEF BillingTypeOK
<1>3. cash[u].available + a >= 0 /\ cash[u].reserved + r >= 0
  BY DEF CashMoves
<1>4. cash' = [cash EXCEPT ![u] = row]
  BY <1>2 DEF CashMoves
<1>5. row \in [available : Nat, reserved : Nat]
  <2>1. cash[u].available + a \in Nat /\ cash[u].reserved + r \in Nat
    <3>1. cash[u].available \in Nat /\ cash[u].reserved \in Nat
      BY <1>2
    <3> HIDE DEF a, r
    <3> QED
      BY <1>1, <1>3, <3>1
  <2>2. cash[u] \in [available : Nat, reserved : Nat]
    BY <1>2
  <2> HIDE DEF a, r
  <2> QED
    BY <2>1, <2>2
<1>6. row.available = cash[u].available + a /\ row.reserved = cash[u].reserved + r
  <2>1. cash[u] \in [available : Nat, reserved : Nat]
    BY <1>2
  <2> HIDE DEF a, r
  <2> QED
    BY <2>1
<1> HIDE DEF row
<1>7. /\ cash' \in [Payers -> [available : Nat, reserved : Nat]] /\ cash'[u] = row
      /\ \A v \in Payers : v # u => cash'[v] = cash[v]
  BY <1>2, <1>4, <1>5
<1>8. /\ Priced(cashLedger')
      /\ CashOf(u, type)' = CashOf(u, type) + n
      /\ \A v, ty : v # u \/ ty # type => CashOf(v, ty)' = CashOf(v, ty)
  BY CashPosted
<1>9. ASSUME NEW v, NEW ty PROVE CashOf(v, ty) \in Nat
  BY PricedPart, AmountType DEF CashOf
<1>10. ASSUME NEW v \in Payers
       PROVE  /\ cash'[v].reserved =
                   CashOf(v, "RESERVE")' - CashOf(v, "RELEASE")' - CashOf(v, "CONSUME")'
              /\ cash'[v].available + cash'[v].reserved = CashOf(v, "GRANT")' - CashOf(v, "CONSUME")'
  <2>1. /\ cash[v].reserved = CashOf(v, "RESERVE") - CashOf(v, "RELEASE") - CashOf(v, "CONSUME")
        /\ cash[v].available + cash[v].reserved = CashOf(v, "GRANT") - CashOf(v, "CONSUME")
        /\ cash[v].available \in Nat /\ cash[v].reserved \in Nat
    BY <1>2 DEF CashMatchesLedger
  <2>2. CASE v # u
    BY <1>7, <1>8, <2>1, <2>2
  <2>3. CASE v = u
    <3>1. /\ CashOf(u, "GRANT") \in Nat /\ CashOf(u, "RESERVE") \in Nat
          /\ CashOf(u, "RELEASE") \in Nat /\ CashOf(u, "CONSUME") \in Nat
      BY <1>9
    <3>2. CASE type = "GRANT"
      <4>1. a = n /\ r = 0
        BY <3>2 DEF CashChange
      <4> HIDE DEF a, r
      <4> QED
        BY <1>6, <1>7, <1>8, <2>1, <2>3, <3>1, <3>2, <4>1
    <3>3. CASE type = "RESERVE"
      <4>1. a = -n /\ r = n
        BY <3>3 DEF CashChange
      <4> HIDE DEF a, r
      <4> QED
        BY <1>6, <1>7, <1>8, <2>1, <2>3, <3>1, <3>3, <4>1
    <3>4. CASE type = "RELEASE"
      <4>1. a = n /\ r = -n
        BY <3>4 DEF CashChange
      <4> HIDE DEF a, r
      <4> QED
        BY <1>6, <1>7, <1>8, <2>1, <2>3, <3>1, <3>4, <4>1
    <3>5. CASE type = "CONSUME"
      <4>1. a = 0 /\ r = -n
        BY <3>5 DEF CashChange
      <4> HIDE DEF a, r
      <4> QED
        BY <1>6, <1>7, <1>8, <2>1, <2>3, <3>1, <3>5, <4>1
    <3> QED
      BY <3>2, <3>3, <3>4, <3>5
  <2> QED
    BY <2>2, <2>3
<1>11. CashMatchesLedger'
  BY <1>10 DEF CashMatchesLedger
<1> QED
  BY <1>6, <1>7, <1>8, <1>11

Held(u) == {t \in TaskKeys : TaskUser[t] = u /\ task[t] # None /\ task[t].status = "ACTIVE"}

Committed(u) == Tally([t \in Held(u) |-> task[t].cents])

LEMMA HeldType ==
  ASSUME BillingAssumption, BillingTypeOK, NEW u
  PROVE  /\ IsFiniteSet(Held(u)) /\ [t \in Held(u) |-> task[t].cents] \in [Held(u) -> Nat]
         /\ Committed(u) \in Nat
<1>1. IsFiniteSet(Held(u))
  BY FS_Subset DEF Held, BillingAssumption
<1>2. [t \in Held(u) |-> task[t].cents] \in [Held(u) -> Nat]
  BY DEF Held, BillingTypeOK, TaskRows
<1> QED
  BY <1>1, <1>2, TallyType DEF Committed

LEMMA GrantCashSteps ==
  ASSUME BillingAssumption, BillingInv, NEW u \in Payers, NEW k \in CashKeys, GrantCash(u, k)
  PROVE  BillingInv'
<1>1. UNCHANGED <<plan, order, code, event, refund, entitlement, shelf, imageLedger, task, flight>>
  BY DEF GrantCash, shop, images
<1>2. GrantCents \in Nat
  BY DEF BillingAssumption
<1>3. /\ CashMatchesLedger' /\ Priced(cashLedger')
      /\ cash' \in [Payers -> [available : Nat, reserved : Nat]]
      /\ \A v \in Payers : cash'[v].reserved = cash[v].reserved
  <2>1. CashChange("GRANT", GrantCents) = [available |-> GrantCents, reserved |-> 0]
    BY DEF CashChange
  <2>2. CashMoves(u, k, CashChange("GRANT", GrantCents).available, CashChange("GRANT", GrantCents).reserved)
    BY <2>1 DEF GrantCash
  <2>3. Posted("GRANT", u, k, GrantCents)
    BY DEF GrantCash, Posted, CashMoves
  <2>4. CashMatchesLedger /\ Priced(cashLedger) /\ BillingTypeOK
    BY DEF BillingInv, CashInv, CashLedgerOK
  <2>5. /\ CashMatchesLedger' /\ Priced(cashLedger')
        /\ cash' \in [Payers -> [available : Nat, reserved : Nat]]
        /\ cash'[u].reserved = cash[u].reserved + CashChange("GRANT", GrantCents).reserved
        /\ \A v \in Payers : v # u => cash'[v] = cash[v]
    BY <1>2, <2>2, <2>3, <2>4, CashMatches
  <2>6. cash[u].reserved \in Nat
    BY <2>4 DEF BillingTypeOK
  <2>7. cash'[u].reserved = cash[u].reserved
    BY <2>1, <2>5, <2>6
  <2> QED
    BY <2>5, <2>7
<1>4. CashInv'
  <2> DEFINE e == CashEntry("GRANT", u, k, GrantCents)
  <2>1. e.type = "GRANT" /\ e.key = k /\ cashLedger' = cashLedger \cup {e}
    BY DEF GrantCash, CashEntry
  <2> HIDE DEF e
  <2>2. \A f \in cashLedger' : CashEntryOK(f)'
    BY <1>1, <2>1 DEF BillingInv, CashInv, CashLedgerOK, CashEntryOK
  <2>3. CashLedgerOK'
    BY <1>3, <2>2 DEF CashLedgerOK
  <2>4. CashSettled'
    BY <1>1, <2>1 DEF BillingInv, CashInv, CashSettled
  <2>5. CanAlwaysSettle'
    BY <1>1, <1>3 DEF BillingInv, CashInv, CanAlwaysSettle
  <2> QED
    BY <1>3, <2>3, <2>4, <2>5 DEF CashInv
<1>5. BillingTypeOK'
  BY <1>1, <1>3 DEF BillingInv, BillingTypeOK
<1>6. FlightOK' /\ ShelfOK' /\ ImageInv'
  BY <1>1, FlightStays, ShelfStays, ImagesStay DEF BillingInv
<1>7. GrantsOK'
  BY <1>1, GrantsStay DEF BillingInv, Earned
<1>8. FullyCovered'
  BY <1>1, <1>6, CoverStays DEF BillingInv, ImageInv, ImageLedgerOK, GrantCash
<1> QED
  BY <1>4, <1>5, <1>6, <1>7, <1>8 DEF BillingInv

-----------------------------------------------------------------------------
(* Reservations.                                                           *)

LEMMA LeastOfTwo ==
  ASSUME NEW a \in Int, NEW b \in Int
  PROVE  /\ Min({a, b}) \in {a, b} /\ Min({a, b}) <= a /\ Min({a, b}) <= b
         /\ Max({a, b}) \in {a, b} /\ Max({a, b}) >= a /\ Max({a, b}) >= b
BY DEF Min, Max

LEMMA SourcesFinite == ASSUME BillingAssumption PROVE IsFiniteSet(Sources)
BY FS_Union DEF BillingAssumption, Sources

(* What is asked for is taken, no less and no more, and all of it is the   *)
(* user's own.                                                             *)
LEMMA TakesExactly ==
  ASSUME BillingAssumption, BillingTypeOK, ShelfOK, NEW u, NEW n \in Nat,
         n <= AvailableIn(Candidates(u))
  PROVE  /\ Takes(u, n) \in [Sources -> Nat]
         /\ \A s \in Sources : Takes(u, n)[s] > 0 => entitlement[s] # None /\ entitlement[s].user = u
         /\ Tally(Takes(u, n)) = n
<1> DEFINE C == Candidates(u)
           L == Len(shelf)
           a == [i \in C |-> entitlement[shelf[i]].available]
           Before(i) == AvailableIn({j \in C : j < i})
           From(i) == Max({0, Min({entitlement[shelf[i]].available, n - Before(i)})})
           b == [i \in C |-> From(i)]
           h == [i \in C |-> shelf[i]]
           T == Takes(u, n)
<1>1. /\ shelf \in Seq(Sources) /\ L \in Nat /\ DOMAIN shelf = 1..L
      /\ \A i \in 1..L : shelf[i] \in Sources
  BY DEF BillingTypeOK
<1>2. C \subseteq 1..L /\ \A k \in C : k \in Nat /\ 1 <= k /\ k <= L
  BY <1>1 DEF Candidates
<1>3. IsFiniteSet(C)
  <2>1. IsFiniteSet(1..L)
    <3>1. L \in Int /\ 1 \in Int
      BY <1>1
    <3> HIDE DEF L
    <3> QED
      BY <3>1, FS_Interval
  <2> HIDE DEF C, L
  <2> QED
    BY <1>2, <2>1, FS_Subset
<1>4. \A i \in C : /\ shelf[i] \in Sources /\ entitlement[shelf[i]] # None
                   /\ entitlement[shelf[i]].available \in Nat
                   /\ entitlement[shelf[i]].user = u
  <2>1. \A i \in C : shelf[i] \in Sources /\ entitlement[shelf[i]] # None
    BY <1>1, <1>2 DEF ShelfOK
  <2>2. \A i \in C : entitlement[shelf[i]].user = u
    BY DEF Candidates
  <2> HIDE DEF C
  <2> QED
    BY <2>1, <2>2 DEF BillingTypeOK, EntitlementRows
<1>5. \A i, j \in C : shelf[i] = shelf[j] => i = j
  BY <1>1, <1>2 DEF ShelfOK
<1>6. a \in [C -> Nat] /\ h \in [C -> Sources]
  BY <1>4
<1>7. n <= Tally(a)
  BY DEF AvailableIn
<1>8. ASSUME NEW i \in C
      PROVE  /\ Before(i) = Tally([j \in {k \in C : k < i} |-> a[j]])
             /\ Before(i) \in Nat
  <2>1. [j \in {k \in C : k < i} |-> a[j]] = [j \in {k \in C : k < i} |-> entitlement[shelf[j]].available]
    OBVIOUS
  <2>2. Before(i) = Tally([j \in {k \in C : k < i} |-> a[j]])
    BY <2>1, Zenon DEF AvailableIn
  <2>3. /\ IsFiniteSet({k \in C : k < i})
        /\ [j \in {k \in C : k < i} |-> a[j]] \in [{k \in C : k < i} -> Nat]
    BY <1>3, <1>6, FS_Subset
  <2> HIDE DEF Before, a, C
  <2>4. Tally([j \in {k \in C : k < i} |-> a[j]]) \in Nat
    BY <2>3, TallyType
  <2> QED
    BY <2>2, <2>4, Zenon
<1>9. ASSUME NEW i \in C
      PROVE  /\ From(i) \in Nat /\ (a[i] <= From(i) \/ n - Before(i) <= From(i))
             /\ From(i) <= a[i] /\ (From(i) = 0 \/ Before(i) + From(i) <= n)
  <2> DEFINE x == entitlement[shelf[i]].available
             y == n - Before(i)
  <2>1. x \in Nat /\ y \in Int /\ a[i] = x
    <3>1. x \in Nat /\ a[i] = x
      BY <1>4
    <3>2. Before(i) \in Nat
      BY <1>8, Zenon
    <3>3. y \in Int
      <4> HIDE DEF Before, C
      <4> QED
        BY <3>2
    <3> QED
      BY <3>1, <3>3
  <2>2. From(i) = Max({0, Min({x, y})})
    OBVIOUS
  <2> HIDE DEF x, y, Before, From, a, C
  <2>3. Min({x, y}) \in {x, y} /\ Min({x, y}) <= x /\ Min({x, y}) <= y
    <3>1. x \in Int /\ y \in Int
      BY <2>1
    <3> QED
      BY <3>1, LeastOfTwo, Zenon
  <2>4. Min({x, y}) \in Int
    BY <2>1, <2>3
  <2>5. From(i) \in {0, Min({x, y})} /\ From(i) >= 0 /\ From(i) >= Min({x, y})
    <3>1. 0 \in Int
      OBVIOUS
    <3>2. /\ Max({0, Min({x, y})}) \in {0, Min({x, y})}
          /\ Max({0, Min({x, y})}) >= 0 /\ Max({0, Min({x, y})}) >= Min({x, y})
      BY <2>4, <3>1, LeastOfTwo, Zenon
    <3> QED
      BY <2>2, <3>2
  <2>6. /\ From(i) \in Nat /\ (x <= From(i) \/ y <= From(i))
        /\ From(i) <= x /\ (From(i) = 0 \/ From(i) <= y)
    BY <2>1, <2>3, <2>4, <2>5
  <2>7. Before(i) \in Nat /\ y = n - Before(i)
    BY <1>8 DEF y
  <2> QED
    BY <2>1, <2>6, <2>7
<1>10. b \in [C -> Nat] /\ \A i \in C : b[i] = From(i)
  BY <1>9
<1>11. ServesUpTo(C, a, b, n)
  <2> SUFFICES ASSUME NEW i \in C
               PROVE  a[i] <= b[i] \/ n - Tally([j \in {k \in C : k < i} |-> a[j]]) <= b[i]
    BY DEF ServesUpTo
  <2>1. Before(i) = Tally([j \in {k \in C : k < i} |-> a[j]])
    BY <1>8
  <2> HIDE DEF a, b, From, Before, C
  <2> QED
    BY <1>9, <1>10, <2>1
<1>12. n <= Tally(b)
  <2> HIDE DEF C, L, a, b
  <2> QED
    BY <1>1, <1>2, <1>3, <1>6, <1>7, <1>10, <1>11, TallyServed
<1>18. Tally(b) <= n
  <2>1. ServesNoMore(C, a, b, n)
    <3> SUFFICES ASSUME NEW i \in C
                 PROVE  /\ b[i] <= a[i]
                        /\ b[i] = 0 \/ Tally([j \in {k \in C : k < i} |-> a[j]]) + b[i] <= n
      BY DEF ServesNoMore
    <3>1. Before(i) = Tally([j \in {k \in C : k < i} |-> a[j]])
      BY <1>8
    <3> HIDE DEF a, b, From, Before, C
    <3> QED
      BY <1>9, <1>10, <3>1
  <2> HIDE DEF C, L, a, b
  <2> QED
    BY <1>1, <1>2, <1>3, <1>6, <1>10, <2>1, TallyWithin
<1>13. ASSUME NEW i \in C PROVE T[shelf[i]] = From(i)
  <2>1. (CHOOSE j \in C : shelf[j] = shelf[i]) = i
    BY <1>5
  <2>2. shelf[i] \in Sources /\ \E j \in C : shelf[j] = shelf[i]
    BY <1>4
  <2>3. T[shelf[i]] = From(CHOOSE j \in C : shelf[j] = shelf[i])
    BY <2>2 DEF Takes
  <2> HIDE DEF T, From, C
  <2> QED
    BY <2>1, <2>3
<1>14. ASSUME NEW s \in Sources
       PROVE  /\ T[s] \in Nat
              /\ T[s] > 0 => /\ entitlement[s] # None /\ entitlement[s].user = u
                             /\ \E i \in C : shelf[i] = s
  <2>1. CASE \E i \in C : shelf[i] = s
    <3>1. PICK i \in C : shelf[i] = s
      BY <2>1
    <3>2. T[s] = From(i) /\ From(i) \in Nat /\ entitlement[s] # None /\ entitlement[s].user = u
      BY <1>4, <1>9, <1>13, <3>1
    <3> QED
      BY <3>1, <3>2
  <2>2. CASE ~ \E i \in C : shelf[i] = s
    <3>1. T[s] = 0
      BY <2>2 DEF Takes
    <3> QED
      BY <3>1
  <2> QED
    BY <2>1, <2>2
<1>15. T \in [Sources -> Nat]
  <2>1. T = [s \in Sources |-> T[s]]
    BY DEF Takes
  <2> HIDE DEF T
  <2> QED
    BY <1>14, <2>1
<1>16. Tally(b) <= Tally(T)
  <2>0. IsFiniteSet(Sources)
    BY SourcesFinite
  <2>1. (\A i, j \in C : h[i] = h[j] => i = j) /\ \A i \in C : b[i] <= T[h[i]]
    <3>1. ASSUME NEW i \in C PROVE h[i] = shelf[i] /\ b[i] <= T[h[i]]
      <4>1. h[i] = shelf[i] /\ b[i] = T[shelf[i]] /\ b[i] \in Nat
        BY <1>10, <1>13
      <4> HIDE DEF h, b, T
      <4> QED
        BY <4>1
    <3> QED
      BY <1>5, <3>1
  <2> HIDE DEF h, b, T, C
  <2> QED
    BY <1>6, <1>10, <1>15, <2>0, <2>1, TallyMoved
<1>17. Tally(b) \in Nat /\ Tally(T) \in Nat
  <2> HIDE DEF b, T, C
  <2> QED
    BY <1>3, <1>10, <1>15, SourcesFinite, TallyType
<1>19. Tally(T) <= Tally(b)
  <2> DEFINE D == {s \in Sources : T[s] > 0}
             f == [s \in D |-> T[s]]
             at == [s \in D |-> CHOOSE i \in C : shelf[i] = s]
  <2>1. ASSUME NEW s \in D
        PROVE  at[s] \in C /\ shelf[at[s]] = s /\ f[s] = b[at[s]]
    <3>1. at[s] \in C /\ shelf[at[s]] = s
      <4>1. s \in Sources /\ T[s] > 0
        OBVIOUS
      <4>2. \E i \in C : shelf[i] = s
        BY <1>14, <4>1
      <4> HIDE DEF T, C
      <4> QED
        BY <4>2
    <3>2. T[shelf[at[s]]] = b[at[s]] /\ f[s] = T[s]
      <4>1. f[s] = T[s]
        OBVIOUS
      <4> HIDE DEF T, C, b, at, f, From
      <4> QED
        BY <1>10, <1>13, <3>1, <4>1
    <3> HIDE DEF at, f, b, T, C
    <3> QED
      BY <3>1, <3>2
  <2>2. f \in [D -> Nat] /\ at \in [D -> C]
    <3>1. \A s \in D : at[s] \in C /\ T[s] \in Nat
      <4> HIDE DEF T, C, at
      <4> QED
        BY <1>15, <2>1
    <3> HIDE DEF T, C
    <3> QED
      BY <3>1
  <2>3. Tally(T) = Tally(f)
    <3> HIDE DEF T
    <3> QED
      BY <1>15, TallyPositive
  <2>4. /\ \A r, s \in D : at[r] = at[s] => r = s
        /\ \A s \in D : f[s] <= b[at[s]]
    <3>1. ASSUME NEW s \in D PROVE f[s] <= b[at[s]]
      <4> HIDE DEF f, at, b, D
      <4>1. f[s] = b[at[s]] /\ f[s] \in Nat
        BY <2>1, <2>2
      <4> QED
        BY <4>1
    <3>2. ASSUME NEW r \in D, NEW s \in D, at[r] = at[s] PROVE r = s
      <4> HIDE DEF f, at, b, D
      <4> QED
        BY <2>1, <3>2
    <3> HIDE DEF f, at, b, D
    <3> QED
      BY <3>1, <3>2
  <2>5. Tally(f) <= Tally(b)
    <3>1. b \in [C -> Nat]
      BY <1>10
    <3> HIDE DEF f, at, b, D, C, T, h, a, From
    <3>2. f \in [D -> Nat] /\ at \in [D -> C] /\ IsFiniteSet(C)
      BY <1>3, <2>2
    <3> QED
      BY <2>4, <3>1, <3>2, TallyMoved
  <2> QED
    BY <2>3, <2>5
<1> HIDE DEF b, T, C
<1>20. Tally(T) = n
  BY <1>12, <1>16, <1>17, <1>18, <1>19
<1> QED
  BY <1>14, <1>15, <1>20 DEF T

LEMMA AvailableType ==
  ASSUME BillingTypeOK, ShelfOK, NEW u
  PROVE  AvailableIn(Candidates(u)) \in Nat
<1> DEFINE C == Candidates(u)
           L == Len(shelf)
           a == [i \in C |-> entitlement[shelf[i]].available]
<1>1. /\ shelf \in Seq(Sources) /\ L \in Nat /\ DOMAIN shelf = 1..L
      /\ \A i \in 1..L : shelf[i] \in Sources
  BY DEF BillingTypeOK
<1>2. C \subseteq 1..L
  BY <1>1 DEF Candidates
<1>3. IsFiniteSet(C)
  <2>1. IsFiniteSet(1..L)
    <3>1. L \in Int /\ 1 \in Int
      BY <1>1
    <3> HIDE DEF L
    <3> QED
      BY <3>1, FS_Interval
  <2> HIDE DEF C, L
  <2> QED
    BY <1>2, <2>1, FS_Subset
<1>4. \A i \in C : entitlement[shelf[i]].available \in Nat
  <2>1. \A i \in C : shelf[i] \in Sources /\ entitlement[shelf[i]] # None
    BY <1>1, <1>2 DEF ShelfOK
  <2> QED
    BY <2>1 DEF BillingTypeOK, EntitlementRows
<1>5. a \in [C -> Nat]
  BY <1>4
<1>6. AvailableIn(C) = Tally(a)
  BY DEF AvailableIn
<1> HIDE DEF C, a
<1> QED
  BY <1>3, <1>5, <1>6, TallyType DEF C

LEMMA Shares ==
  ASSUME NEW a \in Nat, NEW b \in Nat, a <= b, NEW c \in Nat
  PROVE  (b - a) * c \in Nat /\ a * c + (b - a) * c = b * c
<1>1. b - a \in Nat
  OBVIOUS
<1> QED
  BY <1>1

LEMMA ReadAllocationSteps ==
  ASSUME BillingAssumption, BillingInv, NEW t \in TaskKeys, ReadAllocation(t)
  PROVE  BillingInv'
<1> DEFINE u == TaskUser[t]
           n == Min({AvailableIn(Candidates(u)), Need[t]})
           a == Allocation(t)
<1>1. UNCHANGED <<plan, order, code, event, refund, entitlement, shelf, imageLedger, cash, cashLedger, task>>
  BY DEF ReadAllocation, shop, images, money
<1>2. event' \in [Events -> {None, "PROCESSED", "IGNORED"}]
  BY <1>1 DEF BillingInv, BillingTypeOK
<1>3. Need[t] \in Nat /\ UnitCents \in Nat
  BY DEF BillingAssumption
<1>4. AvailableIn(Candidates(u)) \in Nat
  BY AvailableType DEF BillingInv
<1>5. n \in Nat /\ n <= AvailableIn(Candidates(u)) /\ n <= Need[t]
  <2>1. AvailableIn(Candidates(u)) \in Int /\ Need[t] \in Int
    BY <1>3, <1>4
  <2>2. /\ n \in {AvailableIn(Candidates(u)), Need[t]}
        /\ n <= AvailableIn(Candidates(u)) /\ n <= Need[t]
    BY <2>1, LeastOfTwo, Zenon
  <2> QED
    BY <1>3, <1>4, <2>2
<1>6. /\ a.op = "reserve" /\ a.task = t /\ a.take = Takes(u, n) /\ a.images = n
      /\ a.cents = (Need[t] - n) * UnitCents
      /\ a = [op |-> "reserve", task |-> t, take |-> Takes(u, n), images |-> n,
              cents |-> (Need[t] - n) * UnitCents]
  BY DEF Allocation
<1> HIDE DEF n, a, u
<1>7. /\ Takes(u, n) \in [Sources -> Nat]
      /\ \A s \in Sources : Takes(u, n)[s] > 0 => entitlement[s] # None
      /\ n <= Tally(Takes(u, n))
  BY <1>5, TakesExactly DEF BillingInv
<1>8. (Need[t] - n) * UnitCents \in Nat /\ n * UnitCents + (Need[t] - n) * UnitCents = Need[t] * UnitCents
  BY <1>3, <1>5, Shares
<1>9. a \in ReserveRows
  BY <1>5, <1>6, <1>7, <1>8 DEF ReserveRows
<1>10. StillTrue(a)
  BY <1>6, <1>7, <1>8, <1>9 DEF StillTrue
<1>11. \A y \in flight' : y \in flight \/ StillTrue(y)
  BY <1>10 DEF ReadAllocation, a
<1> QED
  BY <1>1, <1>2, <1>11, OnlyReads

(* Images are taken.                                                       *)
LEMMA ImagesTaken ==
  ASSUME BillingAssumption, BillingInv, NEW x \in ReserveRows, TakeImages(x),
         \A s \in Sources : x.take[s] > 0 => entitlement[s] # None
  PROVE  /\ ImageInv'
         /\ entitlement' \in [Sources -> EntitlementRows \cup {None}]
         /\ \A s \in Sources :
              /\ entitlement[s] = None => entitlement'[s] = None
              /\ entitlement[s] # None =>
                   /\ entitlement'[s] # None
                   /\ entitlement'[s].user = entitlement[s].user
              /\ Grants(s)' = Grants(s)
         /\ imageLedger \subseteq imageLedger'
         /\ Tally(x.take) <= AmountOf(Drawn(x.task))'
<1> DEFINE N == {ReserveEntry(x, s) : s \in Taken(x)}
           f == [s \in Taken(x) |-> ReserveEntry(x, s)]
           row(s) == [entitlement[s] EXCEPT !.available = @ - x.take[s], !.reserved = @ + x.take[s]]
<1>1. x.take \in [Sources -> Nat] /\ x.task \in TaskKeys
  BY DEF ReserveRows
<1>2. /\ entitlement \in [Sources -> EntitlementRows \cup {None}] /\ None \notin EntitlementRows
      /\ imageLedger' = imageLedger \cup N
  BY DEF BillingInv, BillingTypeOK, BillingAssumption, TakeImages
<1>3. ASSUME NEW s \in Taken(x)
      PROVE  /\ s \in Sources /\ x.take[s] \in Nat /\ x.take[s] > 0
             /\ entitlement[s] \in EntitlementRows
             /\ entitlement[s].status = "ACTIVE" /\ entitlement[s].available >= x.take[s]
             /\ ReserveEntry(x, s) \in N /\ ReserveEntry(x, s) \notin imageLedger
  BY <1>1, <1>2 DEF Taken, TakeImages, Unused
<1>4. ASSUME NEW s
      PROVE  /\ ReserveEntry(x, s).type = "RESERVE" /\ ReserveEntry(x, s).source = s
             /\ ReserveEntry(x, s).task = None /\ ReserveEntry(x, s).amount = x.take[s]
             /\ ReserveEntry(x, s).key = <<"reserve", x.task, s>>
  BY DEF ReserveEntry
<1>5. ASSUME NEW s \in Taken(x)
      PROVE  /\ row(s) \in EntitlementRows /\ row(s) # None
             /\ row(s).available = entitlement[s].available - x.take[s]
             /\ row(s).user = entitlement[s].user /\ row(s).status = entitlement[s].status
  <2>1. entitlement[s].available - x.take[s] \in Nat /\ entitlement[s].reserved + x.take[s] \in Nat
    BY <1>3 DEF EntitlementRows
  <2> QED
    BY <1>2, <1>3, <2>1 DEF EntitlementRows
<1>6. \A s \in Sources : entitlement'[s] = IF s \in Taken(x) THEN row(s) ELSE entitlement[s]
  BY DEF TakeImages
<1>7. entitlement' = [s \in Sources |-> IF s \in Taken(x) THEN row(s) ELSE entitlement[s]]
  BY DEF TakeImages
<1> HIDE DEF row
<1>8. entitlement' \in [Sources -> EntitlementRows \cup {None}]
  BY <1>2, <1>5, <1>7
<1>9. ASSUME NEW s \in Sources
      PROVE  /\ entitlement[s] = None => entitlement'[s] = None
             /\ entitlement[s] # None =>
                  /\ entitlement'[s] # None
                  /\ entitlement'[s].user = entitlement[s].user
  BY <1>2, <1>3, <1>5, <1>6
<1>10. \A e \in N : \E s \in Taken(x) : e = ReserveEntry(x, s)
  OBVIOUS
<1>11. IsFiniteSet(N)
  <2>1. IsFiniteSet(Taken(x))
    BY SourcesFinite, FS_Subset DEF Taken
  <2>2. f \in Surjection(Taken(x), N)
    BY DEF Surjection
  <2> HIDE DEF f, N
  <2> QED
    BY <2>1, <2>2, FS_Surjection
<1> HIDE DEF N, f
<1>12. ASSUME NEW s \in Sources PROVE Grants(s)' = Grants(s)
  BY <1>2, <1>4, <1>10 DEF Grants
<1>13. Priced(imageLedger) /\ Priced(imageLedger')
  <2>1. IsFiniteSet(imageLedger')
    BY <1>2, <1>11, FS_Union DEF BillingInv, ImageInv, ImageLedgerOK, Priced
  <2>2. ASSUME NEW e \in imageLedger' PROVE e.amount \in Nat
    BY <1>2, <1>3, <1>4, <1>10 DEF BillingInv, ImageInv, ImageLedgerOK, Priced
  <2> QED
    BY <2>1, <2>2 DEF BillingInv, ImageInv, ImageLedgerOK, Priced
<1>14. ImageLedgerOK'
  <2>1. ASSUME NEW e \in imageLedger'
        PROVE  /\ e.task = None /\ e.source \in Sources
               /\ e.type = "RESERVE" => entitlement'[e.source] # None
    <3>1. CASE e \in imageLedger
      BY <1>9, <3>1 DEF BillingInv, ImageInv, ImageLedgerOK
    <3>2. CASE e \in N
      <4>1. PICK s \in Taken(x) : e = ReserveEntry(x, s)
        BY <1>10, <3>2
      <4> QED
        BY <1>2, <1>3, <1>4, <1>9, <4>1
    <3> QED
      BY <1>2, <3>1, <3>2
  <2> QED
    BY <1>13, <2>1 DEF ImageLedgerOK
<1>15. ASSUME NEW s \in Sources PROVE ImagesOf(s, "GRANT")' = ImagesOf(s, "GRANT")
  <2>1. \A e \in N : e.source # s \/ e.type # "GRANT"
    BY <1>4, <1>10
  <2> QED
    BY <1>2, <2>1, ImagesSame
<1>16. ASSUME NEW s \in Taken(x)
       PROVE  ImagesOf(s, "RESERVE")' = ImagesOf(s, "RESERVE") + x.take[s]
  <2> DEFINE e == ReserveEntry(x, s)
  <2>1. /\ e \in N /\ e \notin imageLedger /\ e.amount \in Nat /\ e.amount = x.take[s]
        /\ e.source = s /\ e.type = "RESERVE"
    BY <1>3, <1>4
  <2>2. \A g \in N : g.source = s /\ g.type = "RESERVE" => g = e
    BY <1>4, <1>10
  <2> HIDE DEF e
  <2> QED
    BY <1>2, <1>13, <2>1, <2>2, ImagesMore
<1>17. ASSUME NEW s \in Sources \ Taken(x)
       PROVE  ImagesOf(s, "RESERVE")' = ImagesOf(s, "RESERVE")
  <2>1. \A e \in N : e.source # s \/ e.type # "RESERVE"
    BY <1>4, <1>10
  <2> QED
    BY <1>2, <2>1, ImagesSame
<1>18. NoImageTwice'
  <2> SUFFICES ASSUME NEW s \in Sources
               PROVE  /\ ImagesOf(s, "RESERVE")' <= ImagesOf(s, "GRANT")'
                      /\ entitlement'[s] # None /\ entitlement'[s].status = "ACTIVE" =>
                           entitlement'[s].available = ImagesOf(s, "GRANT")' - ImagesOf(s, "RESERVE")'
    BY DEF NoImageTwice
  <2>1. /\ ImagesOf(s, "RESERVE") <= ImagesOf(s, "GRANT")
        /\ entitlement[s] # None /\ entitlement[s].status = "ACTIVE" =>
             entitlement[s].available = ImagesOf(s, "GRANT") - ImagesOf(s, "RESERVE")
    BY DEF BillingInv, ImageInv, NoImageTwice
  <2>2. ImagesOf(s, "GRANT") \in Nat /\ ImagesOf(s, "RESERVE") \in Nat
    BY <1>13, ImagesType
  <2>3. CASE s \in Taken(x)
    <3>1. entitlement'[s] = row(s) /\ entitlement[s] # None
      BY <1>2, <1>3, <1>6, <2>3
    <3>2. entitlement[s].available \in Nat
      BY <1>3, <2>3 DEF EntitlementRows
    <3> QED
      BY <1>3, <1>5, <1>15, <1>16, <2>1, <2>2, <2>3, <3>1, <3>2
  <2>4. CASE s \notin Taken(x)
    <3>1. entitlement'[s] = entitlement[s]
      BY <1>6, <2>4
    <3> QED
      BY <1>15, <1>17, <2>1, <2>4, <3>1
  <2> QED
    BY <2>3, <2>4
<1>19. Tally(x.take) <= AmountOf(Drawn(x.task))'
  <2> DEFINE D == Taken(x)
             E == Drawn(x.task)'
             p == [s \in D |-> x.take[s]]
             q == [e \in E |-> e.amount]
             h == [s \in D |-> ReserveEntry(x, s)]
  <2>1. Tally(x.take) = Tally(p)
    BY <1>1, TallyPositive DEF Taken
  <2>2. AmountOf(Drawn(x.task))' = Tally(q)
    BY DEF AmountOf
  <2>3. Priced(E)
    BY <1>13, PricedPart DEF Drawn
  <2>4. p \in [D -> Nat] /\ q \in [E -> Nat] /\ IsFiniteSet(E)
    BY <1>3, <2>3 DEF Priced
  <2>5. ASSUME NEW s \in D
        PROVE  /\ h[s] = ReserveEntry(x, s) /\ h[s] \in E /\ p[s] = x.take[s]
               /\ q[h[s]] = x.take[s] /\ x.take[s] \in Nat
    <3>1. ReserveEntry(x, s) \in imageLedger'
      BY <1>2, <1>3
    <3>2. ReserveEntry(x, s) \in E
      BY <1>3, <1>4, <3>1 DEF Drawn
    <3> HIDE DEF E, D
    <3> QED
      BY <1>3, <1>4, <3>2 DEF D
  <2>6. h \in [D -> E] /\ \A s, z \in D : h[s] = h[z] => s = z
    <3>1. \A s \in D : h[s].source = s
      BY <1>4, <2>5
    <3>2. h = [s \in D |-> h[s]]
      OBVIOUS
    <3>3. \A s \in D : h[s] \in E
      BY <2>5, Zenon
    <3> HIDE DEF h, E, D
    <3>4. h \in [D -> E]
      BY <3>2, <3>3
    <3>5. \A s, z \in D : h[s] = h[z] => s = z
      BY <3>1, Zenon
    <3> QED
      BY <3>4, <3>5
  <2>7. \A s \in D : p[s] <= q[h[s]]
    <3> HIDE DEF D, E, p, q, h
    <3>1. \A s \in D : p[s] = q[h[s]] /\ p[s] \in Nat
      BY <2>5
    <3> QED
      BY <3>1
  <2> HIDE DEF D, E, p, q, h
  <2>8. Tally(p) <= Tally(q)
    BY <2>4, <2>6, <2>7, TallyMoved
  <2> QED
    BY <2>1, <2>2, <2>8
<1> QED
  BY <1>2, <1>8, <1>9, <1>12, <1>14, <1>18, <1>19 DEF ImageInv

LEMMA CommittedSame ==
  ASSUME NEW u, task' \in [TaskKeys -> TaskRows \cup {None}],
         \A t \in TaskKeys : TaskUser[t] = u => task'[t] = task[t]
  PROVE  Committed(u)' = Committed(u)
<1>1. Held(u)' = Held(u)
  BY DEF Held
<1>2. [t \in Held(u)' |-> task'[t].cents] = [t \in Held(u) |-> task[t].cents]
  BY <1>1 DEF Held
<1>3. Committed(u)' = Tally([t \in Held(u)' |-> task'[t].cents])
  BY DEF Committed, Tally, Coins
<1> QED
  BY <1>2, <1>3 DEF Committed

(* A task that becomes active needs its cash from then on.                 *)
LEMMA CommittedMore ==
  ASSUME BillingAssumption, BillingTypeOK, NEW t \in TaskKeys,
         task' \in [TaskKeys -> TaskRows \cup {None}], t \notin Held(TaskUser[t]),
         task'[t] # None, task'[t].status = "ACTIVE",
         \A z \in TaskKeys : z # t => task'[z] = task[z]
  PROVE  Committed(TaskUser[t])' = Committed(TaskUser[t]) + task'[t].cents
<1> DEFINE H == Held(TaskUser[t])
           f == [z \in H |-> task[z].cents]
           E == H \cup {t}
           g == [z \in E |-> task'[z].cents]
<1>1. Held(TaskUser[t])' = H \cup {t}
  BY DEF Held
<1>2. IsFiniteSet(H) /\ f \in [H -> Nat]
  BY HeldType
<1>3. (\A z \in H : g[z] = f[z]) /\ g[t] = task'[t].cents
  BY DEF Held
<1>4. task'[t].cents \in Nat
  BY DEF TaskRows
<1>5. g \in [E -> Nat]
  <2>1. \A z \in E : g[z] \in Nat
    BY <1>2, <1>3, <1>4
  <2>2. g = [z \in E |-> g[z]]
    OBVIOUS
  <2> HIDE DEF g, E
  <2> QED
    BY <2>1, <2>2
<1>6. Committed(TaskUser[t])' = Tally(g)
  <2>1. Committed(TaskUser[t])' = Tally([z \in Held(TaskUser[t])' |-> task'[z].cents])
    BY DEF Committed, Tally, Coins
  <2>2. [z \in Held(TaskUser[t])' |-> task'[z].cents] = g
    BY <1>1
  <2> HIDE DEF g
  <2> QED
    BY <2>1, <2>2
<1>7. Committed(TaskUser[t]) = Tally(f)
  BY DEF Committed
<1>8. t \notin H /\ t \in E /\ E = H \cup {t}
  OBVIOUS
<1>9. Tally(g) = Tally(f) + g[t]
  <2> HIDE DEF H, E, f, g
  <2>1. \A z \in H : g[z] = f[z]
    BY <1>3
  <2> QED
    BY <1>2, <1>5, <1>8, <2>1, TallyMore
<1> HIDE DEF H, f, g
<1> QED
  BY <1>3, <1>6, <1>7, <1>9

(* A task that ends needs its cash no more.                                *)
LEMMA CommittedLess ==
  ASSUME BillingAssumption, BillingTypeOK, NEW t \in TaskKeys,
         task' \in [TaskKeys -> TaskRows \cup {None}], t \in Held(TaskUser[t]),
         task'[t].status # "ACTIVE",
         \A z \in TaskKeys : z # t => task'[z] = task[z]
  PROVE  Committed(TaskUser[t]) = Committed(TaskUser[t])' + task[t].cents
<1> DEFINE H == Held(TaskUser[t]) \ {t}
           f == [z \in H |-> task'[z].cents]
           E == Held(TaskUser[t])
           g == [z \in E |-> task[z].cents]
<1>1. Held(TaskUser[t])' = H /\ E = H \cup {t} /\ t \notin H /\ t \in E
  BY DEF Held
<1>2. IsFiniteSet(H) /\ g \in [E -> Nat]
  <2>1. IsFiniteSet(Held(TaskUser[t]))
    BY HeldType
  <2>2. [z \in Held(TaskUser[t]) |-> task[z].cents] \in [Held(TaskUser[t]) -> Nat]
    BY HeldType
  <2> QED
    BY <1>1, <2>1, <2>2, FS_Subset
<1>3. (\A z \in H : g[z] = f[z]) /\ g[t] = task[t].cents
  BY DEF Held
<1>4. f \in [H -> Nat]
  <2>1. \A z \in H : f[z] \in Nat
    BY <1>2, <1>3
  <2>2. f = [z \in H |-> f[z]]
    OBVIOUS
  <2> HIDE DEF f, H
  <2> QED
    BY <2>1, <2>2
<1>5. Committed(TaskUser[t])' = Tally(f)
  <2>1. Committed(TaskUser[t])' = Tally([z \in Held(TaskUser[t])' |-> task'[z].cents])
    BY DEF Committed, Tally, Coins
  <2> QED
    BY <1>1, <2>1
<1>6. Committed(TaskUser[t]) = Tally(g)
  BY <1>1 DEF Committed
<1>7. Tally(g) = Tally(f) + g[t]
  <2> HIDE DEF H, E, f, g
  <2>1. \A z \in H : g[z] = f[z]
    BY <1>3
  <2> QED
    BY <1>1, <1>2, <1>4, <2>1, TallyMore
<1> HIDE DEF H, f, g
<1> QED
  BY <1>3, <1>5, <1>6, <1>7

LEMMA CanSettle == /\ CanAlwaysSettle <=> \A u \in Payers : cash[u].reserved >= Committed(u)
                   /\ CanAlwaysSettle' <=> \A u \in Payers : cash'[u].reserved >= Committed(u)'
BY DEF CanAlwaysSettle, Committed, Held, Tally, Coins

(* The cash of a task that is created is set aside first.                  *)
LEMMA CashTaken ==
  ASSUME BillingAssumption, BillingInv, NEW x \in ReserveRows, NEW credited \in BOOLEAN,
         TakeCash(x), task[x.task] = None,
         task' = [task EXCEPT ![x.task] =
                    IF credited THEN [status |-> "ACTIVE", images |-> x.images, cents |-> x.cents]
                    ELSE None]
  PROVE  /\ CashInv'
         /\ cash' \in [Payers -> [available : Nat, reserved : Nat]]
         /\ task' \in [TaskKeys -> TaskRows \cup {None}]
         /\ cashLedger \subseteq cashLedger'
         /\ x.cents > 0 => \E e \in cashLedger' : e.key = <<"reserve", x.task>> /\ e.amount = x.cents
<1> DEFINE t == x.task
           u == TaskUser[t]
           row == [status |-> "ACTIVE", images |-> x.images, cents |-> x.cents]
           e == CashEntry("RESERVE", u, <<"reserve", t>>, x.cents)
<1>1. t \in TaskKeys /\ x.images \in Nat /\ x.cents \in Nat /\ u \in Payers
  BY DEF ReserveRows, BillingAssumption
<1>2. row \in TaskRows /\ row.status = "ACTIVE" /\ row.cents = x.cents
  BY <1>1 DEF TaskRows
<1>3. task \in [TaskKeys -> TaskRows \cup {None}] /\ None \notin TaskRows
  BY DEF BillingInv, BillingTypeOK, BillingAssumption
<1>4. /\ task' \in [TaskKeys -> TaskRows \cup {None}] /\ task[t] = None
      /\ task'[t] = (IF credited THEN row ELSE None)
      /\ \A z \in TaskKeys : z # t => task'[z] = task[z]
  BY <1>1, <1>2, <1>3
<1>5. e.type = "RESERVE" /\ e.key = <<"reserve", t>> /\ e.amount = x.cents
  BY DEF CashEntry
<1>6. /\ x.cents = 0 => cash' = cash /\ cashLedger' = cashLedger
      /\ x.cents > 0 => /\ cashLedger' = cashLedger \cup {e}
                        /\ Posted("RESERVE", u, <<"reserve", t>>, x.cents)
                        /\ CashMoves(u, <<"reserve", t>>, -x.cents, x.cents)
  BY <1>1 DEF TakeCash, money, Posted, CashMoves
<1> HIDE DEF row, e
<1>7. BillingTypeOK /\ CashMatchesLedger /\ CashLedgerOK /\ CashSettled /\ CanAlwaysSettle /\ Priced(cashLedger)
  BY DEF BillingInv, CashInv, CashLedgerOK
<1>8. /\ CashMatchesLedger' /\ Priced(cashLedger')
      /\ cash' \in [Payers -> [available : Nat, reserved : Nat]]
      /\ cash'[u].reserved = cash[u].reserved + x.cents
      /\ \A v \in Payers : v # u => cash'[v] = cash[v]
  <2>1. CASE x.cents = 0
    <3>1. cash' = cash /\ cashLedger' = cashLedger
      BY <1>6, <2>1
    <3>2. \A v, ty : CashOf(v, ty)' = CashOf(v, ty)
      BY <3>1 DEF CashOf, AmountOf
    <3>3. cash[u].reserved \in Nat
      BY <1>1, <1>7 DEF BillingTypeOK
    <3>4. CashMatchesLedger' /\ Priced(cashLedger')
      BY <1>7, <3>1, <3>2 DEF CashMatchesLedger, Priced
    <3> QED
      BY <1>7, <2>1, <3>1, <3>3, <3>4 DEF BillingTypeOK
  <2>2. CASE x.cents > 0
    <3>1. CashChange("RESERVE", x.cents).available = -x.cents /\ CashChange("RESERVE", x.cents).reserved = x.cents
      BY DEF CashChange
    <3>2. CashMoves(u, <<"reserve", t>>, CashChange("RESERVE", x.cents).available,
                    CashChange("RESERVE", x.cents).reserved)
      BY <1>6, <2>2, <3>1
    <3>3. Posted("RESERVE", u, <<"reserve", t>>, x.cents)
      BY <1>6, <2>2
    <3> HIDE DEF t, u
    <3>4. /\ CashMatchesLedger' /\ Priced(cashLedger')
          /\ cash' \in [Payers -> [available : Nat, reserved : Nat]]
          /\ cash'[u].reserved = cash[u].reserved + CashChange("RESERVE", x.cents).reserved
          /\ \A v \in Payers : v # u => cash'[v] = cash[v]
      BY <1>1, <1>7, <3>2, <3>3, CashMatches
    <3> QED
      BY <3>1, <3>4
  <2> QED
    BY <1>1, <2>1, <2>2
<1>9. cashLedger \subseteq cashLedger' /\ \A f \in cashLedger' : f \in cashLedger \/ f = e
  BY <1>1, <1>6
<1>10. CashLedgerOK'
  <2>1. ASSUME NEW f \in cashLedger' PROVE CashEntryOK(f)'
    <3>1. CASE f \in cashLedger
      BY <1>4, <1>7, <3>1 DEF CashLedgerOK, CashEntryOK
    <3>2. CASE f = e
      BY <1>1, <1>5, <3>2 DEF CashEntryOK
    <3> QED
      BY <1>9, <3>1, <3>2
  <2> QED
    BY <1>8, <2>1 DEF CashLedgerOK
<1>11. CashSettled'
  <2> SUFFICES ASSUME NEW z \in TaskKeys, task'[z] # None, task'[z].status # "ACTIVE", task'[z].cents > 0
               PROVE  \E f \in cashLedger' : f.type = task'[z].status /\ f.key = <<task'[z].status, z>>
    BY DEF CashSettled
  <2>1. z # t
    BY <1>2, <1>4
  <2> QED
    BY <1>4, <1>7, <1>9, <2>1 DEF CashSettled
<1>12. CanAlwaysSettle'
  <2> SUFFICES ASSUME NEW v \in Payers PROVE cash'[v].reserved >= Committed(v)'
    BY CanSettle
  <2>1. cash[v].reserved >= Committed(v) /\ cash[v].reserved \in Nat /\ Committed(v) \in Nat
    BY <1>7, CanSettle, HeldType DEF BillingTypeOK
  <2>2. CASE v # u
    <3>1. Committed(v)' = Committed(v)
      BY <1>4, <2>2, CommittedSame
    <3> QED
      BY <1>8, <2>1, <2>2, <3>1
  <2>3. CASE v = u /\ ~credited
    <3>1. task' = task
      BY <1>3, <1>4, <2>3
    <3>2. Committed(v)' = Committed(v)
      BY <1>4, <3>1, CommittedSame
    <3> QED
      BY <1>1, <1>8, <2>1, <2>3, <3>2
  <2>4. CASE v = u /\ credited
    <3>1. task'[t] = row /\ t \notin Held(u)
      BY <1>3, <1>4, <2>4 DEF Held
    <3>2. Committed(u)' = Committed(u) + task'[t].cents
      BY <1>1, <1>2, <1>3, <1>4, <1>7, <3>1, CommittedMore
    <3> QED
      BY <1>1, <1>2, <1>8, <2>1, <2>4, <3>1, <3>2
  <2> QED
    BY <2>2, <2>3, <2>4
<1> QED
  BY <1>4, <1>5, <1>6, <1>8, <1>9, <1>10, <1>11, <1>12 DEF CashInv

LEMMA CommitReservationSteps ==
  ASSUME BillingAssumption, BillingInv, NEW x \in flight, NEW credited \in BOOLEAN,
         CommitReservation(x, credited)
  PROVE  BillingInv'
<1>1. /\ UNCHANGED <<plan, order, code, event, refund, shelf>> /\ flight' = flight \ {x}
      /\ TakeImages(x) /\ TakeCash(x) /\ task[x.task] = None
      /\ task' = [task EXCEPT ![x.task] =
                    IF credited THEN [status |-> "ACTIVE", images |-> x.images, cents |-> x.cents]
                    ELSE None]
  BY DEF CommitReservation, shop
<1>2. /\ x \in ReserveRows
      /\ \A s \in Sources : x.take[s] > 0 => entitlement[s] # None
      /\ x.images <= Tally(x.take)
      /\ x.images * UnitCents + x.cents = Need[x.task] * UnitCents
  BY DEF BillingInv, FlightOK, StillTrue, CommitReservation, PayRows, RefundRows
<1>3. x.task \in TaskKeys /\ x.images \in Nat /\ x.cents \in Nat /\ x.take \in [Sources -> Nat]
  BY <1>2 DEF ReserveRows
<1>4. /\ ImageInv'
      /\ entitlement' \in [Sources -> EntitlementRows \cup {None}]
      /\ \A s \in Sources :
           /\ entitlement[s] = None => entitlement'[s] = None
           /\ entitlement[s] # None =>
                entitlement'[s] # None /\ entitlement'[s].user = entitlement[s].user
           /\ Grants(s)' = Grants(s)
      /\ imageLedger \subseteq imageLedger'
      /\ Tally(x.take) <= AmountOf(Drawn(x.task))'
  BY <1>1, <1>2, ImagesTaken
<1>5. /\ CashInv'
      /\ cash' \in [Payers -> [available : Nat, reserved : Nat]]
      /\ task' \in [TaskKeys -> TaskRows \cup {None}]
      /\ cashLedger \subseteq cashLedger'
      /\ x.cents > 0 => \E e \in cashLedger' : e.key = <<"reserve", x.task>> /\ e.amount = x.cents
  BY <1>1, <1>2, CashTaken
<1>6. BillingTypeOK'
  BY <1>1, <1>4, <1>5 DEF BillingInv, BillingTypeOK
<1>7. FlightOK' /\ ShelfOK'
  BY <1>1, <1>4, FlightStays, ShelfStays DEF BillingInv
<1>8. GrantsOK'
  <2> SUFFICES ASSUME NEW s \in Sources PROVE GrantOK(s)'
    BY DEF GrantsOK
  <2>1. GrantOK(s) /\ (Earned(s)' <=> Earned(s)) /\ order' = order
    BY <1>1 DEF BillingInv, GrantsOK, Earned
  <2> QED
    BY <1>4, <2>1, GrantStays
<1>9. FullyCovered'
  <2> SUFFICES ASSUME NEW t \in TaskKeys, task'[t] # None PROVE Covered(t)'
    BY CoveredAll
  <2>1. Priced(imageLedger) /\ Priced(imageLedger')
    BY <1>4 DEF BillingInv, ImageInv, ImageLedgerOK
  <2>2. task \in [TaskKeys -> TaskRows \cup {None}]
    BY DEF BillingInv, BillingTypeOK
  <2>3. CASE t # x.task
    <3>1. task'[t] = task[t] /\ task[t] \in TaskRows /\ Covered(t)
      BY <1>1, <1>3, <2>2, <2>3, CoveredAll DEF BillingInv
    <3> QED
      BY <1>4, <1>5, <2>1, <3>1, CoveredStays
  <2>4. CASE t = x.task
    <3>1. task'[t] = [status |-> "ACTIVE", images |-> x.images, cents |-> x.cents]
      BY <1>1, <1>3, <2>2, <2>4
    <3>2. task'[t].images = x.images /\ task'[t].cents = x.cents
      BY <3>1
    <3>3. Tally(x.take) \in Nat
      BY <1>3, SourcesFinite, TallyType
    <3>4. AmountOf(Drawn(t))' \in Nat
      <4>1. Priced(Drawn(t)')
        BY <2>1, PricedPart DEF Drawn
      <4>2. AmountOf(Drawn(t)') \in Nat
        BY <4>1, AmountType
      <4> QED
        BY <4>2 DEF AmountOf
    <3>5. task'[t].images <= AmountOf(Drawn(t))'
      BY <1>2, <1>3, <1>4, <2>4, <3>2, <3>3, <3>4
    <3> QED
      BY <1>2, <1>5, <2>4, <3>2, <3>5 DEF Covered
  <2> QED
    BY <2>3, <2>4
<1> QED
  BY <1>4, <1>5, <1>6, <1>7, <1>8, <1>9 DEF BillingInv

-----------------------------------------------------------------------------
(* Settlements.                                                            *)

(* No entry names a task, so that no images are settled.                   *)
LEMMA NoImagesSettled ==
  ASSUME BillingAssumption, BillingInv, NEW t \in TaskKeys, NEW mode, SettleImages(t, mode)
  PROVE  entitlement' = entitlement /\ imageLedger' = imageLedger
<1>1. Entries(t) = {}
  BY DEF Entries, BillingInv, ImageInv, ImageLedgerOK, BillingAssumption
<1>2. imageLedger' = imageLedger
  BY <1>1 DEF SettleImages
<1> DEFINE Settled(s) == AmountOf({e \in Entries(t) : e.source = s})
           back == IF mode = "RELEASE" THEN 1 ELSE 0
<1>3. ASSUME NEW s PROVE Settled(s) = 0
  <2>1. {e \in Entries(t) : e.source = s} = {}
    BY <1>1
  <2> QED
    BY <2>1, AmountOfNone
<1>4. entitlement' = [s \in Sources |->
        IF entitlement[s] = None THEN None
        ELSE [entitlement[s] EXCEPT !.reserved = @ - Settled(s),
                                    !.available = @ + back * Settled(s)]]
  BY DEF SettleImages
<1>5. back * 0 = 0
  OBVIOUS
<1> HIDE DEF Settled, back
<1>6. ASSUME NEW s \in Sources PROVE entitlement'[s] = entitlement[s]
  <2>1. CASE entitlement[s] = None
    BY <1>4, <2>1
  <2>2. CASE entitlement[s] # None
    <3>1. entitlement[s] \in EntitlementRows
      BY <2>2 DEF BillingInv, BillingTypeOK
    <3>2. entitlement'[s] = [entitlement[s] EXCEPT !.reserved = @ - 0, !.available = @ + 0]
      BY <1>3, <1>4, <1>5, <2>2
    <3>3. ASSUME NEW r \in EntitlementRows
          PROVE  [r EXCEPT !.reserved = @ - 0, !.available = @ + 0] = r
      <4>1. r.reserved - 0 = r.reserved /\ r.available + 0 = r.available
        BY DEF EntitlementRows
      <4>2. [r EXCEPT !.reserved = r.reserved, !.available = r.available] = r
        BY DEF EntitlementRows
      <4> QED
        BY <4>1, <4>2
    <3> QED
      BY <3>1, <3>2, <3>3
  <2> QED
    BY <2>1, <2>2
<1>7. entitlement \in [Sources -> EntitlementRows \cup {None}] /\ entitlement' = [s \in Sources |-> entitlement'[s]]
  BY <1>4 DEF BillingInv, BillingTypeOK
<1> QED
  BY <1>2, <1>6, <1>7

LEMMA SettleSteps ==
  ASSUME BillingAssumption, BillingInv, NEW t \in TaskKeys, NEW mode \in {"RELEASE", "CONSUME"},
         SettlePaidBilling(t, mode)
  PROVE  BillingInv'
<1> DEFINE u == TaskUser[t]
           n == task[t].cents
           row == [task[t] EXCEPT !.status = mode]
           e == CashEntry(mode, u, <<mode, t>>, n)
<1>1. UNCHANGED <<plan, order, code, event, refund, entitlement, shelf, imageLedger, flight>>
  BY NoImagesSettled DEF SettlePaidBilling, shop
<1>2. /\ task \in [TaskKeys -> TaskRows \cup {None}] /\ None \notin TaskRows
      /\ task[t] \in TaskRows /\ task[t].status = "ACTIVE" /\ n \in Nat /\ u \in Payers
  BY DEF SettlePaidBilling, BillingInv, BillingTypeOK, BillingAssumption, TaskRows
<1>3. /\ row \in TaskRows /\ row # None /\ row.status = mode /\ row.cents = n
      /\ row.images = task[t].images
  BY <1>2 DEF TaskRows
<1>4. task' = [task EXCEPT ![t] = row]
  BY <1>2 DEF SettlePaidBilling
<1>5. e.type = mode /\ e.key = <<mode, t>> /\ e.amount = n
  BY DEF CashEntry
<1>6. /\ n = 0 => cash' = cash /\ cashLedger' = cashLedger
      /\ n # 0 => /\ cashLedger' = cashLedger \cup {e}
                  /\ Posted(mode, u, <<mode, t>>, n)
                  /\ CashMoves(u, <<mode, t>>, IF mode = "RELEASE" THEN n ELSE 0, -n)
  BY DEF SettlePaidBilling, SettleCash, money, Posted, CashMoves
<1> HIDE DEF row, e
<1>7. /\ task' \in [TaskKeys -> TaskRows \cup {None}] /\ task'[t] = row
      /\ \A z \in TaskKeys : z # t => task'[z] = task[z]
  BY <1>2, <1>3, <1>4
<1>8. BillingTypeOK /\ CashMatchesLedger /\ CashLedgerOK /\ CashSettled /\ CanAlwaysSettle /\ Priced(cashLedger)
  BY DEF BillingInv, CashInv, CashLedgerOK
<1>9. /\ CashMatchesLedger' /\ Priced(cashLedger')
      /\ cash' \in [Payers -> [available : Nat, reserved : Nat]]
      /\ cash'[u].reserved = cash[u].reserved - n
      /\ \A v \in Payers : v # u => cash'[v] = cash[v]
  <2>1. CASE n = 0
    <3>1. cash' = cash /\ cashLedger' = cashLedger
      BY <1>6, <2>1
    <3>2. \A v, ty : CashOf(v, ty)' = CashOf(v, ty)
      BY <3>1 DEF CashOf, AmountOf
    <3>3. cash[u].reserved \in Nat
      BY <1>2, <1>8 DEF BillingTypeOK
    <3>4. CashMatchesLedger' /\ Priced(cashLedger')
      BY <1>8, <3>1, <3>2 DEF CashMatchesLedger, Priced
    <3> QED
      BY <1>8, <2>1, <3>1, <3>3, <3>4 DEF BillingTypeOK
  <2>2. CASE n # 0
    <3>1. /\ CashChange(mode, n).available = IF mode = "RELEASE" THEN n ELSE 0
          /\ CashChange(mode, n).reserved = -n
      <4>1. CASE mode = "RELEASE"
        BY <4>1 DEF CashChange
      <4>2. CASE mode = "CONSUME"
        BY <4>2 DEF CashChange
      <4> QED
        BY <4>1, <4>2
    <3>2. CashMoves(u, <<mode, t>>, CashChange(mode, n).available, CashChange(mode, n).reserved)
      BY <1>6, <2>2, <3>1
    <3>3. Posted(mode, u, <<mode, t>>, n)
      BY <1>6, <2>2
    <3> HIDE DEF u, n
    <3>4. /\ CashMatchesLedger' /\ Priced(cashLedger')
          /\ cash' \in [Payers -> [available : Nat, reserved : Nat]]
          /\ cash'[u].reserved = cash[u].reserved + CashChange(mode, n).reserved
          /\ \A v \in Payers : v # u => cash'[v] = cash[v]
      BY <1>2, <1>8, <3>2, <3>3, CashMatches
    <3>5. cash[u].reserved \in Nat
      BY <1>2, <1>8 DEF BillingTypeOK
    <3> QED
      BY <1>2, <3>1, <3>4, <3>5
  <2> QED
    BY <2>1, <2>2
<1>10. cashLedger \subseteq cashLedger' /\ \A f \in cashLedger' : f \in cashLedger \/ (f = e /\ n # 0)
  BY <1>6
<1>11. CashLedgerOK'
  <2>1. ASSUME NEW f \in cashLedger' PROVE CashEntryOK(f)'
    <3>1. CASE f \in cashLedger
      <4>1. CashEntryOK(f)
        BY <1>8, <3>1 DEF CashLedgerOK
      <4>2. CASE f.type \in {"GRANT", "RESERVE"}
        BY <4>1, <4>2 DEF CashEntryOK
      <4>3. CASE f.type \in {"RELEASE", "CONSUME"}
        <5>1. PICK z \in TaskKeys : /\ f.key = <<f.type, z>> /\ task[z] # None
                                    /\ task[z].status = f.type /\ task[z].cents = f.amount
          BY <4>1, <4>3 DEF CashEntryOK
        <5>2. z # t
          BY <1>2, <4>3, <5>1
        <5> QED
          BY <1>7, <4>3, <5>1, <5>2 DEF CashEntryOK
      <4> QED
        BY <4>1, <4>2, <4>3 DEF CashEntryOK
    <3>2. CASE f = e
      BY <1>3, <1>5, <1>7, <3>2 DEF CashEntryOK
    <3> QED
      BY <1>10, <3>1, <3>2
  <2> QED
    BY <1>9, <2>1 DEF CashLedgerOK
<1>12. CashSettled'
  <2> SUFFICES ASSUME NEW z \in TaskKeys, task'[z] # None, task'[z].status # "ACTIVE", task'[z].cents > 0
               PROVE  \E f \in cashLedger' : f.type = task'[z].status /\ f.key = <<task'[z].status, z>>
    BY DEF CashSettled
  <2>1. CASE z = t
    <3>1. e \in cashLedger'
      BY <1>2, <1>3, <1>6, <1>7, <2>1
    <3> QED
      BY <1>3, <1>5, <1>7, <2>1, <3>1
  <2>2. CASE z # t
    BY <1>7, <1>8, <1>10, <2>2 DEF CashSettled
  <2> QED
    BY <2>1, <2>2
<1>13. CanAlwaysSettle'
  <2> SUFFICES ASSUME NEW v \in Payers PROVE cash'[v].reserved >= Committed(v)'
    BY CanSettle
  <2>1. cash[v].reserved >= Committed(v) /\ cash[v].reserved \in Nat /\ Committed(v) \in Nat
    BY <1>8, CanSettle, HeldType DEF BillingTypeOK
  <2>2. CASE v # u
    <3>1. Committed(v)' = Committed(v)
      BY <1>7, <2>2, CommittedSame
    <3> QED
      BY <1>9, <2>1, <2>2, <3>1
  <2>3. CASE v = u
    <3>1. t \in Held(u)
      BY <1>2 DEF Held
    <3>2. Committed(u) = Committed(u)' + n
      BY <1>3, <1>7, <1>8, <3>1, CommittedLess
    <3>3. Committed(u)' \in Nat
      <4>1. BillingTypeOK'
        BY <1>1, <1>7, <1>8, <1>9 DEF BillingTypeOK
      <4>2. IsFiniteSet(Held(u)')
        BY FS_Subset DEF Held, BillingAssumption
      <4>3. [z \in Held(u)' |-> task'[z].cents] \in [Held(u)' -> Nat]
        BY <1>7 DEF Held, TaskRows
      <4>4. Committed(u)' = Tally([z \in Held(u)' |-> task'[z].cents])
        BY DEF Committed, Tally, Coins
      <4> QED
        BY <4>2, <4>3, <4>4, TallyType
    <3> QED
      BY <1>2, <1>9, <2>1, <2>3, <3>2, <3>3
  <2> QED
    BY <2>2, <2>3
<1>14. CashInv'
  BY <1>9, <1>11, <1>12, <1>13 DEF CashInv
<1>15. BillingTypeOK'
  BY <1>1, <1>7, <1>8, <1>9 DEF BillingTypeOK
<1>16. FlightOK' /\ ShelfOK' /\ ImageInv'
  BY <1>1, FlightStays, ShelfStays, ImagesStay DEF BillingInv
<1>17. GrantsOK'
  BY <1>1, GrantsStay DEF BillingInv, Earned
<1>18. FullyCovered'
  <2> SUFFICES ASSUME NEW z \in TaskKeys, task'[z] # None PROVE Covered(z)'
    BY CoveredAll
  <2>1. /\ task[z] \in TaskRows /\ task'[z].images = task[z].images
        /\ task'[z].cents = task[z].cents
    BY <1>2, <1>3, <1>7
  <2>2. Covered(z)
    BY <1>2, <2>1, CoveredAll DEF BillingInv
  <2>3. Priced(imageLedger) /\ Priced(imageLedger') /\ imageLedger \subseteq imageLedger'
    BY <1>1, <1>16 DEF BillingInv, ImageInv, ImageLedgerOK
  <2> QED
    BY <1>10, <2>1, <2>2, <2>3, CoveredStays
<1> QED
  BY <1>14, <1>15, <1>16, <1>17, <1>18 DEF BillingInv

-----------------------------------------------------------------------------
(* The theorems.                                                           *)

LEMMA BillingStarts == ASSUME BillingAssumption, BillingInit PROVE BillingInv
<1>1. BillingTypeOK
  BY DEF BillingInit, BillingTypeOK
<1>2. FlightOK /\ ShelfOK
  BY DEF BillingInit, FlightOK, ShelfOK
<1>3. Priced(cashLedger) /\ Priced(imageLedger)
  BY FS_EmptySet DEF BillingInit, Priced
<1>4. CashLedgerOK /\ CashSettled /\ ImageLedgerOK
  BY <1>3 DEF BillingInit, CashLedgerOK, CashSettled, ImageLedgerOK
<1>5. \A u, type : CashOf(u, type) = 0
  <2>1. \A u, type : {e \in cashLedger : e.user = u /\ e.type = type} = {}
    BY DEF BillingInit
  <2> QED
    BY <2>1, AmountOfNone DEF CashOf
<1>6. CashMatchesLedger
  BY <1>5 DEF BillingInit, CashMatchesLedger
<1>7. CanAlwaysSettle
  <2> SUFFICES ASSUME NEW u \in Payers PROVE cash[u].reserved >= Committed(u)
    BY CanSettle
  <2>1. DOMAIN [t \in Held(u) |-> task[t].cents] = {}
    BY DEF BillingInit, Held
  <2>2. Committed(u) = 0
    BY <2>1, TallyEmpty DEF Committed
  <2> QED
    BY <2>2 DEF BillingInit
<1>8. GrantsOK
  <2>1. ASSUME NEW s \in Sources PROVE ~Earned(s) /\ Grants(s) = {} /\ entitlement[s] = None
    BY DEF BillingInit, Earned, Grants, Sources
  <2> QED
    BY <2>1 DEF GrantsOK, GrantOK
<1>9. NoImageTwice
  <2>1. \A s, type : {e \in imageLedger : e.source = s /\ e.type = type} = {}
    BY DEF BillingInit
  <2>2. \A s, type : ImagesOf(s, type) = 0
    BY <2>1, AmountOfNone DEF ImagesOf
  <2> QED
    BY <2>2 DEF BillingInit, NoImageTwice
<1>10. FullyCovered
  BY DEF BillingInit, FullyCovered
<1> QED
  BY <1>1, <1>2, <1>4, <1>6, <1>7, <1>8, <1>9, <1>10 DEF BillingInv, CashInv, ImageInv

LEMMA BillingSteps ==
  ASSUME BillingAssumption, BillingInv, [BillingNext]_billingVars
  PROVE  BillingInv'
<1>1. CASE Shop
  <2>1. CASE \E p \in Plans : CreatePlan(p) \/ PublishPlan(p)
    BY <2>1, PlanSteps
  <2>2. CASE \E o \in Orders, u \in Payers, p \in Plans : CreateOrder(o, u, p)
    BY <2>2, OrderSteps
  <2>3. CASE \/ \E C \in (SUBSET Codes) \ {{}}, p \in Plans : CreateRedemptionCodes(C, p)
             \/ \E c \in Codes : DisableRedemptionCode(c)
    BY <2>3, CodeSteps
  <2>4. CASE \E c \in Codes, u \in Payers : RedeemCode(c, u)
    BY <2>4, RedeemSteps
  <2>5. CASE Expire
    BY <2>5, ExpireSteps
  <2> QED
    BY <1>1, <2>1, <2>2, <2>3, <2>4, <2>5 DEF Shop
<1>2. CASE Payments
  <2>1. CASE \E e \in Events, o \in Orders, cents \in {PriceCents[p] : p \in Plans} \cup {0} :
               ReadPayment(e, o, cents)
    BY <2>1, ReadPaymentSteps
  <2>2. CASE \E r \in RefundKeys, o \in Orders : ReadRefund(r, o)
    BY <2>2, ReadRefundSteps
  <2>3. CASE \E u \in Payers, k \in CashKeys : GrantCash(u, k)
    BY <2>3, GrantCashSteps
  <2>4. CASE \E x \in flight : CommitPayment(x) \/ CommitRefund(x) \/ Abort(x)
    BY <2>4, CommitPaymentSteps, CommitRefundSteps, AbortSteps
  <2> QED
    BY <1>2, <2>1, <2>2, <2>3, <2>4 DEF Payments
<1>3. CASE Paying
  <2>1. CASE \E t \in TaskKeys : ReadAllocation(t)
    BY <2>1, ReadAllocationSteps
  <2>2. CASE \E x \in flight, credited \in BOOLEAN : CommitReservation(x, credited)
    BY <2>2, CommitReservationSteps
  <2>3. CASE \E t \in TaskKeys, mode \in {"RELEASE", "CONSUME"} : SettlePaidBilling(t, mode)
    BY <2>3, SettleSteps
  <2> QED
    BY <1>3, <2>1, <2>2, <2>3 DEF Paying
<1>4. CASE UNCHANGED billingVars
  <2>1. UNCHANGED <<plan, order, code, event, refund, entitlement, shelf, imageLedger,
                    cash, cashLedger, task, flight>>
    BY <1>4 DEF billingVars, shop, images, money
  <2>2. event' \in [Events -> {None, "PROCESSED", "IGNORED"}]
    BY <2>1 DEF BillingInv, BillingTypeOK
  <2> QED
    BY <2>1, <2>2, OnlyReads
<1> QED
  BY <1>1, <1>2, <1>3, <1>4 DEF BillingNext

LEMMA BillingInvariant == BillingSpec => []BillingInv
<1>1. BillingInit => BillingInv
  BY BillingStarts, BillingAssumption
<1>2. BillingInv /\ [BillingNext]_billingVars => BillingInv'
  BY BillingSteps, BillingAssumption
<1> QED
  BY <1>1, <1>2, PTL DEF BillingSpec

(* Every row has the values its columns allow (schema.prisma).             *)
THEOREM BillingTypesCorrect == BillingSpec => []BillingTypeOK
<1>1. BillingInv => BillingTypeOK
  BY DEF BillingInv
<1> QED
  BY <1>1, BillingInvariant, PTL

(* The balances of every account are what its ledger adds up to, and the   *)
(* cash of a task is settled once, in full, as the task ended              *)
(* (reserveCash, settlePaidBilling).                                       *)
THEOREM CashAddsUp == BillingSpec => []CashIsAccounted
<1>1. ASSUME BillingInv PROVE CashSettledOnce
  <2> SUFFICES ASSUME NEW t \in TaskKeys, task[t] # None, task[t].cents > 0
               PROVE  {<<e.type, e.amount>> :
                         e \in {x \in cashLedger : x.key \in {<<"RELEASE", t>>, <<"CONSUME", t>>}}}
                        = IF task[t].status = "ACTIVE" THEN {} ELSE {<<task[t].status, task[t].cents>>}
    BY DEF CashSettledOnce
  <2> DEFINE S == {x \in cashLedger : x.key \in {<<"RELEASE", t>>, <<"CONSUME", t>>}}
  <2>1. task[t].status \in {"ACTIVE", "RELEASE", "CONSUME"}
    BY <1>1 DEF BillingInv, BillingTypeOK, TaskRows
  <2>2. ASSUME NEW e \in S
        PROVE  /\ task[t].status # "ACTIVE" /\ e.type = task[t].status
               /\ e.amount = task[t].cents
    <3>1. CashEntryOK(e)
      BY <1>1 DEF BillingInv, CashInv, CashLedgerOK
    <3>2. <<"RELEASE", t>> \notin CashKeys /\ <<"CONSUME", t>> \notin CashKeys
      BY BillingAssumption DEF BillingAssumption
    <3>3. e.key \in {<<"RELEASE", t>>, <<"CONSUME", t>>}
      OBVIOUS
    <3>4. e.type # "GRANT" \/ e.key \notin CashKeys
      BY <3>2, <3>3
    <3>5. PICK z \in TaskKeys : /\ e.type \in {"RELEASE", "CONSUME"} /\ e.key = <<e.type, z>>
                               /\ task[z].status = e.type /\ task[z].cents = e.amount
      BY <3>1, <3>3, <3>4 DEF CashEntryOK
    <3>6. z = t
      BY <3>3, <3>5
    <3> QED
      BY <3>5, <3>6
  <2>3. CASE task[t].status = "ACTIVE"
    BY <2>2, <2>3
  <2>4. CASE task[t].status # "ACTIVE"
    <3>1. PICK e \in cashLedger : e.type = task[t].status /\ e.key = <<task[t].status, t>>
      BY <1>1, <2>4 DEF BillingInv, CashInv, CashSettled
    <3>2. e \in S
      BY <2>1, <2>4, <3>1
    <3> HIDE DEF S
    <3>3. \A f \in S : <<f.type, f.amount>> = <<task[t].status, task[t].cents>>
      BY <2>2
    <3>4. {<<f.type, f.amount>> : f \in S} = {<<task[t].status, task[t].cents>>}
      BY <3>2, <3>3
    <3> QED
      BY <2>4, <3>4 DEF S
  <2> QED
    BY <2>3, <2>4
<1>2. BillingInv => CashIsAccounted
  BY <1>1 DEF BillingInv, CashInv, CashIsAccounted
<1> QED
  BY <1>2, BillingInvariant, PTL

(* However payments, refunds, redemptions and reservations overlap, no     *)
(* images are granted twice for one payment or code, and none are drawn on *)
(* twice (recordPayment, redeemCode, allocateEntitlements).                *)
THEOREM NothingIsPaidTwice == BillingSpec => []PaidOnce
<1>1. ASSUME BillingInv PROVE GrantedOnce
  <2> SUFFICES ASSUME NEW s \in Sources
               PROVE  /\ Cardinality(Grants(s)) = IF Earned(s) THEN 1 ELSE 0
                      /\ Earned(s) <=> entitlement[s] # None
                      /\ s \in Orders /\ Earned(s) => entitlement[s].user = order[s].user
    BY DEF GrantedOnce, Grants, Earned
  <2>1. GrantOK(s)
    BY <1>1 DEF BillingInv, GrantsOK
  <2>2. Cardinality({}) = 0 /\ \A e : Cardinality({e}) = 1
    BY FS_EmptySet, FS_Singleton
  <2> QED
    BY <2>1, <2>2 DEF GrantOK
<1>2. BillingInv => PaidOnce
  BY <1>1 DEF BillingInv, ImageInv, PaidOnce
<1> QED
  BY <1>2, BillingInvariant, PTL

(* A task exists only when all of its images are paid for, and the cash    *)
(* that its settlement needs is always there (createTask, settlement).     *)
THEOREM TasksAreCovered == BillingSpec => []AlwaysCovered
<1>1. BillingInv => AlwaysCovered
  BY DEF BillingInv, CashInv, AlwaysCovered
<1> QED
  BY <1>1, BillingInvariant, PTL

(* A reservation that read an entitlement before its order was refunded    *)
(* does not draw on it afterwards (the update's condition on the status).  *)
THEOREM RefundsClose == BillingSpec => RefundedIsClosed
<1> DEFINE Closed == \A s \in Sources :
             entitlement[s] # None /\ entitlement[s].status = "REFUNDED" =>
               entitlement'[s].status = "REFUNDED" /\ entitlement'[s].reserved <= entitlement[s].reserved
<1>1. ASSUME BillingInv, [BillingNext]_billingVars PROVE Closed
  <2> SUFFICES ASSUME NEW s \in Sources, entitlement[s] # None, entitlement[s].status = "REFUNDED"
               PROVE  /\ entitlement'[s].status = "REFUNDED"
                      /\ entitlement'[s].reserved <= entitlement[s].reserved
    OBVIOUS
  <2>0. /\ entitlement \in [Sources -> EntitlementRows \cup {None}]
        /\ entitlement[s] \in EntitlementRows /\ entitlement[s].reserved \in Nat
    BY <1>1 DEF BillingInv, BillingTypeOK, EntitlementRows
  <2>1. CASE entitlement'[s] = entitlement[s]
    BY <2>0, <2>1
  <2>2. ASSUME NEW c \in Codes, NEW u \in Payers, RedeemCode(c, u)
        PROVE  entitlement'[s] = entitlement[s]
    <3>1. c \in Sources /\ c \notin Orders /\ code[c].status = "ACTIVE"
      BY <2>2, BillingAssumption DEF RedeemCode, ClaimCode, Sources, BillingAssumption
    <3>2. entitlement[c] = None
      BY <1>1, <3>1 DEF BillingInv, GrantsOK, GrantOK, Earned
    <3>3. s # c
      BY <3>2
    <3> QED
      BY <2>0, <2>2, <3>3 DEF RedeemCode, GrantEntitlement
  <2>3. ASSUME NEW x \in flight, CommitPayment(x)
        PROVE  entitlement'[s] = entitlement[s]
    <3> DEFINE o == x.order
    <3>1. x \in PayRows /\ o \in Orders /\ o \in Sources
      BY <1>1, <2>3 DEF BillingInv, FlightOK, StillTrue, CommitPayment, PayRows, RefundRows, ReserveRows, Sources
    <3>2. Unused(imageLedger, <<"grant", o>>)
      BY <2>3 DEF CommitPayment, GrantEntitlement, GrantKey
    <3>3. GrantOK(o)
      BY <1>1, <3>1 DEF BillingInv, GrantsOK
    <3>4. entitlement[o] = None
      BY <3>1, <3>2, <3>3 DEF GrantOK, Grants, Unused
    <3>5. s # o
      BY <3>4
    <3> QED
      BY <2>0, <2>3, <3>5 DEF CommitPayment, GrantEntitlement
  <2>4. ASSUME NEW x \in flight, CommitRefund(x)
        PROVE  entitlement'[s].status = "REFUNDED" /\ entitlement'[s].reserved = entitlement[s].reserved
    BY <2>0, <2>4 DEF CommitRefund, EntitlementRows
  <2>5. ASSUME NEW x \in flight, NEW credited \in BOOLEAN, CommitReservation(x, credited)
        PROVE  entitlement'[s] = entitlement[s]
    BY <2>5 DEF CommitReservation, TakeImages
  <2>6. ASSUME NEW t \in TaskKeys, NEW mode \in {"RELEASE", "CONSUME"}, SettlePaidBilling(t, mode)
        PROVE  entitlement'[s] = entitlement[s]
    BY <1>1, <2>6, BillingAssumption, NoImagesSettled DEF SettlePaidBilling
  <2>7. CASE Shop
    <3>1. CASE \E c \in Codes, u \in Payers : RedeemCode(c, u)
      BY <2>1, <2>2, <3>1
    <3>2. CASE ~ \E c \in Codes, u \in Payers : RedeemCode(c, u)
      BY <2>1, <2>7, <3>2 DEF Shop, CreatePlan, PublishPlan, CreateOrder, CreateRedemptionCodes,
                              DisableRedemptionCode, Expire, images
    <3> QED
      BY <3>1, <3>2
  <2>8. CASE Payments
    <3>1. CASE \E x \in flight : CommitPayment(x)
      BY <2>1, <2>3, <3>1
    <3>2. CASE \E x \in flight : CommitRefund(x)
      BY <2>0, <2>4, <3>2
    <3>3. CASE ~ \E x \in flight : CommitPayment(x) \/ CommitRefund(x)
      BY <2>1, <2>8, <3>3 DEF Payments, ReadPayment, ReadRefund, GrantCash, Abort, images
    <3> QED
      BY <3>1, <3>2, <3>3
  <2>9. CASE Paying
    <3>1. CASE \E t \in TaskKeys : ReadAllocation(t)
      BY <2>1, <3>1 DEF ReadAllocation, images
    <3>2. CASE ~ \E t \in TaskKeys : ReadAllocation(t)
      BY <2>1, <2>5, <2>6, <2>9, <3>2 DEF Paying
    <3> QED
      BY <3>1, <3>2
  <2>10. CASE UNCHANGED billingVars
    BY <2>1, <2>10 DEF billingVars, images
  <2> QED
    BY <1>1, <2>7, <2>8, <2>9, <2>10 DEF BillingNext
<1>2. BillingInv /\ [BillingNext]_billingVars => [Closed]_billingVars
  BY <1>1
<1>3. BillingSpec => [][Closed]_billingVars
  BY <1>2, BillingInvariant, PTL DEF BillingSpec
<1> QED
  BY <1>3 DEF RefundedIsClosed

-----------------------------------------------------------------------------
(* The refinement of Purse.                                                *)

(* A reservation takes, from packages of the task's user, exactly the      *)
(* images it says, and cash for all others.                                *)
Exact(x) ==
  /\ Tally(x.take) = x.images /\ x.images <= Need[x.task]
  /\ x.cents = (Need[x.task] - x.images) * UnitCents
  /\ \A s \in Sources : x.take[s] > 0 => HolderOf[s] = TaskUser[x.task]

ExactOK == \A x \in flight : x.op = "reserve" => Exact(x)

KeysOnce == \A e, f \in cashLedger : e.key = f.key => e = f

PurseInv == BillingInv /\ ExactOK /\ KeysOnce

LEMMA PackagesStay ==
  ASSUME UNCHANGED <<entitlement, imageLedger>>
  PROVE  UNCHANGED <<HolderOf, ImagesLeft, Refunded, DrawnOn>>
BY DEF HolderOf, ImagesLeft, Refunded, DrawnOn

LEMMA CoinsStay ==
  ASSUME UNCHANGED <<cash, cashLedger>>
  PROVE  UNCHANGED <<FreeCash, Pledged, FateOf>>
BY DEF FreeCash, Pledged, FateOf, CashEntered, AmountOf

LEMMA PurseStays ==
  ASSUME UNCHANGED <<entitlement, imageLedger, cash, cashLedger>>
  PROVE  UNCHANGED Purses!purseVars
BY PackagesStay, CoinsStay DEF Purses!purseVars, Purses!packages, Purses!coins

(* An entry of another type, or with another key, draws on nothing.        *)
LEMMA NotDrawn ==
  ASSUME NEW e, e.type # "RESERVE", imageLedger' = imageLedger \cup {e}
  PROVE  DrawnOn' = DrawnOn
BY DEF DrawnOn

(* What a step does to the entries of a task's key.                        *)
LEMMA CashWritten ==
  ASSUME NEW e, cashLedger' = cashLedger \cup {e}
  PROVE  \A kind, t : CashEntered(kind, t)' =
           IF e.key = <<kind, t>> THEN CashEntered(kind, t) \cup {e} ELSE CashEntered(kind, t)
BY DEF CashEntered

(* A settlement's key is written by none but the settlement of a task.     *)
LEMMA NotYetEntered ==
  ASSUME BillingAssumption, BillingInv, NEW t \in TaskKeys, NEW mode \in {"RELEASE", "CONSUME"},
         CashEntered(mode, t) # {}
  PROVE  task[t] # None /\ task[t].status = mode
<1>1. PICK e \in cashLedger : e.key = <<mode, t>>
  BY DEF CashEntered
<1>2. CashEntryOK(e)
  BY DEF BillingInv, CashInv, CashLedgerOK
<1>3. <<mode, t>> \notin CashKeys
  BY DEF BillingAssumption
<1>4. \A r \in TaskKeys : <<mode, t>> # <<"reserve", r>>
  OBVIOUS
<1>5. e.type \in {"RELEASE", "CONSUME"}
  BY <1>1, <1>2, <1>3, <1>4 DEF CashEntryOK
<1>6. PICK r \in TaskKeys : e.key = <<e.type, r>> /\ task[r] # None /\ task[r].status = e.type
  BY <1>2, <1>5 DEF CashEntryOK
<1>7. e.type = mode /\ r = t
  BY <1>1, <1>6
<1> QED
  BY <1>6, <1>7

LEMMA OneEntry == ASSUME NEW e, e.amount \in Nat PROVE AmountOf({e}) = e.amount
<1>1. Priced({}) /\ AmountOf({}) = 0
  BY FS_EmptySet, AmountOfNone DEF Priced
<1>2. AmountOf({} \cup {e}) = AmountOf({}) + e.amount
  BY <1>1, AmountAdd
<1>3. {} \cup {e} = {e}
  OBVIOUS
<1> QED
  BY <1>1, <1>2, <1>3

-----------------------------------------------------------------------------
(* Packages are received and closed, and cash is deposited.                *)

LEMMA Receives ==
  ASSUME BillingAssumption, BillingInv, NEW s \in Sources, NEW u \in Payers, NEW p \in Plans, NEW key,
         GrantEntitlement(s, u, p, key), entitlement[s] = None, UNCHANGED <<cash, cashLedger>>
  PROVE  Purses!PurseNext
<1> DEFINE n == Images[p]
           row == [user |-> u, available |-> Images[p], reserved |-> 0, status |-> "ACTIVE"]
<1>1. n \in {Images[q] : q \in Plans}
  OBVIOUS
<1>2. /\ entitlement \in [Sources -> EntitlementRows \cup {None}]
      /\ Images[p] \in Nat /\ None \notin EntitlementRows
  BY DEF BillingInv, BillingTypeOK, BillingAssumption
<1>3. /\ row # None /\ row.user = u /\ row.available = n /\ row.status = "ACTIVE"
      /\ entitlement' = [entitlement EXCEPT ![s] = row]
  BY <1>2 DEF GrantEntitlement, EntitlementRows
<1>4. UNCHANGED <<FreeCash, Pledged, FateOf>>
  BY CoinsStay
<1>5. DrawnOn' = DrawnOn
  BY NotDrawn DEF GrantEntitlement
<1> HIDE DEF row, n
<1>6. entitlement'[s] = row /\ \A z \in Sources : z # s => entitlement'[z] = entitlement[z]
  BY <1>2, <1>3
<1>7. HolderOf[s] = None /\ HolderOf' = [HolderOf EXCEPT ![s] = u]
  <2>1. ASSUME NEW z \in Sources
        PROVE  (IF entitlement'[z] = None THEN None ELSE entitlement'[z].user)
                 = IF z = s THEN u ELSE HolderOf[z]
    BY <1>3, <1>6 DEF HolderOf
  <2>2. HolderOf' = [z \in Sources |-> IF z = s THEN u ELSE HolderOf[z]]
    BY <2>1 DEF HolderOf
  <2> QED
    BY <2>2 DEF HolderOf
<1>8. ImagesLeft' = [ImagesLeft EXCEPT ![s] = n]
  <2>1. ASSUME NEW z \in Sources
        PROVE  (IF entitlement'[z] = None THEN 0 ELSE entitlement'[z].available)
                 = IF z = s THEN n ELSE ImagesLeft[z]
    BY <1>3, <1>6 DEF ImagesLeft
  <2>2. ImagesLeft' = [z \in Sources |-> IF z = s THEN n ELSE ImagesLeft[z]]
    BY <2>1 DEF ImagesLeft
  <2> QED
    BY <2>2 DEF ImagesLeft
<1>9. Refunded' = Refunded
  BY <1>3, <1>6 DEF Refunded
<1>10. Purses!Receive(s, u, n)
  BY <1>4, <1>5, <1>7, <1>8, <1>9 DEF Purses!Receive, Purses!coins
<1> QED
  BY <1>1, <1>10 DEF Purses!PurseNext

LEMMA RedeemReceives ==
  ASSUME BillingAssumption, BillingInv, NEW c \in Codes, NEW u \in Payers, RedeemCode(c, u)
  PROVE  Purses!PurseNext
<1>1. c \in Sources /\ c \notin Orders /\ code[c] \in CodeRows /\ code[c].status = "ACTIVE"
  BY DEF RedeemCode, ClaimCode, BillingInv, BillingTypeOK, Sources, BillingAssumption
<1>2. PICK p \in Plans : p = code[c].plan
  BY <1>1 DEF CodeRows
<1>3. entitlement[c] = None
  BY <1>1 DEF BillingInv, GrantsOK, GrantOK, Earned
<1>4. GrantEntitlement(c, u, p, <<"redemption", c>>) /\ UNCHANGED <<cash, cashLedger>>
  BY <1>2 DEF RedeemCode, money
<1> QED
  BY <1>1, <1>3, <1>4, Receives

LEMMA PaymentReceives ==
  ASSUME BillingAssumption, BillingInv, NEW x \in flight, CommitPayment(x)
  PROVE  Purses!PurseNext
<1> DEFINE o == x.order
<1>1. o \in Orders /\ o \in Sources /\ order[o] # None
  BY DEF BillingInv, FlightOK, StillTrue, CommitPayment, PayRows, RefundRows, ReserveRows, Sources
<1>2. order[o] \in OrderRows
  BY <1>1 DEF BillingInv, BillingTypeOK
<1>3. PICK u \in Payers, p \in Plans : u = order[o].user /\ p = order[o].plan
  BY <1>2 DEF OrderRows
<1>4. GrantEntitlement(o, u, p, <<"grant", o>>) /\ UNCHANGED <<cash, cashLedger>>
  BY <1>3 DEF CommitPayment, GrantKey, money
<1>5. entitlement[o] = None
  <2>1. GrantOK(o) /\ Unused(imageLedger, <<"grant", o>>)
    BY <1>1, <1>4 DEF BillingInv, GrantsOK, GrantEntitlement
  <2> QED
    BY <1>1, <2>1 DEF GrantOK, Grants, Unused
<1> QED
  BY <1>1, <1>4, <1>5, Receives

LEMMA RefundCloses ==
  ASSUME BillingAssumption, BillingInv, NEW x \in flight, CommitRefund(x)
  PROVE  Purses!PurseNext
<1> DEFINE o == x.order
           row == [entitlement[o] EXCEPT !.available = 0, !.status = "REFUNDED"]
<1>1. /\ o \in Orders /\ o \in Sources
      /\ order[o] # None /\ order[o].status # "PENDING"
  BY DEF BillingInv, FlightOK, StillTrue, CommitRefund, PayRows, RefundRows, ReserveRows, Sources
<1>2. entitlement[o] # None
  BY <1>1 DEF BillingInv, GrantsOK, GrantOK, Earned
<1>3. /\ entitlement \in [Sources -> EntitlementRows \cup {None}] /\ None \notin EntitlementRows
      /\ entitlement[o] \in EntitlementRows
  BY <1>1, <1>2 DEF BillingInv, BillingTypeOK, BillingAssumption
<1>4. row \in EntitlementRows /\ row.user = entitlement[o].user /\ row.available = 0 /\ row.status = "REFUNDED"
  BY <1>3 DEF EntitlementRows
<1>5. entitlement' = [entitlement EXCEPT ![o] = row]
  BY <1>1, <1>3 DEF CommitRefund
<1>6. UNCHANGED <<FreeCash, Pledged, FateOf>>
  BY CoinsStay DEF CommitRefund, money
<1>7. DrawnOn' = DrawnOn
  BY NotDrawn DEF CommitRefund
<1> HIDE DEF row, o
<1>8. /\ entitlement'[o] = row /\ row # None
      /\ \A z \in Sources : z # o => entitlement'[z] = entitlement[z]
  BY <1>1, <1>3, <1>4, <1>5
<1>9. HolderOf[o] = entitlement[o].user /\ entitlement[o].user # None /\ HolderOf' = HolderOf
  <2>1. entitlement[o].user # None
    BY <1>3 DEF EntitlementRows, BillingAssumption
  <2>2. ASSUME NEW z \in Sources
        PROVE  (IF entitlement'[z] = None THEN None ELSE entitlement'[z].user)
                 = (IF entitlement[z] = None THEN None ELSE entitlement[z].user)
    BY <1>2, <1>4, <1>8
  <2> QED
    BY <1>1, <1>2, <2>1, <2>2 DEF HolderOf
<1>10. ImagesLeft' = [ImagesLeft EXCEPT ![o] = 0]
  BY <1>1, <1>4, <1>8 DEF ImagesLeft
<1>11. Refunded' = Refunded \cup {o}
  BY <1>1, <1>4, <1>8 DEF Refunded
<1>12. Purses!Close(o)
  BY <1>6, <1>7, <1>9, <1>10, <1>11 DEF Purses!Close, Purses!coins
<1> QED
  BY <1>1, <1>12 DEF Purses!PurseNext

LEMMA FreeCashMoves ==
  ASSUME BillingInv, NEW u \in Payers, NEW key, NEW a \in Int, NEW r \in Int, CashMoves(u, key, a, r)
  PROVE  /\ FreeCash[u] \in Nat /\ cash[u].available = FreeCash[u]
         /\ FreeCash' = [FreeCash EXCEPT ![u] = @ + a]
<1> DEFINE row == [cash[u] EXCEPT !.available = @ + a, !.reserved = @ + r]
<1>1. cash \in [Payers -> [available : Nat, reserved : Nat]] /\ cash[u] \in [available : Nat, reserved : Nat]
  BY DEF BillingInv, BillingTypeOK
<1>2. row.available = cash[u].available + a /\ cash' = [cash EXCEPT ![u] = row]
  BY <1>1 DEF CashMoves
<1> HIDE DEF row
<1>3. ASSUME NEW v \in Payers
      PROVE  cash'[v].available = IF v = u THEN FreeCash[u] + a ELSE FreeCash[v]
  BY <1>1, <1>2 DEF FreeCash
<1>4. FreeCash' = [v \in Payers |-> IF v = u THEN FreeCash[u] + a ELSE FreeCash[v]]
  BY <1>3 DEF FreeCash
<1> QED
  BY <1>1, <1>4 DEF FreeCash

LEMMA GrantDeposits ==
  ASSUME BillingAssumption, BillingInv, NEW u \in Payers, NEW k \in CashKeys, GrantCash(u, k)
  PROVE  Purses!PurseNext
<1> DEFINE e == CashEntry("GRANT", u, k, GrantCents)
<1>1. FreeCash' = [FreeCash EXCEPT ![u] = @ + GrantCents]
  <2>1. GrantCents \in Int /\ 0 \in Int /\ CashMoves(u, k, GrantCents, 0)
    BY DEF GrantCash, BillingAssumption
  <2> QED
    BY <2>1, FreeCashMoves
<1>2. e.key = k /\ cashLedger' = cashLedger \cup {e}
  BY DEF GrantCash, CashEntry
<1> HIDE DEF e
<1>3. \A t \in TaskKeys : \A kind \in {"reserve", "RELEASE", "CONSUME"} :
        CashEntered(kind, t)' = CashEntered(kind, t)
  <2>1. \A t \in TaskKeys : \A kind \in {"reserve", "RELEASE", "CONSUME"} : e.key # <<kind, t>>
    BY <1>2 DEF BillingAssumption
  <2> QED
    BY <1>2, <2>1, CashWritten
<1>4. Pledged' = Pledged /\ FateOf' = FateOf
  <2>1. \A t \in TaskKeys : AmountOf(CashEntered("reserve", t)') = AmountOf(CashEntered("reserve", t))
    BY <1>3
  <2>2. Pledged' = [t \in TaskKeys |-> AmountOf(CashEntered("reserve", t)')]
    BY DEF Pledged, AmountOf
  <2>3. FateOf' = FateOf
    BY <1>3 DEF FateOf
  <2> QED
    BY <2>1, <2>2, <2>3 DEF Pledged
<1>5. UNCHANGED <<HolderOf, ImagesLeft, Refunded, DrawnOn>>
  BY PackagesStay DEF GrantCash, images
<1>6. Purses!Deposit(u)
  BY <1>1, <1>4, <1>5 DEF Purses!Deposit, Purses!packages
<1> QED
  BY <1>6 DEF Purses!PurseNext

-----------------------------------------------------------------------------
(* A task is paid.                                                         *)

LEMMA TakesFromPackages ==
  ASSUME BillingAssumption, PurseInv, NEW x \in ReserveRows, TakeImages(x), Exact(x),
         \A s \in Sources : x.take[s] > 0 => entitlement[s] # None
  PROVE  /\ \A s \in Taken(x) : /\ x.take[s] <= ImagesLeft[s] /\ s \notin Refunded
                                /\ HolderOf[s] = TaskUser[x.task] /\ <<x.task, s>> \notin DrawnOn
         /\ ImagesLeft' = [s \in Sources |-> ImagesLeft[s] - x.take[s]]
         /\ DrawnOn' = DrawnOn \cup {<<x.task, s>> : s \in Taken(x)}
         /\ HolderOf' = HolderOf /\ Refunded' = Refunded
<1> DEFINE t == x.task
           row(s) == [entitlement[s] EXCEPT !.available = @ - x.take[s], !.reserved = @ + x.take[s]]
<1>1. /\ x.take \in [Sources -> Nat] /\ t \in TaskKeys
      /\ entitlement \in [Sources -> EntitlementRows \cup {None}] /\ None \notin EntitlementRows
  BY DEF ReserveRows, PurseInv, BillingInv, BillingTypeOK, BillingAssumption
<1>2. ASSUME NEW s
      PROVE  /\ ReserveEntry(x, s).type = "RESERVE"
             /\ ReserveEntry(x, s).key = <<"reserve", t, s>>
  BY DEF ReserveEntry
<1>3. ASSUME NEW s \in Taken(x)
      PROVE  /\ s \in Sources /\ x.take[s] > 0 /\ x.take[s] \in Nat
             /\ entitlement[s] \in EntitlementRows /\ entitlement[s] # None
             /\ entitlement[s].status = "ACTIVE" /\ entitlement[s].available >= x.take[s]
             /\ Unused(imageLedger, <<"reserve", t, s>>)
  BY <1>1, <1>2 DEF Taken, TakeImages
<1>4. ASSUME NEW s \in Taken(x)
      PROVE  /\ x.take[s] <= ImagesLeft[s] /\ s \notin Refunded
             /\ HolderOf[s] = TaskUser[x.task] /\ <<x.task, s>> \notin DrawnOn
  <2>1. ImagesLeft[s] = entitlement[s].available /\ s \notin Refunded /\ HolderOf[s] = TaskUser[t]
    BY <1>3 DEF ImagesLeft, Refunded, Exact
  <2>2. x.take[s] <= ImagesLeft[s]
    BY <1>3, <2>1 DEF EntitlementRows
  <2>3. <<t, s>> \notin DrawnOn
    BY <1>3 DEF DrawnOn, Unused
  <2> QED
    BY <2>1, <2>2, <2>3
<1>5. ASSUME NEW s \in Taken(x)
      PROVE  /\ row(s) # None /\ row(s).available = entitlement[s].available - x.take[s]
             /\ row(s).user = entitlement[s].user /\ row(s).status = entitlement[s].status
  <2>0. entitlement[s].available \in Nat /\ entitlement[s].reserved \in Nat
    BY <1>3 DEF EntitlementRows
  <2>1. entitlement[s].available - x.take[s] \in Nat /\ entitlement[s].reserved + x.take[s] \in Nat
    <3>1. x.take[s] \in Nat /\ entitlement[s].available >= x.take[s]
      BY <1>3
    <3> QED
      BY <2>0, <3>1
  <2>2. row(s) \in EntitlementRows
    BY <1>3, <2>1 DEF EntitlementRows
  <2> QED
    BY <1>1, <1>3, <2>2 DEF EntitlementRows
<1>6. \A s \in Sources : entitlement'[s] = IF s \in Taken(x) THEN row(s) ELSE entitlement[s]
  BY DEF TakeImages
<1> HIDE DEF row, t
<1>7. ASSUME NEW s \in Sources
      PROVE  /\ (entitlement'[s] = None) <=> (entitlement[s] = None)
             /\ entitlement[s] # None =>
                  /\ entitlement'[s].user = entitlement[s].user
                  /\ entitlement'[s].status = entitlement[s].status
             /\ (IF entitlement'[s] = None THEN 0 ELSE entitlement'[s].available)
                  = ImagesLeft[s] - x.take[s]
  <2>1. CASE s \in Taken(x)
    BY <1>3, <1>5, <1>6, <2>1 DEF ImagesLeft
  <2>2. CASE s \notin Taken(x)
    <3>1. x.take[s] = 0 /\ entitlement'[s] = entitlement[s]
      BY <1>1, <1>6, <2>2 DEF Taken
    <3>2. ImagesLeft[s] \in Nat
      BY <1>1 DEF ImagesLeft, EntitlementRows
    <3> QED
      BY <3>1, <3>2 DEF ImagesLeft
  <2> QED
    BY <2>1, <2>2
<1>8. ImagesLeft' = [s \in Sources |-> ImagesLeft[s] - x.take[s]]
  BY <1>7 DEF ImagesLeft
<1>9. HolderOf' = HolderOf
  <2>1. ASSUME NEW s \in Sources
        PROVE  (IF entitlement'[s] = None THEN None ELSE entitlement'[s].user) = HolderOf[s]
    BY <1>7 DEF HolderOf
  <2>2. HolderOf' = [s \in Sources |-> HolderOf[s]]
    BY <2>1 DEF HolderOf
  <2> QED
    BY <2>2 DEF HolderOf
<1>10. Refunded' = Refunded
  BY <1>7 DEF Refunded
<1>11. DrawnOn' = DrawnOn \cup {<<x.task, s>> : s \in Taken(x)}
  <2>1. ASSUME NEW r \in TaskKeys, NEW s \in Sources
        PROVE  <<r, s>> \in DrawnOn' <=> <<r, s>> \in DrawnOn \/ (r = x.task /\ s \in Taken(x))
    <3>1. imageLedger' = imageLedger \cup {ReserveEntry(x, z) : z \in Taken(x)}
      BY DEF TakeImages
    <3>2. (\E e \in imageLedger' : e.type = "RESERVE" /\ e.key = <<"reserve", r, s>>) <=>
            \/ \E e \in imageLedger : e.type = "RESERVE" /\ e.key = <<"reserve", r, s>>
            \/ \E z \in Taken(x) : <<"reserve", t, z>> = <<"reserve", r, s>>
      BY <1>2, <3>1
    <3>3. (\E z \in Taken(x) : <<"reserve", t, z>> = <<"reserve", r, s>>) <=> t = r /\ s \in Taken(x)
      OBVIOUS
    <3> QED
      BY <3>2, <3>3 DEF DrawnOn, t
  <2>2. DrawnOn \subseteq TaskKeys \X Sources /\ DrawnOn' \subseteq TaskKeys \X Sources
    BY DEF DrawnOn
  <2>3. Taken(x) \subseteq Sources /\ x.task \in TaskKeys
    BY <1>1 DEF Taken, t
  <2> QED
    BY <2>1, <2>2, <2>3
<1> QED
  BY <1>4, <1>8, <1>9, <1>10, <1>11

LEMMA TakesFromCash ==
  ASSUME BillingAssumption, PurseInv, NEW x \in ReserveRows, TakeCash(x), task[x.task] = None, x.cents # 0
  PROVE  Purses!SetAside(x.task, x.cents)
<1> DEFINE t == x.task
           u == TaskUser[t]
           e == CashEntry("RESERVE", u, <<"reserve", t>>, x.cents)
<1>1. t \in TaskKeys /\ x.cents \in Nat /\ u \in Payers /\ -x.cents \in Int
  BY DEF ReserveRows, BillingAssumption
<1>2. e.key = <<"reserve", t>> /\ e.amount = x.cents
  BY DEF CashEntry
<1>3. /\ CashMoves(u, <<"reserve", t>>, -x.cents, x.cents)
      /\ cashLedger' = cashLedger \cup {e} /\ Unused(cashLedger, <<"reserve", t>>)
  BY DEF TakeCash, CashMoves
<1> HIDE DEF e
<1>4. /\ FreeCash[u] \in Nat /\ FreeCash' = [FreeCash EXCEPT ![u] = @ - x.cents]
      /\ x.cents <= FreeCash[u]
  <2>1. /\ FreeCash[u] \in Nat /\ FreeCash[u] = cash[u].available
        /\ FreeCash' = [FreeCash EXCEPT ![u] = @ + (-x.cents)]
    BY <1>1, <1>3, FreeCashMoves DEF PurseInv
  <2>2. cash[u].available + (-x.cents) >= 0
    BY <1>3 DEF CashMoves
  <2>3. FreeCash[u] + (-x.cents) = FreeCash[u] - x.cents
    BY <1>1, <2>1
  <2>4. FreeCash' = [FreeCash EXCEPT ![u] = FreeCash[u] - x.cents]
    BY <2>1, <2>3
  <2>5. x.cents <= FreeCash[u]
    BY <1>1, <2>1, <2>2
  <2> QED
    BY <2>1, <2>4, <2>5
<1>5. /\ CashEntered("reserve", t) = {} /\ CashEntered("RELEASE", t) = {} /\ CashEntered("CONSUME", t) = {}
  <2>1. CashEntered("reserve", t) = {}
    BY <1>3 DEF Unused, CashEntered
  <2> QED
    BY <1>1, <2>1, NotYetEntered DEF PurseInv
<1>6. \A kind \in {"reserve", "RELEASE", "CONSUME"}, z \in TaskKeys :
        CashEntered(kind, z)' = IF kind = "reserve" /\ z = t THEN {e} ELSE CashEntered(kind, z)
  <2>1. \A kind, z : CashEntered(kind, z)' =
           IF e.key = <<kind, z>> THEN CashEntered(kind, z) \cup {e} ELSE CashEntered(kind, z)
    BY <1>3, CashWritten
  <2>2. \A kind, z : e.key = <<kind, z>> <=> kind = "reserve" /\ z = t
    BY <1>2
  <2> QED
    BY <1>5, <2>1, <2>2
<1>7. Pledged' = [Pledged EXCEPT ![t] = x.cents]
  <2>1. AmountOf({e}) = x.cents
    BY <1>1, <1>2, OneEntry
  <2>2. \A z \in TaskKeys : AmountOf(CashEntered("reserve", z)') = IF z = t THEN x.cents ELSE Pledged[z]
    BY <1>6, <2>1 DEF Pledged
  <2>3. Pledged' = [z \in TaskKeys |-> AmountOf(CashEntered("reserve", z)')]
    BY DEF Pledged, AmountOf
  <2>4. Pledged' = [z \in TaskKeys |-> IF z = t THEN x.cents ELSE Pledged[z]]
    BY <2>2, <2>3
  <2> QED
    BY <2>4 DEF Pledged
<1>8. FateOf[t] = "none" /\ FateOf' = [FateOf EXCEPT ![t] = "pledged"]
  <2>1. FateOf[t] = "none"
    BY <1>1, <1>5 DEF FateOf
  <2>2. FateOf'[t] = "pledged"
    BY <1>1, <1>5, <1>6 DEF FateOf
  <2>3. ASSUME NEW z \in TaskKeys, z # t PROVE FateOf'[z] = FateOf[z]
    BY <1>6, <2>3 DEF FateOf
  <2>4. FateOf' = [z \in TaskKeys |-> FateOf'[z]] /\ FateOf = [z \in TaskKeys |-> FateOf[z]]
    BY DEF FateOf
  <2> QED
    BY <2>1, <2>2, <2>3, <2>4
<1> QED
  BY <1>1, <1>4, <1>7, <1>8 DEF Purses!SetAside

LEMMA SameTally == \A f : Purses!Tally(f) = Tally(f)
BY DEF Purses!Tally, Purses!Coins, Purses!Cardinality, Tally, Coins, Cardinality

LEMMA ReservationPays ==
  ASSUME BillingAssumption, PurseInv, NEW x \in flight, NEW credited \in BOOLEAN,
         CommitReservation(x, credited)
  PROVE  Purses!PurseNext
<1> DEFINE t == x.task
           take == x.take
<1>1. /\ x \in ReserveRows /\ \A s \in Sources : x.take[s] > 0 => entitlement[s] # None
  BY DEF PurseInv, BillingInv, FlightOK, StillTrue, CommitReservation, PayRows, RefundRows, ReserveRows
<1>2. Exact(x) /\ TakeImages(x) /\ TakeCash(x) /\ task[t] = None
  BY DEF PurseInv, ExactOK, CommitReservation
<1>3. t \in TaskKeys /\ take \in [Sources -> Nat]
  BY <1>1 DEF ReserveRows
<1>4. Tally(take) <= Need[t] /\ x.cents = (Need[t] - Tally(take)) * UnitCents
  BY <1>2 DEF Exact
<1>5. take \in [Sources -> 0..Need[t]]
  <2>1. \A s \in Sources : take[s] <= Tally(take) /\ take[s] \in Nat
    BY <1>3, SourcesFinite, TallyOne
  <2>2. Need[t] \in Nat /\ Tally(take) \in Nat
    BY <1>3, SourcesFinite, TallyType DEF BillingAssumption
  <2>3. \A s \in Sources : take[s] \in 0..Need[t]
    BY <1>4, <2>1, <2>2
  <2> QED
    BY <1>3, <2>3
<1>6. /\ \A s \in Taken(x) : /\ x.take[s] <= ImagesLeft[s] /\ s \notin Refunded
                             /\ HolderOf[s] = TaskUser[x.task] /\ <<x.task, s>> \notin DrawnOn
      /\ ImagesLeft' = [s \in Sources |-> ImagesLeft[s] - x.take[s]]
      /\ DrawnOn' = DrawnOn \cup {<<x.task, s>> : s \in Taken(x)}
      /\ HolderOf' = HolderOf /\ Refunded' = Refunded
  BY <1>1, <1>2, TakesFromPackages
<1>7. IF x.cents = 0 THEN UNCHANGED <<FreeCash, Pledged, FateOf>> ELSE Purses!SetAside(t, x.cents)
  <2>1. CASE x.cents = 0
    BY <1>2, <2>1, CoinsStay DEF TakeCash, money
  <2>2. CASE x.cents # 0
    BY <1>1, <1>2, <2>2, TakesFromCash
  <2> QED
    BY <2>1, <2>2
<1>8. Purses!Pay(t, take)
  <2> DEFINE from == {s \in Sources : take[s] > 0}
             cents == (Need[t] - Tally(take)) * UnitCents
  <2>1. cents = x.cents /\ from = Taken(x)
    BY <1>4 DEF Taken
  <2>2. IF cents = 0 THEN UNCHANGED Purses!coins ELSE Purses!SetAside(t, cents)
    BY <1>7, <2>1 DEF Purses!coins
  <2>3. \A s \in from : /\ take[s] <= ImagesLeft[s] /\ s \notin Refunded
                        /\ HolderOf[s] = TaskUser[t] /\ <<t, s>> \notin DrawnOn
    BY <1>6, <2>1
  <2>4. DrawnOn' = DrawnOn \cup {<<t, s>> : s \in from}
    BY <1>6, <2>1
  <2> QED
    BY <1>4, <1>6, <2>2, <2>3, <2>4, SameTally DEF Purses!Pay
<1> QED
  BY <1>3, <1>5, <1>8 DEF Purses!PurseNext

-----------------------------------------------------------------------------
(* The cash of a task is given back or kept.                               *)

LEMMA CashSettles ==
  ASSUME BillingAssumption, PurseInv, NEW t \in TaskKeys, NEW mode \in {"RELEASE", "CONSUME"},
         SettlePaidBilling(t, mode), task[t].cents # 0
  PROVE  Purses!PurseNext
<1> DEFINE u == TaskUser[t]
           n == task[t].cents
           back == IF mode = "RELEASE" THEN n ELSE 0
           e == CashEntry(mode, u, <<mode, t>>, n)
<1>1. /\ task[t] # None /\ task[t].status = "ACTIVE" /\ task[t] \in TaskRows
      /\ n \in Nat /\ u \in Payers
  BY DEF SettlePaidBilling, PurseInv, BillingInv, BillingTypeOK, TaskRows, BillingAssumption
<1>2. /\ CashMoves(u, <<mode, t>>, back, -n) /\ cashLedger' = cashLedger \cup {e}
      /\ e.key = <<mode, t>>
  BY DEF SettlePaidBilling, SettleCash, CashEntry
<1>3. UNCHANGED <<HolderOf, ImagesLeft, Refunded, DrawnOn>>
  BY NoImagesSettled, PackagesStay DEF SettlePaidBilling, PurseInv
<1> HIDE DEF e
<1>4. FreeCash' = [FreeCash EXCEPT ![u] = @ + back]
  <2>1. back \in Int /\ -n \in Int
    BY <1>1
  <2> HIDE DEF back, u, n
  <2> QED
    BY <1>1, <1>2, <2>1, FreeCashMoves DEF PurseInv
<1>5. CashEntered("RELEASE", t) = {} /\ CashEntered("CONSUME", t) = {}
  BY <1>1, NotYetEntered DEF PurseInv
<1>6. CashEntered("reserve", t) # {} /\ Pledged[t] = n
  <2>0. task[t].cents > 0
    BY <1>1
  <2>1. PICK f \in cashLedger : f.key = <<"reserve", t>> /\ f.amount = n
    BY <1>1, <2>0 DEF PurseInv, BillingInv, FullyCovered
  <2>2. CashEntered("reserve", t) = {f}
    BY <2>1 DEF CashEntered, PurseInv, KeysOnce
  <2>3. AmountOf({f}) = n
    BY <1>1, <2>1, OneEntry
  <2> QED
    BY <2>2, <2>3 DEF Pledged
<1>7. FateOf[t] = "pledged"
  BY <1>5, <1>6 DEF FateOf
<1>8. \A kind \in {"reserve", "RELEASE", "CONSUME"}, z \in TaskKeys :
        CashEntered(kind, z)' = IF kind = mode /\ z = t THEN {e} ELSE CashEntered(kind, z)
  <2>1. \A kind, z : CashEntered(kind, z)' =
           IF e.key = <<kind, z>> THEN CashEntered(kind, z) \cup {e} ELSE CashEntered(kind, z)
    BY <1>2, CashWritten
  <2>2. \A kind, z : e.key = <<kind, z>> <=> kind = mode /\ z = t
    BY <1>2
  <2>3. CashEntered(mode, t) = {}
    BY <1>5
  <2> QED
    BY <2>1, <2>2, <2>3
<1>9. Pledged' = Pledged
  <2>1. \A z \in TaskKeys : AmountOf(CashEntered("reserve", z)') = Pledged[z]
    BY <1>8 DEF Pledged
  <2>2. Pledged' = [z \in TaskKeys |-> AmountOf(CashEntered("reserve", z)')]
    BY DEF Pledged, AmountOf
  <2>3. Pledged = [z \in TaskKeys |-> Pledged[z]]
    BY DEF Pledged
  <2> QED
    BY <2>1, <2>2, <2>3
<1>10. FateOf' = [FateOf EXCEPT ![t] = IF mode = "RELEASE" THEN "returned" ELSE "kept"]
  <2>1. FateOf'[t] = IF mode = "RELEASE" THEN "returned" ELSE "kept"
    <3>1. CASE mode = "RELEASE"
      <4>1. CashEntered("reserve", t)' # {} /\ CashEntered("RELEASE", t)' # {} /\ CashEntered("CONSUME", t)' = {}
        BY <1>5, <1>6, <1>8, <3>1
      <4> QED
        BY <3>1, <4>1 DEF FateOf
    <3>2. CASE mode = "CONSUME"
      <4>1. CashEntered("reserve", t)' # {} /\ CashEntered("RELEASE", t)' = {} /\ CashEntered("CONSUME", t)' # {}
        BY <1>5, <1>6, <1>8, <3>2
      <4> QED
        BY <3>2, <4>1 DEF FateOf
    <3> QED
      BY <3>1, <3>2
  <2>2. ASSUME NEW z \in TaskKeys, z # t PROVE FateOf'[z] = FateOf[z]
    BY <1>8, <2>2 DEF FateOf
  <2>3. FateOf' = [z \in TaskKeys |-> FateOf'[z]] /\ FateOf = [z \in TaskKeys |-> FateOf[z]]
    BY DEF FateOf
  <2> QED
    BY <2>1, <2>2, <2>3
<1>11. CASE mode = "RELEASE"
  <2>1. FreeCash' = [FreeCash EXCEPT ![TaskUser[t]] = @ + Pledged[t]]
    BY <1>4, <1>6, <1>11
  <2>2. FateOf' = [FateOf EXCEPT ![t] = "returned"]
    BY <1>10, <1>11
  <2>3. Purses!GiveBack(t)
    BY <1>3, <1>7, <1>9, <2>1, <2>2 DEF Purses!GiveBack, Purses!packages
  <2> QED
    BY <2>3 DEF Purses!PurseNext
<1>12. CASE mode = "CONSUME"
  <2>1. FreeCash' = FreeCash
    <3>1. FreeCash' = [FreeCash EXCEPT ![u] = @ + 0] /\ FreeCash[u] \in Nat
      <4>1. back = 0 /\ 0 \in Int /\ -n \in Int
        BY <1>1, <1>12
      <4>2. CashMoves(u, <<mode, t>>, 0, -n)
        BY <1>2, <4>1
      <4> HIDE DEF u, n
      <4> QED
        BY <1>1, <4>1, <4>2, FreeCashMoves DEF PurseInv
    <3>2. FreeCash = [v \in Payers |-> FreeCash[v]]
      BY DEF FreeCash
    <3> QED
      BY <3>1, <3>2
  <2>2. FateOf' = [FateOf EXCEPT ![t] = "kept"]
    BY <1>10, <1>12
  <2>3. Purses!Keep(t)
    BY <1>3, <1>7, <1>9, <2>1, <2>2 DEF Purses!Keep, Purses!packages
  <2> QED
    BY <2>3 DEF Purses!PurseNext
<1> QED
  BY <1>11, <1>12

LEMMA SettlementEnds ==
  ASSUME BillingAssumption, PurseInv, NEW t \in TaskKeys, NEW mode \in {"RELEASE", "CONSUME"},
         SettlePaidBilling(t, mode)
  PROVE  [Purses!PurseNext]_(Purses!purseVars)
<1>1. CASE task[t].cents # 0
  BY <1>1, CashSettles
<1>2. CASE task[t].cents = 0
  <2>1. UNCHANGED <<entitlement, imageLedger, cash, cashLedger>>
    BY <1>2, NoImagesSettled DEF SettlePaidBilling, SettleCash, money, PurseInv
  <2> QED
    BY <2>1, PurseStays
<1> QED
  BY <1>1, <1>2

-----------------------------------------------------------------------------
(* Each transaction does one of the things that Purse allows, or nothing.  *)

LEMMA PurseStep ==
  ASSUME BillingAssumption, PurseInv, [BillingNext]_billingVars
  PROVE  [Purses!PurseNext]_(Purses!purseVars)
<1>0. BillingInv
  BY DEF PurseInv
<1>1. CASE Shop
  <2>1. CASE \E c \in Codes, u \in Payers : RedeemCode(c, u)
    BY <1>0, <2>1, RedeemReceives
  <2>2. CASE ~ \E c \in Codes, u \in Payers : RedeemCode(c, u)
    <3>1. UNCHANGED <<entitlement, imageLedger, cash, cashLedger>>
      BY <1>1, <2>2 DEF Shop, CreatePlan, PublishPlan, CreateOrder, CreateRedemptionCodes,
                        DisableRedemptionCode, Expire, images, money
    <3> QED
      BY <3>1, PurseStays
  <2> QED
    BY <2>1, <2>2
<1>2. CASE Payments
  <2>1. CASE \E x \in flight : CommitPayment(x)
    BY <1>0, <2>1, PaymentReceives
  <2>2. CASE \E x \in flight : CommitRefund(x)
    BY <1>0, <2>2, RefundCloses
  <2>3. CASE \E u \in Payers, k \in CashKeys : GrantCash(u, k)
    BY <1>0, <2>3, GrantDeposits
  <2>4. CASE \/ \E e \in Events, o \in Orders, cents \in {PriceCents[p] : p \in Plans} \cup {0} :
                  ReadPayment(e, o, cents)
             \/ \E r \in RefundKeys, o \in Orders : ReadRefund(r, o)
             \/ \E x \in flight : Abort(x)
    <3>1. UNCHANGED <<entitlement, imageLedger, cash, cashLedger>>
      BY <2>4 DEF ReadPayment, ReadRefund, Abort, images, money
    <3> QED
      BY <3>1, PurseStays
  <2> QED
    BY <1>2, <2>1, <2>2, <2>3, <2>4 DEF Payments
<1>3. CASE Paying
  <2>1. CASE \E t \in TaskKeys : ReadAllocation(t)
    <3>1. UNCHANGED <<entitlement, imageLedger, cash, cashLedger>>
      BY <2>1 DEF ReadAllocation, images, money
    <3> QED
      BY <3>1, PurseStays
  <2>2. CASE \E x \in flight, credited \in BOOLEAN : CommitReservation(x, credited)
    BY <2>2, ReservationPays
  <2>3. CASE \E t \in TaskKeys, mode \in {"RELEASE", "CONSUME"} : SettlePaidBilling(t, mode)
    BY <2>3, SettlementEnds
  <2> QED
    BY <1>3, <2>1, <2>2, <2>3 DEF Paying
<1>4. CASE UNCHANGED billingVars
  BY <1>4, PurseStays DEF billingVars, images, money
<1> QED
  BY <1>1, <1>2, <1>3, <1>4 DEF BillingNext

(* Whose a package is does not change.                                     *)
LEMMA HoldersStay ==
  ASSUME BillingAssumption, [Purses!PurseNext]_(Purses!purseVars), NEW s \in Sources, HolderOf[s] # None
  PROVE  HolderOf'[s] = HolderOf[s]
<1>1. CASE UNCHANGED Purses!purseVars
  BY <1>1 DEF Purses!purseVars, Purses!packages
<1>2. CASE \E r \in Sources, u \in Payers, n \in {Images[p] : p \in Plans} : Purses!Receive(r, u, n)
  BY <1>2 DEF Purses!Receive, HolderOf
<1>3. CASE ~ \E r \in Sources, u \in Payers, n \in {Images[p] : p \in Plans} : Purses!Receive(r, u, n)
  <2>1. CASE Purses!PurseNext
    BY <1>3, <2>1 DEF Purses!PurseNext, Purses!Close, Purses!Deposit, Purses!Pay, Purses!GiveBack,
                      Purses!Keep, Purses!packages
  <2> QED
    BY <1>1, <2>1
<1> QED
  BY <1>2, <1>3

LEMMA KeysStayOnce ==
  ASSUME KeysOnce, [BillingNext]_billingVars
  PROVE  KeysOnce'
<1>1. ASSUME NEW key, NEW type, NEW u, NEW n, Unused(cashLedger, key),
             cashLedger' = cashLedger \cup {CashEntry(type, u, key, n)}
      PROVE  KeysOnce'
  BY <1>1 DEF KeysOnce, Unused, CashEntry
<1>2. ASSUME cashLedger' = cashLedger PROVE KeysOnce'
  BY <1>2 DEF KeysOnce
<1>3. CASE Shop \/ UNCHANGED billingVars
  BY <1>2, <1>3 DEF Shop, CreatePlan, PublishPlan, CreateOrder, CreateRedemptionCodes, DisableRedemptionCode,
                    RedeemCode, Expire, billingVars, money
<1>4. CASE Payments
  <2>1. ASSUME NEW u \in Payers, NEW k \in CashKeys, GrantCash(u, k) PROVE KeysOnce'
    BY <1>1, <2>1 DEF GrantCash, CashMoves
  <2>2. CASE ~ \E u \in Payers, k \in CashKeys : GrantCash(u, k)
    BY <1>2, <1>4, <2>2 DEF Payments, ReadPayment, ReadRefund, CommitPayment, CommitRefund, Abort, money
  <2> QED
    BY <2>1, <2>2
<1>5. CASE Paying
  <2>1. ASSUME NEW t \in TaskKeys, ReadAllocation(t) PROVE KeysOnce'
    BY <1>2, <2>1 DEF ReadAllocation, money
  <2>2. ASSUME NEW x \in flight, NEW credited \in BOOLEAN, CommitReservation(x, credited) PROVE KeysOnce'
    <3>1. TakeCash(x)
      BY <2>2 DEF CommitReservation
    <3> QED
      BY <1>1, <1>2, <3>1 DEF TakeCash, CashMoves, money
  <2>3. ASSUME NEW t \in TaskKeys, NEW mode \in {"RELEASE", "CONSUME"}, SettlePaidBilling(t, mode)
        PROVE  KeysOnce'
    <3>1. SettleCash(t, mode)
      BY <2>3 DEF SettlePaidBilling
    <3> QED
      BY <1>1, <1>2, <3>1 DEF SettleCash, CashMoves, money
  <2> QED
    BY <1>5, <2>1, <2>2, <2>3 DEF Paying
<1> QED
  BY <1>3, <1>4, <1>5 DEF BillingNext

(* What a reservation reads is exact when it reads it.                     *)
LEMMA ReadExactly ==
  ASSUME BillingAssumption, BillingInv, NEW t \in TaskKeys
  PROVE  Exact(Allocation(t))
<1> DEFINE u == TaskUser[t]
           n == Min({AvailableIn(Candidates(u)), Need[t]})
           a == Allocation(t)
<1>1. AvailableIn(Candidates(u)) \in Nat /\ Need[t] \in Nat
  BY AvailableType DEF BillingInv, BillingAssumption
<1>2. n \in Nat /\ n <= AvailableIn(Candidates(u)) /\ n <= Need[t]
  <2>1. AvailableIn(Candidates(u)) \in Int /\ Need[t] \in Int
    BY <1>1
  <2>2. /\ n \in {AvailableIn(Candidates(u)), Need[t]}
        /\ n <= AvailableIn(Candidates(u)) /\ n <= Need[t]
    BY <2>1, LeastOfTwo, Zenon
  <2> QED
    BY <1>1, <2>2
<1>3. a.task = t /\ a.take = Takes(u, n) /\ a.images = n /\ a.cents = (Need[t] - n) * UnitCents
  BY DEF Allocation
<1> HIDE DEF n, a, u
<1>4. /\ \A s \in Sources : Takes(u, n)[s] > 0 => entitlement[s] # None /\ entitlement[s].user = u
      /\ Tally(Takes(u, n)) = n
  BY <1>2, TakesExactly DEF BillingInv
<1>5. \A s \in Sources : a.take[s] > 0 => HolderOf[s] = u
  BY <1>3, <1>4 DEF HolderOf
<1>6. Exact(a)
  BY <1>2, <1>3, <1>4, <1>5 DEF Exact, u
<1> QED
  BY <1>6 DEF a

LEMMA StaysExact ==
  ASSUME BillingAssumption, PurseInv, [BillingNext]_billingVars
  PROVE  ExactOK'
<1>1. ASSUME NEW x \in flight, x.op = "reserve" PROVE Exact(x)'
  <2>1. Exact(x) /\ x \in ReserveRows
    BY <1>1 DEF PurseInv, ExactOK, BillingInv, FlightOK, StillTrue, PayRows, RefundRows
  <2>2. TaskUser[x.task] # None
    BY <2>1 DEF ReserveRows, BillingAssumption
  <2>3. ASSUME NEW s \in Sources, x.take[s] > 0 PROVE HolderOf'[s] = TaskUser[x.task]
    <3>1. HolderOf[s] = TaskUser[x.task]
      BY <2>1, <2>3 DEF Exact
    <3> QED
      BY <2>2, <3>1, HoldersStay, PurseStep
  <2> QED
    BY <2>1, <2>3 DEF Exact
<1>2. ASSUME flight' \subseteq flight PROVE ExactOK'
  BY <1>1, <1>2 DEF ExactOK
<1>3. CASE Shop \/ UNCHANGED billingVars
  BY <1>2, <1>3 DEF Shop, CreatePlan, PublishPlan, CreateOrder, CreateRedemptionCodes, DisableRedemptionCode,
                    RedeemCode, Expire, billingVars
<1>4. CASE Payments
  <2>1. CASE \/ \E e \in Events, o \in Orders, cents \in {PriceCents[p] : p \in Plans} \cup {0} :
                  ReadPayment(e, o, cents)
             \/ \E r \in RefundKeys, o \in Orders : ReadRefund(r, o)
    <3>1. \A x \in flight' : x \in flight \/ x.op # "reserve"
      BY <2>1 DEF ReadPayment, ReadRefund
    <3> QED
      BY <1>1, <3>1 DEF ExactOK
  <2>2. CASE \/ \E u \in Payers, k \in CashKeys : GrantCash(u, k)
             \/ \E x \in flight : CommitPayment(x) \/ CommitRefund(x) \/ Abort(x)
    BY <1>2, <2>2 DEF GrantCash, CommitPayment, CommitRefund, Abort
  <2> QED
    BY <1>4, <2>1, <2>2 DEF Payments
<1>5. CASE Paying
  <2>1. ASSUME NEW t \in TaskKeys, ReadAllocation(t) PROVE ExactOK'
    <3>1. flight' = flight \cup {Allocation(t)} /\ UNCHANGED entitlement
      BY <2>1 DEF ReadAllocation, images
    <3>2. Exact(Allocation(t))
      BY ReadExactly DEF PurseInv
    <3>3. HolderOf' = HolderOf
      BY <3>1 DEF HolderOf
    <3>4. \A x : Exact(x) => Exact(x)'
      BY <3>3 DEF Exact
    <3> QED
      BY <1>1, <3>1, <3>2, <3>4 DEF ExactOK
  <2>2. CASE \/ \E x \in flight, credited \in BOOLEAN : CommitReservation(x, credited)
             \/ \E t \in TaskKeys, mode \in {"RELEASE", "CONSUME"} : SettlePaidBilling(t, mode)
    BY <1>2, <2>2 DEF CommitReservation, SettlePaidBilling
  <2> QED
    BY <1>5, <2>1, <2>2 DEF Paying
<1> QED
  BY <1>3, <1>4, <1>5 DEF BillingNext

LEMMA PurseStarts == ASSUME BillingInit PROVE PurseInv /\ Purses!PurseInit
<1>1. BillingInv /\ flight = {} /\ cashLedger = {}
  BY BillingStarts, BillingAssumption DEF BillingInit
<1>2. PurseInv
  BY <1>1 DEF PurseInv, ExactOK, KeysOnce
<1>3. /\ \A s \in Sources : entitlement[s] = None
      /\ \A u \in Payers : cash[u].available = 0
      /\ imageLedger = {}
  BY DEF BillingInit
<1>4. HolderOf = [s \in Sources |-> None] /\ ImagesLeft = [s \in Sources |-> 0]
  BY <1>3 DEF HolderOf, ImagesLeft
<1>5. Refunded = {} /\ DrawnOn = {} /\ FreeCash = [u \in Payers |-> 0]
  BY <1>3 DEF Refunded, DrawnOn, FreeCash
<1>6. \A kind, t : CashEntered(kind, t) = {}
  BY <1>1 DEF CashEntered
<1>7. Pledged = [t \in TaskKeys |-> 0]
  BY <1>6, AmountOfNone DEF Pledged
<1>8. FateOf = [t \in TaskKeys |-> "none"]
  BY <1>6 DEF FateOf
<1> QED
  BY <1>2, <1>4, <1>5, <1>7, <1>8 DEF Purses!PurseInit

(* However transactions overlap, are repeated or fail, a payer's packages  *)
(* and cash change only as Purse says: packages are his alone, every task  *)
(* is paid for exactly, and what was set aside comes back or is kept, once *)
(* (reservePaidBilling and settlePaidBilling with their conditional        *)
(* updates and unique keys).                                               *)
THEOREM PursesAreKept == BillingSpec => ImplementsPurse
<1>1. BillingInit => PurseInv /\ Purses!PurseInit
  BY PurseStarts
<1>2. PurseInv /\ [BillingNext]_billingVars => PurseInv' /\ [Purses!PurseNext]_(Purses!purseVars)
  BY BillingSteps, BillingAssumption, PurseStep, KeysStayOnce, StaysExact DEF PurseInv
<1>3. BillingSpec => Purses!PurseSpec
  BY <1>1, <1>2, PTL DEF BillingSpec, Purses!PurseSpec
<1> QED
  BY <1>3 DEF ImplementsPurse

-----------------------------------------------------------------------------
(* The price in force (PriceRules).                                        *)

(* A publication under way archives versions that exist: an archived one   *)
(* may thus be overwritten, one that is absent may not.                    *)
ArchivesExisting ==
  \A a \in Administrators :
    publication[a] # NoPrice => publication[a].archives \subseteq Existing

(* Versions are numbered without gaps, so the next one is new.             *)
Numbered == \E n \in RuleVersions : Existing = 1..n

PRInv ==
  /\ PriceTypeOK
  /\ ArchivesExisting
  /\ Numbered
  /\ AlwaysPriced

Row == [unit : UnitPrices, status : {"DRAFT", "PUBLISHED", "ARCHIVED"}]

(* NoPrice is told from every row of the rule.                             *)
LEMMA RowsArePrices == \A x \in Row : x # NoPrice
  BY PriceAssumption DEF Row

LEMMA NextVersion ==
  ASSUME NEW n \in RuleVersions, Existing = 1..n
  PROVE  Max(Existing) = n
<1>1. n \in Existing /\ \A y \in Existing : n >= y
  BY PriceAssumption DEF RuleVersions
<1>2. ASSUME NEW x \in Existing, \A y \in Existing : x >= y
      PROVE  x = n
  <2>1. x >= n
    BY <1>1, <1>2
  <2> QED BY <2>1, PriceAssumption DEF RuleVersions
<1>3. \E x \in Existing : \A y \in Existing : x >= y
  BY <1>1
<1> QED BY <1>2, <1>3, Zenon DEF Max

LEMMA PricesInitially == PriceInit => PRInv
<1> SUFFICES ASSUME PriceInit PROVE PRInv
  OBVIOUS
<1>1. PICK p \in UnitPrices :
        rules = [v \in RuleVersions |->
                   IF v = 1 THEN [unit |-> p, status |-> "PUBLISHED"] ELSE NoPrice]
  BY DEF PriceInit
<1>2. 1 \in RuleVersions
  BY PriceAssumption DEF RuleVersions
<1>3. [unit |-> p, status |-> "PUBLISHED"] # NoPrice
  BY RowsArePrices DEF Row
<1>4. Existing = 1..1
  BY <1>1, <1>2, <1>3, PriceAssumption DEF Existing, RuleVersions
<1>5. 1 \in PublishedRules
  BY <1>1, <1>2, <1>4 DEF PublishedRules
<1>6. PriceTypeOK
  BY <1>1 DEF PriceInit, PriceTypeOK
<1>7. ArchivesExisting
  BY DEF PriceInit, ArchivesExisting
<1> QED BY <1>2, <1>4, <1>5, <1>6, <1>7 DEF PRInv, Numbered, AlwaysPriced

LEMMA PricesInductive == PRInv /\ [PriceNext]_priceVars => PRInv'
<1> SUFFICES ASSUME PRInv, [PriceNext]_priceVars
             PROVE  PRInv'
  OBVIOUS
<1> USE DEF PRInv
<1>1. ASSUME NEW p \in UnitPrices, CreateBillingRule(p)
      PROVE  PRInv'
  <2>1. PICK n \in RuleVersions : Existing = 1..n
    BY DEF Numbered
  <2>2. /\ n + 1 \in RuleVersions
        /\ rules' = [rules EXCEPT ![n + 1] = [unit |-> p, status |-> "DRAFT"]]
        /\ UNCHANGED <<promotion, publication>>
    BY <1>1, <2>1, NextVersion DEF CreateBillingRule
  <2>3. [unit |-> p, status |-> "DRAFT"] \in Row /\ [unit |-> p, status |-> "DRAFT"] # NoPrice
    BY RowsArePrices DEF Row
  <2>4. PriceTypeOK'
    BY <2>2, <2>3 DEF PriceTypeOK, Row
  <2>5. Existing' = Existing \cup {n + 1}
    BY <2>2, <2>3 DEF Existing, PriceTypeOK
  <2>6. Existing' = 1..(n + 1)
    BY <2>1, <2>2, <2>5 DEF RuleVersions
  <2>7. n + 1 \notin Existing
    BY <2>1, <2>2 DEF RuleVersions
  <2>8. PublishedRules \subseteq PublishedRules'
    BY <2>2, <2>5, <2>7 DEF PublishedRules, Existing, PriceTypeOK
  <2> QED BY <2>2, <2>4, <2>5, <2>6, <2>8 DEF ArchivesExisting, Numbered, AlwaysPriced
<1>2. ASSUME NEW a \in Administrators, NEW v \in RuleVersions, ReadPublished(a, v)
      PROVE  PRInv'
  <2>1. PublishedRules \subseteq Existing /\ Existing \subseteq RuleVersions
    BY DEF PublishedRules, Existing
  <2>2. UNCHANGED <<rules, promotion>>
    BY <1>2 DEF ReadPublished
  <2>3. Existing' = Existing /\ PublishedRules' = PublishedRules
    BY <2>2 DEF Existing, PublishedRules
  <2>4. PriceTypeOK'
    BY <1>2, <2>1, <2>2 DEF ReadPublished, PriceTypeOK
  <2>5. ArchivesExisting'
    BY <1>2, <2>1, <2>3 DEF ReadPublished, ArchivesExisting, PriceTypeOK
  <2> QED BY <2>2, <2>3, <2>4, <2>5 DEF Numbered, AlwaysPriced
<1>3. ASSUME NEW a \in Administrators, CommitPublication(a)
      PROVE  PRInv'
  <2> DEFINE x == publication[a]
  <2>1. x # NoPrice /\ x.version \in Existing
    BY <1>3 DEF CommitPublication
  <2>2. x.archives \subseteq Existing
    BY <2>1 DEF ArchivesExisting
  <2>3. \A v \in Existing : rules[v] \in Row
    BY DEF Existing, PriceTypeOK, Row
  <2>4. rules' = [v \in RuleVersions |->
           IF v = x.version THEN [rules[v] EXCEPT !.status = "PUBLISHED"]
           ELSE IF v \in x.archives THEN [rules[v] EXCEPT !.status = "ARCHIVED"]
           ELSE rules[v]]
    BY <1>3 DEF CommitPublication
  <2>5. \A v \in Existing : rules'[v] \in Row
    BY <2>2, <2>3, <2>4 DEF Row, Existing
  <2>6. \A v \in RuleVersions \ Existing : rules'[v] = rules[v]
    BY <2>1, <2>2, <2>4
  <2>7. Existing' = Existing
    BY <2>5, <2>6, RowsArePrices DEF Existing
  <2>8. x.version \in PublishedRules'
    BY <2>1, <2>3, <2>4, <2>7 DEF PublishedRules, Existing, Row
  <2>9. PriceTypeOK'
    <3>1. rules' \in [RuleVersions -> Row \cup {NoPrice}]
      BY <2>4, <2>5, <2>6 DEF Existing
    <3> QED BY <1>3, <3>1 DEF CommitPublication, PriceTypeOK, Row
  <2>10. ArchivesExisting'
    BY <1>3, <2>7 DEF CommitPublication, ArchivesExisting, PriceTypeOK
  <2> QED BY <2>7, <2>8, <2>9, <2>10 DEF Numbered, AlwaysPriced
<1>4. ASSUME NEW a \in Administrators, AbortPublication(a)
      PROVE  PRInv'
  BY <1>4 DEF AbortPublication, PriceTypeOK, ArchivesExisting, Numbered, AlwaysPriced,
              PublishedRules, Existing
<1>5. ASSUME NEW d \in Promotions, NEW v \in RuleVersions, NEW bps \in Discounts,
             CreatePromotion(d, v, bps)
      PROVE  PRInv'
  BY <1>5 DEF CreatePromotion, PriceTypeOK, ArchivesExisting, Numbered, AlwaysPriced,
              PublishedRules, Existing
<1>6. ASSUME UNCHANGED <<rules, promotion, publication>>
      PROVE  PRInv'
  BY <1>6 DEF PriceTypeOK, ArchivesExisting, Numbered, AlwaysPriced, PublishedRules, Existing
<1>7. (\E b \in Buyers, n \in ImageCounts : Quote(b, n)) \/ (\E b \in Buyers : UseQuote(b))
        => UNCHANGED <<rules, promotion, publication>>
  BY DEF Quote, UseQuote
<1>8. UNCHANGED priceVars => UNCHANGED <<rules, promotion, publication>>
  BY DEF priceVars
<1> QED BY <1>1, <1>2, <1>3, <1>4, <1>5, <1>6, <1>7, <1>8 DEF PriceNext

(* However publications overlap and fail, some version of the rule is in   *)
(* force: an image has a price whenever a quote is asked for.              *)
THEOREM AnImageHasAPrice == PriceSpec => []AlwaysPriced
<1>1. PRInv => AlwaysPriced
  BY DEF PRInv
<1> QED BY PricesInitially, PricesInductive, <1>1, PTL DEF PriceSpec

(* The rows of the rule, of promotions and publications keep their types.  *)
THEOREM PricesTypeCorrect == PriceSpec => []PriceTypeOK
<1>1. PRInv => PriceTypeOK
  BY DEF PRInv
<1> QED BY PricesInitially, PricesInductive, <1>1, PTL DEF PriceSpec

-----------------------------------------------------------------------------
(* The credits put right (Reconciliation).                                 *)

Kinds == {"RESERVE", "CONSUME", "RELEASE"}

WorkerRows ==
  [at : {"idle", "scan", "check", "repair", "reread", "write"}, window : 0..MaxWindow,
   seen : SUBSET (GenerationTasks \X Kinds), held : Nat,
   task : GenerationTasks \cup {NoTask}, kind : {"none", "CONSUME", "RELEASE"}]

(* The key of an entry tells what it was written for.                      *)
EntryOK(e) ==
  \E t \in GenerationTasks :
    \/ e = Entry("RESERVE", t, <<"reserve", t>>)
    \/ e = Entry("CONSUME", t, <<"consume", t>>)
    \/ e = Entry("RELEASE", t, <<"failure-release", t>>)
    \/ e = Entry("RELEASE", t, <<"cancel-release", t>>)

EntriesOK == IsFiniteSet(entries) /\ \A e \in entries : EntryOK(e)

Repairing == {"repair", "reread", "write"}

RowsOK ==
  /\ ReconciliationTypeOK
  /\ worker \in [Workers -> WorkerRows]
  /\ window \in 1..MaxWindow
  /\ faults \in Nat
  /\ EntriesOK

Settlements(t) == {e \in entries : e.task = t /\ e.type # "RESERVE"}

(* A task's entries are written when it is created and when it has ended,  *)
(* and its settlement is of the kind that its end calls for.               *)
EntriesFollowTasks ==
  \A t \in GenerationTasks :
    /\ status[t] = "NEW" => \A e \in entries : e.task # t
    /\ \A e \in Settlements(t) :
         /\ status[t] \in Ended \cup {"DELETED"}
         /\ status[t] \in Ended => e.type = LedgerTypeOf(status[t])

AtMostOne == \A t \in GenerationTasks : \A e, f \in Settlements(t) : e = f

(* While nothing has gone missing every end has its entry.                 *)
NothingMissing ==
  faults = 0 =>
    \A t \in GenerationTasks : status[t] \in Ended => HasEntry(LedgerTypeOf(status[t]), t)

EndedAs(row) ==
  IF row.kind = "CONSUME" THEN status[row.task] = "SUCCEEDED" ELSE status[row.task] \in Refused

RepairKey(row) ==
  IF row.kind = "CONSUME" THEN <<"consume", row.task>> ELSE <<"failure-release", row.task>>

(* What a repair has read stays true until its task is deleted: the task   *)
(* has ended as it must, and only another repair, with the same key, can   *)
(* have settled it since.                                                  *)
ReadingOf(row) ==
  /\ row.at \in Repairing => row.kind # "none"
  /\ row.at \in {"reread", "write"} => EndedAs(row) \/ status[row.task] = "DELETED"
  /\ row.at = "write" /\ status[row.task] # "DELETED" =>
       /\ faults # 0
       /\ \A e \in Settlements(row.task) : e.key = RepairKey(row)

ReadingsHold == \A k \in Workers : ReadingOf(worker[k])

(* A run exists from the time its worker claims it.                        *)
RunsClaimed ==
  \A k \in Workers : worker[k].at # "idle" =>
    worker[k].window \in 1..MaxWindow /\ run[worker[k].window] # "NONE"

RecInv ==
  /\ RowsOK /\ EntriesFollowTasks /\ AtMostOne /\ NothingMissing
  /\ ReadingsHold /\ RunsClaimed /\ OneWorkerPerWindow /\ RepairsNeedFaults
-----------------------------------------------------------------------------
(* Facts about entries, rows and sums.                                     *)

LEMMA KeysTell ==
  ASSUME NEW e, NEW f, EntryOK(e), EntryOK(f), e.key = f.key
  PROVE  e = f
<1>1. PICK t \in GenerationTasks :
        \/ e = Entry("RESERVE", t, <<"reserve", t>>)
        \/ e = Entry("CONSUME", t, <<"consume", t>>)
        \/ e = Entry("RELEASE", t, <<"failure-release", t>>)
        \/ e = Entry("RELEASE", t, <<"cancel-release", t>>)
  BY DEF EntryOK
<1>2. PICK u \in GenerationTasks :
        \/ f = Entry("RESERVE", u, <<"reserve", u>>)
        \/ f = Entry("CONSUME", u, <<"consume", u>>)
        \/ f = Entry("RELEASE", u, <<"failure-release", u>>)
        \/ f = Entry("RELEASE", u, <<"cancel-release", u>>)
  BY DEF EntryOK
<1> QED
  BY <1>1, <1>2 DEF Entry

LEMMA EntryFields ==
  ASSUME NEW e, EntryOK(e)
  PROVE  e.type \in Kinds /\ e.task \in GenerationTasks /\ TotalCost[e.task] \in Nat
BY ReconciliationAssumption DEF EntryOK, Entry, Kinds

Written(led) == IsFiniteSet(led) /\ \A e \in led : EntryOK(e)

(* What a ledger adds up to, by type.                                      *)
LEMMA SpentType ==
  ASSUME NEW led, Written(led), NEW type
  PROVE  Spent(led, type) \in Nat
<1> DEFINE D == {x \in led : x.type = type}
           f == [e \in D |-> TotalCost[e.task]]
<1>1. IsFiniteSet(D)
  BY FS_Subset DEF Written
<1>2. f \in [D -> Nat]
  BY EntryFields DEF Written
<1> HIDE DEF D, f
<1>3. Tally(f) \in Nat
  BY <1>1, <1>2, TallyType
<1> QED
  BY <1>3 DEF D, f, Spent

(* A new entry counts for its type, and for no other.                      *)
LEMMA SpentMore ==
  ASSUME NEW led, Written(led), NEW n, EntryOK(n), n \notin led, NEW type
  PROVE  Spent(led \cup {n}, type)
           = Spent(led, type) + (IF n.type = type THEN TotalCost[n.task] ELSE 0)
<1> DEFINE D == {x \in led : x.type = type}
           f == [e \in D |-> TotalCost[e.task]]
           E == {x \in led \cup {n} : x.type = type}
           g == [e \in E |-> TotalCost[e.task]]
<1>1. Spent(led, type) \in Nat
  BY SpentType
<1>2. CASE n.type = type
  <2>1. /\ n \in E /\ n \notin D /\ E = D \cup {n}
        /\ f \in [D -> Nat] /\ g \in [E -> Nat]
        /\ (\A y \in D : g[y] = f[y]) /\ g[n] = TotalCost[n.task]
    BY <1>2, EntryFields DEF Written
  <2>2. IsFiniteSet(D)
    BY FS_Subset DEF Written
  <2>3. Spent(led, type) = Tally(f) /\ Spent(led \cup {n}, type) = Tally(g)
    BY DEF Spent
  <2> HIDE DEF D, E, f, g
  <2>4. Tally(g) = Tally(f) + g[n]
    BY <2>1, <2>2, TallyMore
  <2> QED
    BY <1>2, <2>1, <2>3, <2>4
<1>3. CASE n.type # type
  <2>1. E = D
    BY <1>3
  <2>2. Spent(led \cup {n}, type) = Spent(led, type)
    BY <2>1 DEF Spent
  <2> QED
    BY <1>1, <1>3, <2>2
<1> QED
  BY <1>2, <1>3

(* The credits available that a ledger accounts for, with one more entry.  *)
LEMMA ExpectedMore ==
  ASSUME NEW led, Written(led), NEW n, EntryOK(n), n \notin led
  PROVE  Expected(led \cup {n}).available
           = Expected(led).available
             + (CASE n.type = "RESERVE" -> 0 - TotalCost[n.task]
                  [] n.type = "RELEASE" -> TotalCost[n.task]
                  [] OTHER -> 0)
<1> DEFINE r == Spent(led, "RESERVE")
           s == Spent(led, "RELEASE")
           rr == Spent(led \cup {n}, "RESERVE")
           ss == Spent(led \cup {n}, "RELEASE")
<1>1. r \in Nat /\ s \in Nat
  BY SpentType
<1>2. /\ rr = r + (IF n.type = "RESERVE" THEN TotalCost[n.task] ELSE 0)
      /\ ss = s + (IF n.type = "RELEASE" THEN TotalCost[n.task] ELSE 0)
  BY SpentMore
<1>3. /\ Expected(led).available = Granted - r + s
      /\ Expected(led \cup {n}).available = Granted - rr + ss
  BY DEF Expected
<1>4. Granted \in Nat /\ TotalCost[n.task] \in Nat /\ n.type \in Kinds
  BY ReconciliationAssumption, EntryFields
<1> HIDE DEF r, s, rr, ss
<1> QED
  BY <1>1, <1>2, <1>3, <1>4 DEF Kinds

(* And the credits reserved.                                               *)
LEMMA ExpectedReserved ==
  ASSUME NEW led, Written(led), NEW n, EntryOK(n), n \notin led
  PROVE  /\ Expected(led).reserved \in Int
         /\ Expected(led \cup {n}).reserved
              = Expected(led).reserved
                + (IF n.type = "RESERVE" THEN TotalCost[n.task] ELSE 0 - TotalCost[n.task])
<1> DEFINE r == Spent(led, "RESERVE")
           c == Spent(led, "CONSUME")
           s == Spent(led, "RELEASE")
           rr == Spent(led \cup {n}, "RESERVE")
           cc == Spent(led \cup {n}, "CONSUME")
           ss == Spent(led \cup {n}, "RELEASE")
<1>1. r \in Nat /\ c \in Nat /\ s \in Nat
  BY SpentType
<1>2. /\ rr = r + (IF n.type = "RESERVE" THEN TotalCost[n.task] ELSE 0)
      /\ cc = c + (IF n.type = "CONSUME" THEN TotalCost[n.task] ELSE 0)
      /\ ss = s + (IF n.type = "RELEASE" THEN TotalCost[n.task] ELSE 0)
  BY SpentMore
<1>3. /\ Expected(led).reserved = r - c - s
      /\ Expected(led \cup {n}).reserved = rr - cc - ss
  BY DEF Expected
<1>4. TotalCost[n.task] \in Nat /\ n.type \in Kinds
  BY EntryFields
<1> HIDE DEF r, c, s, rr, cc, ss
<1> QED
  BY <1>1, <1>2, <1>3, <1>4 DEF Kinds

LEMMA NothingSpent == Spent({}, "CONSUME") = 0
<1>1. Spent({}, "CONSUME") = Tally([e \in {} |-> TotalCost[e.task]])
  BY DEF Spent
<1> QED
  BY <1>1, TallyEmpty

LEMMA ReservedType == RowsOK => \A A : Reserved(A) \in Nat
<1> SUFFICES ASSUME NEW A PROVE Reserved(A) \in Nat
  OBVIOUS
<1> DEFINE D == {x \in GenerationTasks : status[x] \in A}
           f == [t \in D |-> TotalCost[t]]
<1>1. IsFiniteSet(D)
  BY ReconciliationAssumption, FS_Subset
<1>2. f \in [D -> Nat]
  BY ReconciliationAssumption
<1>3. Reserved(A) = Tally(f)
  BY DEF Reserved
<1> HIDE DEF D, f
<1> QED
  BY <1>1, <1>2, <1>3, TallyType

LEMMA RecInit == ReconciliationInit => RecInv
<1> SUFFICES ASSUME ReconciliationInit PROVE RecInv
  OBVIOUS
<1> USE ReconciliationAssumption
<1>1. ReconciliationTypeOK
  BY DEF ReconciliationInit, ReconciliationTypeOK, Idle, Statuses, Ended, Active
<1>2. worker \in [Workers -> WorkerRows] /\ \A k \in Workers : worker[k].at = "idle"
  BY DEF ReconciliationInit, Idle, WorkerRows, Kinds
<1>3. window \in 1..MaxWindow /\ faults \in Nat /\ EntriesOK
  BY FS_EmptySet DEF ReconciliationInit, EntriesOK
<1>4. EntriesFollowTasks /\ AtMostOne /\ NothingMissing /\ RepairsNeedFaults
  BY DEF ReconciliationInit, EntriesFollowTasks, AtMostOne, NothingMissing,
         RepairsNeedFaults, Settlements, Ended
<1> QED
  BY <1>1, <1>2, <1>3, <1>4 DEF RecInv, RowsOK, ReadingsHold, RunsClaimed,
     OneWorkerPerWindow, ReadingOf, Repairing

-----------------------------------------------------------------------------
(* Steps of a worker that only reads.                                      *)

(* What a row must be for its worker to hold it.                           *)
RowFits(n) ==
  /\ n \in WorkerRows
  /\ n.task = NoTask <=> n.at \notin Repairing
  /\ ReadingOf(n)

(* The window a busy row names, seen with the runs of r.                   *)
WindowFits(k, n, r) ==
  n.at # "idle" =>
    /\ n.window \in 1..MaxWindow /\ r[n.window] # "NONE"
    /\ \A l \in Workers : l # k /\ worker[l].at # "idle" => worker[l].window # n.window

LEMMA ReadingStep ==
  ASSUME RecInv, NEW k \in Workers, NEW n, Step(k, n), RowFits(n),
         UNCHANGED <<system, repairs, faults>>,
         window' \in 1..MaxWindow,
         run' \in [1..MaxWindow -> {"NONE", "RUNNING", "COMPLETED", "FAILED"}],
         \A w \in 1..MaxWindow : run[w] # "NONE" => run'[w] # "NONE",
         WindowFits(k, n, run')
  PROVE  RecInv'
<1>0. worker \in [Workers -> WorkerRows] /\ worker' = [worker EXCEPT ![k] = n]
  BY DEF RecInv, RowsOK, Step
<1>1. /\ worker'[k] = n
      /\ \A l \in Workers : l # k => worker'[l] = worker[l]
      /\ worker' \in [Workers -> WorkerRows]
  BY <1>0 DEF RowFits
<1>2. ASSUME NEW l \in Workers
      PROVE  /\ worker'[l].at \in {"idle", "scan", "check", "repair", "reread", "write"}
             /\ worker'[l].task = NoTask <=> worker'[l].at \notin {"repair", "reread", "write"}
  <2>1. CASE l = k
    BY <1>1, <2>1 DEF RowFits, WorkerRows, Repairing
  <2>2. CASE l # k
    BY <1>1, <2>2 DEF RecInv, RowsOK, ReconciliationTypeOK
  <2> QED
    BY <2>1, <2>2
<1>3. RowsOK'
  BY <1>1, <1>2 DEF RecInv, RowsOK, ReconciliationTypeOK, EntriesOK, system
<1>4. EntriesFollowTasks' /\ AtMostOne' /\ NothingMissing' /\ RepairsNeedFaults'
  BY DEF RecInv, EntriesFollowTasks, AtMostOne, NothingMissing, RepairsNeedFaults,
         HasEntry, Settlements, system
<1>5. \A row : ReadingOf(row)' <=> ReadingOf(row)
  BY DEF ReadingOf, EndedAs, Settlements, RepairKey, system
<1>6. ReadingsHold'
  <2> SUFFICES ASSUME NEW l \in Workers PROVE ReadingOf(worker[l])'
    BY DEF ReadingsHold
  <2>1. ReadingOf(worker'[l])
    <3>1. CASE l = k
      BY <1>1, <3>1 DEF RowFits
    <3>2. CASE l # k
      BY <1>1, <3>2 DEF RecInv, ReadingsHold
    <3> QED
      BY <3>1, <3>2
  <2> QED
    BY <2>1 DEF ReadingOf, EndedAs, Settlements, RepairKey, system
<1>7. RunsClaimed'
  <2> SUFFICES ASSUME NEW l \in Workers, worker'[l].at # "idle"
               PROVE  worker'[l].window \in 1..MaxWindow /\ run'[worker'[l].window] # "NONE"
    BY DEF RunsClaimed
  <2>1. CASE l = k
    BY <1>1, <2>1 DEF WindowFits
  <2>2. CASE l # k
    BY <1>1, <2>2 DEF RecInv, RunsClaimed
  <2> QED
    BY <2>1, <2>2
<1>8. OneWorkerPerWindow'
  <2> SUFFICES ASSUME NEW i \in Workers, NEW j \in Workers,
                      worker'[i].at # "idle", worker'[j].at # "idle",
                      worker'[i].window = worker'[j].window
               PROVE  i = j
    BY DEF OneWorkerPerWindow
  <2> QED
    BY <1>1 DEF RecInv, OneWorkerPerWindow, WindowFits
<1> QED
  BY <1>3, <1>4, <1>6, <1>7, <1>8 DEF RecInv

(* A worker that goes on with its run keeps the window to itself.          *)
LEMMA SameWindow ==
  ASSUME RecInv, NEW k \in Workers, worker[k].at # "idle",
         NEW n, n.window = worker[k].window
  PROVE  WindowFits(k, n, run)
BY DEF RecInv, RunsClaimed, OneWorkerPerWindow, WindowFits

LEMMA GoesOn ==
  ASSUME RecInv, NEW k \in Workers, worker[k].at # "idle",
         NEW n, n.window = worker[k].window, Step(k, n), RowFits(n),
         UNCHANGED <<system, window, run, repairs, faults, crashes>>
  PROVE  RecInv'
<1>1. WindowFits(k, n, run')
  BY SameWindow
<1>2. /\ window' \in 1..MaxWindow
      /\ run' \in [1..MaxWindow -> {"NONE", "RUNNING", "COMPLETED", "FAILED"}]
  BY DEF RecInv, RowsOK, ReconciliationTypeOK
<1> QED
  BY <1>1, <1>2, ReadingStep

LEMMA IdleFits == RowFits(Idle)
BY ReconciliationAssumption DEF RowFits, Idle, WorkerRows, ReadingOf, Repairing

(* The row of a worker, as records that differ in some fields.             *)
LEMMA RowOf ==
  ASSUME RecInv, NEW k \in Workers
  PROVE  worker[k] \in WorkerRows /\ ReadingOf(worker[k])
         /\ (worker[k].task = NoTask <=> worker[k].at \notin Repairing)
BY DEF RecInv, RowsOK, ReconciliationTypeOK, ReadingsHold, Repairing

LEMMA FinishFits ==
  ASSUME NEW row \in WorkerRows
  PROVE  RowFits([row EXCEPT !.at = "check", !.task = NoTask, !.kind = "none"])
BY DEF RowFits, WorkerRows, ReadingOf, Repairing

LEMMA Finishes ==
  ASSUME RecInv, NEW k \in Workers, worker[k].at # "idle", FinishFinding(k),
         UNCHANGED <<system, window, run, repairs, faults, crashes>>
  PROVE  RecInv'
<1> DEFINE n == [worker[k] EXCEPT !.at = "check", !.task = NoTask, !.kind = "none"]
<1>1. worker[k] \in WorkerRows
  BY RowOf
<1>2. RowFits(n) /\ n.window = worker[k].window
  BY <1>1, FinishFits DEF WorkerRows
<1>3. Step(k, n)
  BY DEF FinishFinding
<1> HIDE DEF n
<1> QED
  BY <1>2, <1>3, GoesOn

LEMMA TimeStep == RecInv /\ TimePasses => RecInv'
<1> SUFFICES ASSUME RecInv, TimePasses PROVE RecInv'
  OBVIOUS
<1>1. window' \in 1..MaxWindow
  BY ReconciliationAssumption DEF RecInv, RowsOK, TimePasses
<1> QED
  BY <1>1 DEF TimePasses, RecInv, RowsOK, ReconciliationTypeOK, EntriesOK, EntriesFollowTasks,
     AtMostOne, NothingMissing, ReadingsHold, ReadingOf, EndedAs, RepairKey, Settlements, HasEntry,
     RunsClaimed, OneWorkerPerWindow, RepairsNeedFaults, system

LEMMA ClaimStep ==
  ASSUME RecInv, NEW k \in Workers, ClaimRun(k)
  PROVE  RecInv'
<1> DEFINE n == [Idle EXCEPT !.at = "scan", !.window = window]
<1>1. /\ worker[k].at = "idle" /\ run[window] = "NONE" /\ Step(k, n)
      /\ run' = [run EXCEPT ![window] = "RUNNING"]
      /\ UNCHANGED <<system, window, repairs, faults>>
  BY DEF ClaimRun, AcquiresRun
<1>2. window \in 1..MaxWindow
      /\ run \in [1..MaxWindow -> {"NONE", "RUNNING", "COMPLETED", "FAILED"}]
  BY DEF RecInv, RowsOK, ReconciliationTypeOK
<1>3. /\ run' \in [1..MaxWindow -> {"NONE", "RUNNING", "COMPLETED", "FAILED"}]
      /\ \A w \in 1..MaxWindow : run[w] # "NONE" => run'[w] # "NONE"
      /\ run'[window] # "NONE" /\ window' \in 1..MaxWindow
  BY <1>1, <1>2
<1>4. RowFits(n)
  <2>1. window \in 0..MaxWindow
    BY <1>2, ReconciliationAssumption
  <2>2. Idle \in WorkerRows /\ Idle.task = NoTask /\ Idle.kind = "none"
    BY IdleFits DEF RowFits, Idle
  <2>3. n \in WorkerRows /\ n.at = "scan" /\ n.task = NoTask
    BY <2>1, <2>2 DEF WorkerRows
  <2> HIDE DEF n
  <2> QED
    BY <2>3 DEF RowFits, ReadingOf, Repairing
<1>5. WindowFits(k, n, run')
  <2>1. n.at = "scan" /\ n.window = window
    BY DEF Idle
  <2>2. \A l \in Workers : worker[l].at # "idle" => worker[l].window # window
    BY <1>1 DEF RecInv, RunsClaimed
  <2> HIDE DEF n
  <2> QED
    BY <1>2, <1>3, <2>1, <2>2 DEF WindowFits
<1> HIDE DEF n
<1> QED
  BY <1>1, <1>3, <1>4, <1>5, ReadingStep

LEMMA ScanStep ==
  ASSUME RecInv, NEW k \in Workers, ScanTasks(k)
  PROVE  RecInv'
<1> DEFINE seen == {x \in GenerationTasks \X Kinds : x[2] = LedgerTypeOf(status[x[1]])}
           n == [worker[k] EXCEPT !.at = "check", !.held = Reserved(Active), !.seen = seen]
<1>1. /\ worker[k].at = "scan" /\ Step(k, n)
      /\ UNCHANGED <<system, window, run, repairs, faults, crashes>>
  BY DEF ScanTasks, Kinds
<1>2. /\ worker[k] \in WorkerRows
      /\ worker[k].task = NoTask <=> worker[k].at \notin Repairing
  BY RowOf
<1>3. Reserved(Active) \in Nat
  BY ReservedType DEF RecInv
<1>4. RowFits(n) /\ n.window = worker[k].window
  <2>1. seen \in SUBSET (GenerationTasks \X Kinds)
    OBVIOUS
  <2> DEFINE h == Reserved(Active)
  <2>2. n = [worker[k] EXCEPT !.at = "check", !.held = h, !.seen = seen] /\ h \in Nat
    BY <1>3
  <2> HIDE DEF seen, n, h
  <2> QED
    BY <1>1, <1>2, <2>1, <2>2 DEF RowFits, WorkerRows, ReadingOf, Repairing
<1> HIDE DEF n
<1> QED
  BY <1>1, <1>4, GoesOn

LEMMA CheckStep ==
  ASSUME RecInv, NEW k \in Workers, NEW t \in GenerationTasks,
         NEW type \in {"RESERVE", "CONSUME", "RELEASE"}, CheckTask(k, t, type)
  PROVE  RecInv'
<1> DEFINE rest == [worker[k] EXCEPT !.seen = @ \ {<<t, type>>}]
           n == [rest EXCEPT !.at = "repair", !.task = t, !.kind = type]
<1>1. /\ worker[k].at = "check"
      /\ UNCHANGED <<system, window, run, repairs, faults, crashes>>
      /\ IF HasEntry(type, t) \/ type = "RESERVE" THEN Step(k, rest) ELSE Step(k, n)
  BY DEF CheckTask
<1>2. worker[k] \in WorkerRows /\ (worker[k].task = NoTask <=> worker[k].at \notin Repairing)
  BY RowOf
<1>3. /\ rest \in WorkerRows /\ rest.at = "check" /\ rest.task = worker[k].task
      /\ rest.window = worker[k].window
  BY <1>1, <1>2 DEF WorkerRows
<1>4. CASE HasEntry(type, t) \/ type = "RESERVE"
  <2>1. RowFits(rest)
    BY <1>1, <1>2, <1>3 DEF RowFits, ReadingOf, Repairing
  <2>2. Step(k, rest)
    BY <1>1, <1>4
  <2> HIDE DEF rest
  <2> QED
    BY <1>1, <1>3, <2>1, <2>2, GoesOn
<1>5. CASE ~(HasEntry(type, t) \/ type = "RESERVE")
  <2>0. type \in {"CONSUME", "RELEASE"}
    BY <1>5
  <2>1. RowFits(n) /\ n.window = worker[k].window
    <3> HIDE DEF rest
    <3> QED
      BY <1>3, <2>0, ReconciliationAssumption DEF RowFits, WorkerRows, ReadingOf, Repairing
  <2>2. Step(k, n)
    BY <1>1, <1>5
  <2> HIDE DEF n
  <2> QED
    BY <1>1, <2>1, <2>2, GoesOn
<1> QED
  BY <1>4, <1>5

LEMMA ReadTaskStep ==
  ASSUME RecInv, NEW k \in Workers, RepairReadsTask(k)
  PROVE  RecInv'
<1> DEFINE n == [worker[k] EXCEPT !.at = "reread"]
<1>1. /\ worker[k].at = "repair"
      /\ UNCHANGED <<system, window, run, repairs, faults, crashes>>
      /\ IF StillEnded(k) THEN Step(k, n) ELSE FinishFinding(k)
  BY DEF RepairReadsTask
<1>2. /\ worker[k] \in WorkerRows /\ ReadingOf(worker[k])
      /\ worker[k].task = NoTask <=> worker[k].at \notin Repairing
  BY RowOf
<1>3. CASE StillEnded(k)
  <2>1. EndedAs(worker[k])
    BY <1>3 DEF StillEnded, EndedAs
  <2>2. /\ n \in WorkerRows /\ n.at = "reread" /\ n.task = worker[k].task
        /\ n.kind = worker[k].kind /\ n.window = worker[k].window
    BY <1>2 DEF WorkerRows
  <2>3. RowFits(n)
    <3> HIDE DEF n
    <3> QED
      BY <1>1, <1>2, <2>1, <2>2 DEF RowFits, ReadingOf, Repairing, EndedAs
  <2>4. Step(k, n)
    BY <1>1, <1>3
  <2> HIDE DEF n
  <2> QED
    BY <1>1, <2>2, <2>3, <2>4, GoesOn
<1>4. CASE ~StillEnded(k)
  BY <1>1, <1>4, Finishes
<1> QED
  BY <1>3, <1>4

(* A task that has ended and has no entry of its kind has no settlement.   *)
LEMMA NotYetSettled ==
  ASSUME RecInv, NEW row \in WorkerRows, row.task \in GenerationTasks, row.kind # "none",
         EndedAs(row), ~HasEntry(row.kind, row.task)
  PROVE  faults # 0 /\ Settlements(row.task) = {}
<1>1. /\ status[row.task] \in Ended /\ row.kind = LedgerTypeOf(status[row.task])
      /\ status[row.task] # "DELETED"
  BY DEF EndedAs, WorkerRows, Ended, Refused, LedgerTypeOf, Active
<1>2. faults # 0
  BY <1>1 DEF RecInv, NothingMissing
<1>3. ASSUME NEW e \in Settlements(row.task) PROVE FALSE
  <2>1. e.type = row.kind
    BY <1>1 DEF RecInv, EntriesFollowTasks
  <2> QED
    BY <1>1, <2>1 DEF HasEntry, Settlements
<1> QED
  BY <1>2, <1>3

LEMMA ReadLedgerStep ==
  ASSUME RecInv, NEW k \in Workers, RepairReadsLedger(k)
  PROVE  RecInv'
<1> DEFINE n == [worker[k] EXCEPT !.at = "write"]
<1>1. /\ worker[k].at = "reread"
      /\ UNCHANGED <<system, window, run, repairs, faults, crashes>>
      /\ IF InOrderByNow(k) THEN FinishFinding(k) ELSE Step(k, n)
  BY DEF RepairReadsLedger
<1>2. /\ worker[k] \in WorkerRows /\ ReadingOf(worker[k])
      /\ worker[k].task = NoTask <=> worker[k].at \notin Repairing
  BY RowOf
<1>3. CASE InOrderByNow(k)
  BY <1>1, <1>3, Finishes
<1>4. CASE ~InOrderByNow(k)
  <2>1. ~HasEntry(worker[k].kind, worker[k].task)
    BY <1>4 DEF InOrderByNow
  <2>2. /\ n \in WorkerRows /\ n.at = "write" /\ n.task = worker[k].task
        /\ n.kind = worker[k].kind /\ n.window = worker[k].window
    BY <1>2 DEF WorkerRows
  <2>3. /\ worker[k].task \in GenerationTasks /\ worker[k].kind # "none"
        /\ EndedAs(worker[k]) \/ status[worker[k].task] = "DELETED"
    BY <1>1, <1>2 DEF WorkerRows, ReadingOf, Repairing
  <2>4. status[worker[k].task] # "DELETED" =>
          faults # 0 /\ Settlements(worker[k].task) = {}
    BY <1>2, <2>1, <2>3, NotYetSettled
  <2>5. RowFits(n)
    <3> HIDE DEF n
    <3> QED
      BY <1>1, <1>2, <2>2, <2>3, <2>4 DEF RowFits, ReadingOf, Repairing, EndedAs
  <2>6. Step(k, n)
    BY <1>1, <1>4
  <2> HIDE DEF n
  <2> QED
    BY <1>1, <2>2, <2>5, <2>6, GoesOn
<1> QED
  BY <1>3, <1>4

LEMMA EndStep ==
  ASSUME RecInv, NEW k \in Workers, worker[k].at # "idle",
         NEW s \in {"COMPLETED", "FAILED"}, EndRun(k, s),
         UNCHANGED <<system, window, repairs, faults, crashes>>
  PROVE  RecInv'
<1>1. run' = [run EXCEPT ![worker[k].window] = s] /\ Step(k, Idle)
  BY DEF EndRun
<1>2. /\ window' \in 1..MaxWindow
      /\ run \in [1..MaxWindow -> {"NONE", "RUNNING", "COMPLETED", "FAILED"}]
  BY DEF RecInv, RowsOK, ReconciliationTypeOK
<1>3. /\ run' \in [1..MaxWindow -> {"NONE", "RUNNING", "COMPLETED", "FAILED"}]
      /\ \A w \in 1..MaxWindow : run[w] # "NONE" => run'[w] # "NONE"
  BY <1>1, <1>2
<1>4. WindowFits(k, Idle, run')
  BY DEF WindowFits, Idle
<1> QED
  BY <1>1, <1>2, <1>3, <1>4, IdleFits, ReadingStep

LEMMA CrashStep ==
  ASSUME RecInv, NEW k \in Workers, RunCrashes(k)
  PROVE  RecInv'
<1>1. Step(k, Idle) /\ UNCHANGED <<system, window, run, repairs, faults>>
  BY DEF RunCrashes
<1>2. /\ window' \in 1..MaxWindow
      /\ run' \in [1..MaxWindow -> {"NONE", "RUNNING", "COMPLETED", "FAILED"}]
      /\ \A w \in 1..MaxWindow : run[w] # "NONE" => run'[w] # "NONE"
  BY <1>1 DEF RecInv, RowsOK, ReconciliationTypeOK
<1>3. WindowFits(k, Idle, run')
  BY DEF WindowFits, Idle
<1> QED
  BY <1>1, <1>2, <1>3, IdleFits, ReadingStep

-----------------------------------------------------------------------------
(* Steps of the pipeline: a task moves on to s, and what it writes is at   *)
(* most one entry, which names it.                                         *)

(* What a task writes when it moves on to s.                               *)
WritesOf(t, s, new) ==
  \/ new = {}
  \/ \E n : /\ new = {n} /\ EntryOK(n) /\ n.task = t
            /\ n.type # "RESERVE" =>
                 /\ s \in Ended /\ n.type = LedgerTypeOf(s)
                 /\ status[t] \notin Ended \cup {"DELETED"}

LEMMA Moves ==
  ASSUME RecInv, NEW t \in GenerationTasks, NEW s \in Statuses \ {"NEW"}, NEW new,
         status' = [status EXCEPT ![t] = s], entries' = entries \cup new,
         WritesOf(t, s, new),
         UNCHANGED <<window, run, worker, repairs>>,
         balance' \in [available : Int, reserved : Nat],
         faults' \in Nat, faults <= faults',
         status[t] \notin Ended \cup {"DELETED"} \/ s = "DELETED",
         faults' = 0 /\ s \in Ended => \E n \in new : n.type = LedgerTypeOf(s) /\ n.task = t
  PROVE  RecInv'
<1>0. /\ status \in [GenerationTasks -> Statuses] /\ faults \in Nat
      /\ EntriesOK /\ EntriesFollowTasks /\ AtMostOne
  BY DEF RecInv, RowsOK, ReconciliationTypeOK
<1>1. /\ status'[t] = s
      /\ \A u \in GenerationTasks : u # t => status'[u] = status[u]
  BY <1>0
<1>2. /\ \A e \in entries' : e \in entries \/ (e \in new /\ e.task = t)
      /\ \A e \in entries : e \in entries'
      /\ \A e \in new : /\ EntryOK(e)
                        /\ e.type # "RESERVE" =>
                             /\ s \in Ended /\ e.type = LedgerTypeOf(s)
                             /\ status[t] \notin Ended \cup {"DELETED"}
      /\ \A e, f \in new : e = f
  BY DEF WritesOf
<1>3. RowsOK'
  <2>1. IsFiniteSet(new)
    BY FS_EmptySet, FS_Singleton DEF WritesOf
  <2>2. EntriesOK'
    BY <1>0, <1>2, <2>1, FS_Union DEF EntriesOK
  <2>3. status' \in [GenerationTasks -> Statuses]
    BY <1>0
  <2> QED
    BY <2>2, <2>3 DEF RecInv, RowsOK, ReconciliationTypeOK
<1>4. EntriesFollowTasks'
  <2> SUFFICES ASSUME NEW u \in GenerationTasks
               PROVE  /\ status'[u] = "NEW" => \A e \in entries' : e.task # u
                      /\ \A e \in entries' : e.task = u /\ e.type # "RESERVE" =>
                           /\ status'[u] \in Ended \cup {"DELETED"}
                           /\ status'[u] \in Ended => e.type = LedgerTypeOf(status'[u])
    BY DEF EntriesFollowTasks, Settlements
  <2>1. CASE u # t
    BY <1>0, <1>1, <1>2, <2>1 DEF EntriesFollowTasks, Settlements
  <2>2. CASE u = t
    <3>1. ASSUME NEW e \in entries', e.task = u, e.type # "RESERVE"
          PROVE  /\ status'[u] \in Ended \cup {"DELETED"}
                 /\ status'[u] \in Ended => e.type = LedgerTypeOf(status'[u])
      <4>1. CASE e \in new
        BY <1>1, <1>2, <2>2, <3>1, <4>1
      <4>2. CASE e \in entries
        <5>1. status[t] \in Ended \cup {"DELETED"}
          BY <1>0, <2>2, <3>1, <4>2 DEF EntriesFollowTasks, Settlements
        <5>2. s = "DELETED"
          BY <5>1
        <5> QED
          BY <1>1, <2>2, <5>2 DEF Ended
      <4> QED
        BY <1>2, <4>1, <4>2
    <3> QED
      BY <1>1, <2>2, <3>1
  <2> QED
    BY <2>1, <2>2
<1>5. AtMostOne'
  <2> SUFFICES ASSUME NEW u \in GenerationTasks, NEW e \in entries', NEW f \in entries',
                      e.task = u, e.type # "RESERVE", f.task = u, f.type # "RESERVE"
               PROVE  e = f
    BY DEF AtMostOne, Settlements
  <2>1. CASE e \in entries /\ f \in entries
    BY <1>0, <2>1 DEF AtMostOne, Settlements
  <2>2. CASE e \in new /\ f \in new
    BY <1>2, <2>2
  <2>3. ASSUME NEW g \in entries, NEW h \in new,
               g.task = u, g.type # "RESERVE", h.task = u, h.type # "RESERVE"
        PROVE  FALSE
    <3>1. u = t /\ status[t] \notin Ended \cup {"DELETED"}
      BY <1>2, <2>3 DEF WritesOf
    <3>2. status[t] \in Ended \cup {"DELETED"}
      BY <1>0, <2>3, <3>1 DEF EntriesFollowTasks, Settlements
    <3> QED
      BY <3>1, <3>2
  <2> QED
    BY <1>2, <2>1, <2>2, <2>3
<1>6. NothingMissing' /\ RepairsNeedFaults'
  <2> SUFFICES ASSUME faults' = 0
               PROVE  /\ repairs' = {}
                      /\ \A u \in GenerationTasks :
                           status'[u] \in Ended => HasEntry(LedgerTypeOf(status[u]), u)'
    BY DEF NothingMissing, RepairsNeedFaults
  <2>1. faults = 0
    BY <1>0
  <2>2. repairs' = {}
    BY <2>1 DEF RecInv, RepairsNeedFaults
  <2>3. ASSUME NEW u \in GenerationTasks, status'[u] \in Ended
        PROVE  HasEntry(LedgerTypeOf(status[u]), u)'
    <3>1. CASE u # t
      <4>1. HasEntry(LedgerTypeOf(status[u]), u) /\ status'[u] = status[u]
        BY <1>1, <2>1, <2>3, <3>1 DEF RecInv, NothingMissing
      <4> QED
        BY <1>2, <4>1 DEF HasEntry
    <3>2. CASE u = t
      <4>1. PICK n \in new : n.type = LedgerTypeOf(s) /\ n.task = t
        BY <1>1, <2>3, <3>2
      <4>2. n \in entries' /\ n.type = LedgerTypeOf(status'[u]) /\ n.task = u
        BY <1>1, <3>2, <4>1
      <4>3. status'[u] # "DELETED"
        BY <2>3 DEF Ended
      <4> QED
        BY <4>2, <4>3 DEF HasEntry, LedgerTypeOf
    <3> QED
      BY <3>1, <3>2
  <2> QED
    BY <2>2, <2>3
<1>7. ReadingsHold'
  <2> SUFFICES ASSUME NEW k \in Workers PROVE ReadingOf(worker[k])'
    BY DEF ReadingsHold
  <2> DEFINE u == worker[k].task
  <2>0. worker'[k] = worker[k] /\ ReadingOf(worker[k]) /\ worker[k] \in WorkerRows
    BY RowOf
  <2>1. CASE worker[k].at \notin {"reread", "write"}
    BY <2>0, <2>1 DEF ReadingOf
  <2>2. CASE worker[k].at \in {"reread", "write"}
    <3>1. u \in GenerationTasks /\ (EndedAs(worker[k]) \/ status[u] = "DELETED")
      BY <2>0, <2>2, RowOf DEF ReadingOf, Repairing, WorkerRows
    <3>2. CASE u = t
      <4>1. status[t] \in Ended \cup {"DELETED"}
        BY <3>1, <3>2 DEF EndedAs, Ended, Refused
      <4>2. status'[u] = "DELETED"
        BY <1>1, <3>2, <4>1
      <4> QED
        BY <2>0, <4>2 DEF ReadingOf
    <3>3. CASE u # t
      <4>1. status'[u] = status[u]
        BY <1>1, <3>1, <3>3
      <4>2. \A e \in entries' : e.task = u => e \in entries
        BY <1>2, <3>3
      <4>3. EndedAs(worker[k])' <=> EndedAs(worker[k])
        BY <2>0, <4>1 DEF EndedAs
      <4>4. faults # 0 => faults' # 0
        BY <1>0
      <4>5. \A e \in Settlements(u)' : e \in Settlements(u)
        BY <2>0, <4>2 DEF Settlements
      <4> QED
        BY <2>0, <4>1, <4>3, <4>4, <4>5 DEF ReadingOf, RepairKey
    <3> QED
      BY <3>2, <3>3
  <2> QED
    BY <2>1, <2>2
<1>8. RunsClaimed' /\ OneWorkerPerWindow'
  BY DEF RecInv, RunsClaimed, OneWorkerPerWindow
<1> QED
  BY <1>3, <1>4, <1>5, <1>6, <1>7, <1>8 DEF RecInv

LEMMA FaultsCounted ==
  ASSUME RecInv, NEW lost \in Losses, CountFault(lost)
  PROVE  /\ faults' \in Nat /\ faults <= faults'
         /\ faults' = 0 \/ faults' = faults => lost = "nothing"
BY DEF RecInv, RowsOK, CountFault

LEMMA CreatedStep ==
  ASSUME RecInv, NEW t \in GenerationTasks, NEW lost \in Losses, Created(t, lost)
  PROVE  RecInv'
<1> DEFINE n == Entry("RESERVE", t, <<"reserve", t>>)
           new == IF lost = "entry" THEN {} ELSE {n}
<1>1. /\ status[t] = "NEW" /\ status' = [status EXCEPT ![t] = "QUEUED"]
      /\ entries' = entries \cup new
      /\ UNCHANGED <<window, run, worker, repairs>> /\ CountFault(lost)
      /\ balance' = [available |-> balance.available - TotalCost[t],
                     reserved |-> balance.reserved + TotalCost[t]]
  BY DEF Created
<1>2. balance' \in [available : Int, reserved : Nat]
  <2>1. balance.available \in Int /\ balance.reserved \in Nat /\ TotalCost[t] \in Nat
    BY ReconciliationAssumption DEF RecInv, RowsOK, ReconciliationTypeOK
  <2>2. balance.available - TotalCost[t] \in Int /\ balance.reserved + TotalCost[t] \in Nat
    BY <2>1
  <2> QED
    BY <1>1, <2>2
<1>3. WritesOf(t, "QUEUED", new)
  BY DEF WritesOf, EntryOK, Entry
<1>4. "QUEUED" \in Statuses \ {"NEW"} /\ "QUEUED" \notin Ended
      /\ status[t] \notin Ended \cup {"DELETED"}
  BY <1>1 DEF Statuses, Active, Ended
<1> HIDE DEF new
<1> QED
  BY <1>1, <1>2, <1>3, <1>4, FaultsCounted, Moves

LEMMA EndsStep ==
  ASSUME RecInv, NEW t \in GenerationTasks, NEW o \in Ended, NEW lost \in Losses,
         TaskEnds(t, o, lost)
  PROVE  RecInv'
<1> DEFINE back == IF o = "SUCCEEDED" THEN 0 ELSE TotalCost[t]
           new == IF lost # "nothing" THEN {}
                  ELSE IF o = "SUCCEEDED" THEN {Entry("CONSUME", t, <<"consume", t>>)}
                  ELSE IF o = "FAILED" THEN {Entry("RELEASE", t, <<"failure-release", t>>)}
                  ELSE {Entry("RELEASE", t, <<"cancel-release", t>>)}
<1>1. /\ status[t] \in Active \cup {"REVIEWING"} /\ status' = [status EXCEPT ![t] = o]
      /\ entries' = entries \cup new
      /\ UNCHANGED <<window, run, worker, repairs>> /\ CountFault(lost)
      /\ lost # "all" => balance.reserved >= TotalCost[t]
      /\ balance' = IF lost = "all" THEN balance
                    ELSE [available |-> balance.available + back,
                          reserved |-> balance.reserved - TotalCost[t]]
  BY DEF TaskEnds
<1>2. balance' \in [available : Int, reserved : Nat]
  <2>1. balance \in [available : Int, reserved : Nat]
    BY DEF RecInv, RowsOK, ReconciliationTypeOK
  <2>2. balance.available \in Int /\ balance.reserved \in Nat /\ TotalCost[t] \in Nat
        /\ back \in Nat
    BY <2>1, ReconciliationAssumption
  <2>3. CASE lost = "all"
    BY <1>1, <2>1, <2>3
  <2>4. CASE lost # "all"
    <3> HIDE DEF back
    <3>1. balance.available + back \in Int /\ balance.reserved - TotalCost[t] \in Nat
      BY <1>1, <2>2, <2>4
    <3>2. balance' = [available |-> balance.available + back,
                      reserved |-> balance.reserved - TotalCost[t]]
      BY <1>1, <2>4
    <3> QED
      BY <3>1, <3>2
  <2> QED
    BY <2>3, <2>4
<1>4. o \in Statuses \ {"NEW"} /\ status[t] \notin Ended \cup {"DELETED"}
  BY <1>1 DEF Statuses, Active, Ended
<1>5. CASE lost # "nothing"
  <2>1. new = {}
    BY <1>5
  <2>2. WritesOf(t, o, new)
    BY <2>1 DEF WritesOf
  <2> HIDE DEF new
  <2> QED
    BY <1>1, <1>2, <1>4, <1>5, <2>2, FaultsCounted, Moves
<1>6. CASE lost = "nothing"
  <2>1. PICK n : /\ new = {n} /\ EntryOK(n) /\ n.task = t /\ n.type = LedgerTypeOf(o)
    <3> DEFINE consume == Entry("CONSUME", t, <<"consume", t>>)
               failure == Entry("RELEASE", t, <<"failure-release", t>>)
               cancel == Entry("RELEASE", t, <<"cancel-release", t>>)
    <3>1. /\ EntryOK(consume) /\ consume.task = t /\ consume.type = "CONSUME"
          /\ EntryOK(failure) /\ failure.task = t /\ failure.type = "RELEASE"
          /\ EntryOK(cancel) /\ cancel.task = t /\ cancel.type = "RELEASE"
      BY DEF EntryOK, Entry
    <3>2. /\ o = "SUCCEEDED" => new = {consume} /\ LedgerTypeOf(o) = "CONSUME"
          /\ o = "FAILED" => new = {failure} /\ LedgerTypeOf(o) = "RELEASE"
          /\ o = "CANCELLED" => new = {cancel} /\ LedgerTypeOf(o) = "RELEASE"
      BY <1>6 DEF LedgerTypeOf, Active, Refused
    <3> HIDE DEF consume, failure, cancel, new
    <3> QED
      BY <3>1, <3>2 DEF Ended
  <2> HIDE DEF new
  <2>2. WritesOf(t, o, new)
    BY <1>4, <2>1 DEF WritesOf
  <2> QED
    BY <1>1, <1>2, <1>4, <2>1, <2>2, FaultsCounted, Moves
<1> QED
  BY <1>5, <1>6

(* A task that is held for review, or deleted.                             *)
LEMMA QuietStep ==
  ASSUME RecInv, NEW t \in GenerationTasks, HeldForReview(t) \/ SessionDeleted(t)
  PROVE  RecInv'
<1> DEFINE s == IF HeldForReview(t) THEN "REVIEWING" ELSE "DELETED"
           new == {}
<1>1. /\ status' = [status EXCEPT ![t] = s] /\ entries' = entries \cup new
      /\ UNCHANGED <<window, run, worker, repairs, faults, balance>>
      /\ s = "REVIEWING" => status[t] = "QUEUED"
      /\ s \in {"REVIEWING", "DELETED"}
  BY DEF HeldForReview, SessionDeleted
<1>2. s \in Statuses \ {"NEW"} /\ s \notin Ended
      /\ (status[t] \notin Ended \cup {"DELETED"} \/ s = "DELETED")
  BY <1>1 DEF Statuses, Active, Ended
<1>3. WritesOf(t, s, new)
  BY DEF WritesOf
<1>4. balance' \in [available : Int, reserved : Nat] /\ faults' \in Nat /\ faults <= faults'
  BY <1>1 DEF RecInv, RowsOK, ReconciliationTypeOK
<1> HIDE DEF new, s
<1> QED
  BY <1>1, <1>2, <1>3, <1>4, Moves

-----------------------------------------------------------------------------
(* Repairs.                                                                *)

(* A repair that writes is the first to settle its task, and something     *)
(* has gone missing.                                                       *)
LEMMA FirstToSettle ==
  ASSUME RecInv, NEW k \in Workers, worker[k].at = "write",
         ~Refuses(k, RepairKey(worker[k]))
  PROVE  /\ worker[k].task \in GenerationTasks
         /\ worker[k].kind \in {"CONSUME", "RELEASE"}
         /\ EndedAs(worker[k]) /\ faults # 0
         /\ Settlements(worker[k].task) = {}
         /\ \A e \in entries : e.key # RepairKey(worker[k])
<1>1. /\ worker[k] \in WorkerRows /\ ReadingOf(worker[k])
      /\ worker[k].task = NoTask <=> worker[k].at \notin Repairing
  BY RowOf
<1>2. /\ status[worker[k].task] # "DELETED"
      /\ \A e \in entries : e.key # RepairKey(worker[k])
  BY DEF Refuses
<1>3. /\ worker[k].task \in GenerationTasks
      /\ worker[k].kind \in {"CONSUME", "RELEASE"}
  BY <1>1 DEF WorkerRows, ReadingOf, Repairing
<1>4. /\ EndedAs(worker[k]) /\ faults # 0
      /\ \A e \in Settlements(worker[k].task) : e.key = RepairKey(worker[k])
  BY <1>1, <1>2 DEF ReadingOf
<1>5. \A e \in Settlements(worker[k].task) : e \in entries
  BY DEF Settlements
<1> QED
  BY <1>2, <1>3, <1>4, <1>5

RepairEntry(row) == Entry(row.kind, row.task, RepairKey(row))

LEMMA RepairEntryOK ==
  ASSUME NEW row, row.task \in GenerationTasks, row.kind \in {"CONSUME", "RELEASE"}
  PROVE  /\ EntryOK(RepairEntry(row)) /\ RepairEntry(row).key = RepairKey(row)
         /\ RepairEntry(row).task = row.task /\ RepairEntry(row).type = row.kind
BY DEF EntryOK, RepairEntry, Entry, RepairKey

LEMMA RepairStep ==
  ASSUME RecInv, NEW k \in Workers, worker[k].at = "write",
         ~Refuses(k, RepairKey(worker[k])),
         entries' = entries \cup {RepairEntry(worker[k])},
         FinishFinding(k),
         balance' \in [available : Int, reserved : Nat],
         UNCHANGED <<status, window, run, faults, crashes>>
  PROVE  RecInv'
<1> DEFINE t == worker[k].task
           key == RepairKey(worker[k])
           n == RepairEntry(worker[k])
           row == [worker[k] EXCEPT !.at = "check", !.task = NoTask, !.kind = "none"]
<1>1. /\ t \in GenerationTasks /\ worker[k].kind \in {"CONSUME", "RELEASE"}
      /\ EndedAs(worker[k]) /\ faults # 0 /\ Settlements(t) = {}
      /\ \A e \in entries : e.key # key
  BY FirstToSettle
<1>2. EntryOK(n) /\ n.key = key /\ n.task = t /\ n.type = worker[k].kind
  BY <1>1, RepairEntryOK
<1>3. /\ RowFits(row) /\ row.window = worker[k].window /\ row.at = "check"
      /\ worker \in [Workers -> WorkerRows] /\ worker' = [worker EXCEPT ![k] = row]
  BY FinishFits, RowOf DEF RecInv, RowsOK, FinishFinding, Step, WorkerRows
<1>4. status[t] \in Ended /\ n.type = LedgerTypeOf(status[t])
  BY <1>1, <1>2 DEF EndedAs, Ended, Refused, LedgerTypeOf, Active
<1>5. \A e \in entries' : e \in entries \/ e = n
  OBVIOUS
<1> HIDE DEF t, key, n, row
<1>6. /\ worker'[k] = row /\ worker' \in [Workers -> WorkerRows]
      /\ \A l \in Workers : l # k => worker'[l] = worker[l]
  BY <1>3 DEF RowFits
<1>7. RowsOK'
  <2>1. EntriesOK'
    <3>1. entries' = entries \cup {n} /\ IsFiniteSet(entries)
      BY Zenon DEF RecInv, RowsOK, EntriesOK, n
    <3>2. IsFiniteSet(entries \cup {n})
      BY <3>1, FS_AddElement
    <3>3. IsFiniteSet(entries')
      BY <3>1, <3>2
    <3> QED
      BY <1>2, <1>5, <3>3 DEF RecInv, RowsOK, EntriesOK
  <2>2. ASSUME NEW l \in Workers
        PROVE  /\ worker'[l].at \in {"idle", "scan", "check", "repair", "reread", "write"}
               /\ worker'[l].task = NoTask <=> worker'[l].at \notin {"repair", "reread", "write"}
    <3>1. CASE l = k
      BY <1>3, <1>6, <3>1 DEF RowFits, WorkerRows, Repairing
    <3>2. CASE l # k
      BY <1>6, <3>2 DEF RecInv, RowsOK, ReconciliationTypeOK
    <3> QED
      BY <3>1, <3>2
  <2> QED
    BY <1>6, <2>1, <2>2 DEF RecInv, RowsOK, ReconciliationTypeOK
<1>8. EntriesFollowTasks' /\ AtMostOne'
  <2>1. EntriesFollowTasks /\ AtMostOne
    BY DEF RecInv
  <2>2. EntriesFollowTasks'
    <3> SUFFICES ASSUME NEW u \in GenerationTasks, NEW e \in entries', e.task = u
                 PROVE  /\ status[u] # "NEW"
                        /\ e.type # "RESERVE" =>
                             /\ status[u] \in Ended \cup {"DELETED"}
                             /\ status[u] \in Ended => e.type = LedgerTypeOf(status[u])
      BY DEF EntriesFollowTasks, Settlements, LedgerTypeOf
    <3>1. CASE e = n
      BY <1>2, <1>4, <3>1 DEF Ended
    <3>2. CASE e \in entries
      BY <2>1, <3>2 DEF EntriesFollowTasks, Settlements
    <3> QED
      BY <1>5, <3>1, <3>2
  <2>3. AtMostOne'
    <3> SUFFICES ASSUME NEW u \in GenerationTasks, NEW e \in entries', NEW f \in entries',
                        e.task = u, e.type # "RESERVE", f.task = u, f.type # "RESERVE"
                 PROVE  e = f
      BY DEF AtMostOne, Settlements
    <3>1. CASE e \in entries /\ f \in entries
      BY <2>1, <3>1 DEF AtMostOne, Settlements
    <3>2. u = t => \A g \in entries : g.task = u => g.type = "RESERVE"
      BY <1>1 DEF Settlements
    <3> QED
      BY <1>2, <1>5, <3>1, <3>2
  <2> QED
    BY <2>2, <2>3
<1>9. ReadingsHold'
  <2> SUFFICES ASSUME NEW l \in Workers PROVE ReadingOf(worker[l])'
    BY DEF ReadingsHold
  <2>1. CASE l = k
    <3>1. worker'[l].at = "check"
      BY <1>3, <1>6, <2>1
    <3> QED
      BY <3>1 DEF ReadingOf, Repairing
  <2>2. CASE l # k
    <3>1. worker'[l] = worker[l] /\ ReadingOf(worker[l])
      BY <1>6, <2>2, RowOf
    <3>2. ASSUME worker[l].at = "write", status[worker[l].task] # "DELETED",
                 NEW e \in entries', e.task = worker[l].task, e.type # "RESERVE"
          PROVE  e.key = RepairKey(worker[l])
      <4>1. CASE e \in entries
        BY <3>1, <3>2, <4>1 DEF ReadingOf, Settlements
      <4>2. CASE e = n
        <5>1. worker[l].task = t /\ EndedAs(worker[l]) /\ worker[l].kind # "none"
          BY <1>2, <3>1, <3>2, <4>2 DEF ReadingOf, Repairing
        <5>2. worker[l].kind = worker[k].kind
          <6>1. worker[l].kind \in {"none", "CONSUME", "RELEASE"}
            BY RowOf DEF WorkerRows
          <6>2. status[worker[l].task] = status[worker[k].task]
            BY <5>1 DEF t
          <6> QED
            BY <1>1, <5>1, <6>1, <6>2 DEF EndedAs, Refused
        <5> QED
          BY <1>2, <4>2, <5>1, <5>2 DEF RepairKey, key, t
      <4> QED
        BY <1>5, <4>1, <4>2
    <3>3. /\ worker'[l].at \in Repairing => worker'[l].kind # "none"
          /\ worker'[l].at \in {"reread", "write"} =>
               EndedAs(worker[l])' \/ status'[worker'[l].task] = "DELETED"
      BY <3>1 DEF ReadingOf, EndedAs
    <3>4. worker'[l].at = "write" /\ status'[worker'[l].task] # "DELETED" =>
            \A e \in Settlements(worker[l].task)' : e.key = RepairKey(worker[l])'
      BY <3>1, <3>2 DEF Settlements, RepairKey
    <3>5. faults' # 0
      BY <1>1
    <3> QED
      BY <3>3, <3>4, <3>5 DEF ReadingOf
  <2> QED
    BY <2>1, <2>2
<1>10. NothingMissing' /\ RepairsNeedFaults'
  BY <1>1 DEF NothingMissing, RepairsNeedFaults
<1>11. RunsClaimed' /\ OneWorkerPerWindow'
  <2>1. \A l \in Workers : /\ worker'[l].window = worker[l].window
                           /\ worker'[l].at # "idle" <=> worker[l].at # "idle"
    BY <1>3, <1>6
  <2> QED
    BY <2>1 DEF RecInv, RunsClaimed, OneWorkerPerWindow
<1> QED
  BY <1>7, <1>8, <1>9, <1>10, <1>11 DEF RecInv

LEMMA ConsumeStep ==
  ASSUME RecInv, NEW k \in Workers, RepairMissingConsume(k)
  PROVE  RecInv'
<1>1. /\ worker[k].at = "write" /\ worker[k].kind = "CONSUME"
      /\ ~Refuses(k, <<"consume", worker[k].task>>)
      /\ entries' = entries \cup {Entry("CONSUME", worker[k].task, <<"consume", worker[k].task>>)}
      /\ FinishFinding(k) /\ UNCHANGED <<status, balance, window, run, faults, crashes>>
  BY DEF RepairMissingConsume, Repaired
<1>2. RepairKey(worker[k]) = <<"consume", worker[k].task>>
  BY <1>1 DEF RepairKey
<1>3. entries' = entries \cup {RepairEntry(worker[k])}
  BY <1>1, <1>2 DEF RepairEntry
<1>4. balance' \in [available : Int, reserved : Nat]
  BY <1>1 DEF RecInv, RowsOK, ReconciliationTypeOK
<1> QED
  BY <1>1, <1>2, <1>3, <1>4, RepairStep

LEMMA ReleaseStep ==
  ASSUME RecInv, NEW k \in Workers, RepairMissingRelease(k)
  PROVE  RecInv'
<1> DEFINE t == worker[k].task
<1>1. /\ worker[k].at = "write" /\ worker[k].kind = "RELEASE"
      /\ UNCHANGED <<status, window, run, faults, crashes>>
      /\ IF Spare(k)
         THEN /\ ~Refuses(k, <<"failure-release", t>>)
              /\ GiveBack(t)
              /\ entries' = entries \cup {Entry("RELEASE", t, <<"failure-release", t>>)}
              /\ Repaired(k)
         ELSE FinishFinding(k) /\ UNCHANGED <<balance, entries, repairs>>
  BY DEF RepairMissingRelease
<1>2. RepairKey(worker[k]) = <<"failure-release", t>>
  BY <1>1 DEF RepairKey
<1>3. CASE Spare(k)
  <2>1. entries' = entries \cup {RepairEntry(worker[k])} /\ FinishFinding(k)
    BY <1>1, <1>2, <1>3 DEF RepairEntry, Repaired
  <2>2. balance' \in [available : Int, reserved : Nat]
    <3> DEFINE c == TotalCost[t]
               h == worker[k].held
    <3>1. balance.available \in Int /\ balance.reserved \in Nat /\ h \in Nat
      BY RowOf DEF RecInv, RowsOK, ReconciliationTypeOK, WorkerRows
    <3>2. c \in Nat
      BY <1>1, <1>2, <1>3, FirstToSettle, ReconciliationAssumption
    <3>3. balance' = [available |-> balance.available + c, reserved |-> balance.reserved - c]
          /\ balance.reserved >= h + c
      BY <1>1, <1>3 DEF GiveBack, Spare
    <3> HIDE DEF c, h
    <3>4. balance.available + c \in Int /\ balance.reserved - c \in Nat
      BY <3>1, <3>2, <3>3
    <3> QED
      BY <3>3, <3>4
  <2> QED
    BY <1>1, <1>2, <1>3, <2>1, <2>2, RepairStep
<1>4. CASE ~Spare(k)
  <2>1. FinishFinding(k) /\ UNCHANGED <<system, window, run, repairs, faults, crashes>>
    BY <1>1, <1>4 DEF system
  <2> QED
    BY <1>1, <2>1, Finishes
<1> QED
  BY <1>3, <1>4

LEMMA RecStep == RecInv /\ [ReconciliationNext]_reconciliationVars => RecInv'
<1> SUFFICES ASSUME RecInv, [ReconciliationNext]_reconciliationVars PROVE RecInv'
  OBVIOUS
<1>1. CASE Pipeline
  <2>1. PICK t \in GenerationTasks :
          \/ \E lost \in Losses : Created(t, lost) \/ \E o \in Ended : TaskEnds(t, o, lost)
          \/ HeldForReview(t)
          \/ SessionDeleted(t)
    BY <1>1 DEF Pipeline
  <2> QED
    BY <2>1, CreatedStep, EndsStep, QuietStep
<1>2. CASE TimePasses
  BY <1>2, TimeStep
<1>3. ASSUME NEW k \in Workers, ClaimRun(k) \/ RunSteps(k) \/ RunCrashes(k)
      PROVE  RecInv'
  <2>1. CASE ClaimRun(k)
    BY <2>1, ClaimStep
  <2>2. CASE RunCrashes(k)
    BY <2>2, CrashStep
  <2>3. CASE ScanTasks(k)
    BY <2>3, ScanStep
  <2>4. CASE \E t \in GenerationTasks, type \in {"RESERVE", "CONSUME", "RELEASE"} :
               CheckTask(k, t, type)
    BY <2>4, CheckStep
  <2>5. CASE RepairReadsTask(k)
    BY <2>5, ReadTaskStep
  <2>6. CASE RepairReadsLedger(k)
    BY <2>6, ReadLedgerStep
  <2>7. CASE RepairFails(k)
    BY <2>7, EndStep DEF RepairFails
  <2>8. CASE RepairMissingConsume(k)
    BY <2>8, ConsumeStep
  <2>9. CASE RepairMissingRelease(k)
    BY <2>9, ReleaseStep
  <2>10. CASE CompleteRun(k)
    BY <2>10, EndStep DEF CompleteRun
  <2> QED
    BY <1>3, <2>1, <2>2, <2>3, <2>4, <2>5, <2>6, <2>7, <2>8, <2>9, <2>10 DEF RunSteps
<1>4. CASE UNCHANGED reconciliationVars
  BY <1>4 DEF RecInv, RowsOK, ReconciliationTypeOK, EntriesOK, EntriesFollowTasks,
     AtMostOne, NothingMissing, ReadingsHold, ReadingOf, EndedAs, RepairKey, Settlements,
     HasEntry, RunsClaimed, OneWorkerPerWindow, RepairsNeedFaults, system, reconciliationVars
<1> QED
  BY <1>1, <1>2, <1>3, <1>4 DEF ReconciliationNext

LEMMA RecInvariant == ReconciliationSpec => []RecInv
  BY RecInit, RecStep, PTL DEF ReconciliationSpec

(* Every row of the reconciliation, and all a worker has read, keeps its   *)
(* type (quota-reconciliation.ts).                                         *)
THEOREM ReconciliationTypesCorrect == ReconciliationSpec => []ReconciliationTypeOK
<1>1. RecInv => ReconciliationTypeOK
  BY DEF RecInv, RowsOK
<1> QED
  BY <1>1, RecInvariant, PTL

(* Whatever the workers have read while tasks were created, settled and    *)
(* deleted: where nothing has gone missing nothing is repaired, no task    *)
(* has two settlements, and no two workers are at work on a window         *)
(* (repairMissingConsume, repairMissingRelease, the run's unique key).     *)
THEOREM RepairsAreMadeOnce == ReconciliationSpec => []RepairedOnce
<1>1. RecInv => OneSettlement
  <2> SUFFICES ASSUME RecInv, NEW t \in GenerationTasks
               PROVE  Cardinality(Settlements(t)) <= 1
    BY DEF OneSettlement, Settlements
  <2>1. \A e, f \in Settlements(t) : e = f
    BY DEF RecInv, AtMostOne
  <2>2. CASE Settlements(t) = {}
    BY <2>2, FS_EmptySet
  <2>3. ASSUME NEW e \in Settlements(t) PROVE Cardinality(Settlements(t)) <= 1
    <3>1. Settlements(t) = {e}
      BY <2>1
    <3>2. Cardinality(Settlements(t)) = 1
      BY <3>1, FS_Singleton
    <3> QED
      BY <3>2
  <2> QED
    BY <2>2, <2>3
<1>2. RecInv => RepairedOnce
  BY <1>1 DEF RecInv, RepairedOnce
<1> QED
  BY <1>2, RecInvariant, PTL

-----------------------------------------------------------------------------
(* What the account has and what its ledger says.                          *)

Difference == balance.available - Expected(entries).available
ReservedGap == balance.reserved - Expected(entries).reserved

(* What a step enters in the ledger without moving the account.            *)
LEMMA EntersNothing ==
  ASSUME UNCHANGED <<balance, entries>>
  PROVE  Entered = 0
<1>1. entries' \ entries = {}
  OBVIOUS
<1> QED
  BY <1>1, NothingSpent DEF Entered

LEMMA EntersOne ==
  ASSUME NEW n, EntryOK(n), n \notin entries, entries' = entries \cup {n}
  PROVE  Entered = IF balance' = balance /\ n.type = "CONSUME" THEN TotalCost[n.task] ELSE 0
<1>1. entries' \ entries = {} \cup {n} /\ n \notin {}
  OBVIOUS
<1>2. Written({})
  BY FS_EmptySet DEF Written
<1>3. Spent({} \cup {n}, "CONSUME")
        = Spent({}, "CONSUME") + (IF n.type = "CONSUME" THEN TotalCost[n.task] ELSE 0)
  BY <1>2, SpentMore
<1>4. Spent(entries' \ entries, "CONSUME") = IF n.type = "CONSUME" THEN TotalCost[n.task] ELSE 0
  <2>1. Spent(entries' \ entries, "CONSUME") = Spent({} \cup {n}, "CONSUME")
    BY <1>1, Zenon
  <2>2. TotalCost[n.task] \in Nat
    BY EntryFields
  <2> QED
    BY <1>3, <2>1, <2>2, NothingSpent
<1> QED
  BY <1>4 DEF Entered

(* One entry is written, and the credits available move as it says.        *)
LEMMA MovesTogether ==
  ASSUME RecInv, NEW n, EntryOK(n), n \notin entries,
         entries' = entries \cup {n}, NEW d \in Int,
         balance'.available = balance.available + d,
         d = CASE n.type = "RESERVE" -> 0 - TotalCost[n.task]
               [] n.type = "RELEASE" -> TotalCost[n.task]
               [] OTHER -> 0
  PROVE  Difference' = Difference
<1> DEFINE x == Expected(entries).available
           y == Expected(entries \cup {n}).available
           a == balance.available
<1>1. Written(entries)
  BY DEF RecInv, RowsOK, EntriesOK, Written
<1>2. y = x + d
  BY <1>1, ExpectedMore
<1>3. x \in Int
  <2>1. Spent(entries, "RESERVE") \in Nat /\ Spent(entries, "RELEASE") \in Nat
    BY <1>1, SpentType
  <2>2. x = Granted - Spent(entries, "RESERVE") + Spent(entries, "RELEASE")
    BY DEF Expected
  <2> HIDE DEF x
  <2> QED
    BY <2>1, <2>2, ReconciliationAssumption
<1>4. a \in Int
  BY DEF RecInv, RowsOK, ReconciliationTypeOK
<1>5. Difference = a - x
  BY DEF Difference
<1>6. Difference' = balance'.available - Expected(entries').available
  BY DEF Difference, Expected, Spent
<1>7. Expected(entries').available = y /\ balance'.available = a + d
  OBVIOUS
<1> HIDE DEF a, x, y
<1> QED
  BY <1>2, <1>3, <1>4, <1>5, <1>6, <1>7

(* One entry is written, and the credits reserved move as it says; those   *)
(* of a consumption may stay where they are.                               *)
LEMMA ReservedMoves ==
  ASSUME RecInv, NEW n, EntryOK(n), n \notin entries,
         entries' = entries \cup {n}, NEW d \in Int,
         balance'.reserved = balance.reserved + d,
         \/ d = IF n.type = "RESERVE" THEN TotalCost[n.task] ELSE 0 - TotalCost[n.task]
         \/ d = 0 /\ n.type = "CONSUME" /\ balance' = balance
  PROVE  ReservedGap' = ReservedGap + Entered
<1> DEFINE x == Expected(entries).reserved
           y == Expected(entries \cup {n}).reserved
           a == balance.reserved
           c == TotalCost[n.task]
<1>1. Written(entries)
  BY DEF RecInv, RowsOK, EntriesOK, Written
<1>2. x \in Int /\ y = x + (IF n.type = "RESERVE" THEN c ELSE 0 - c)
  BY <1>1, ExpectedReserved
<1>3. a \in Int /\ c \in Nat /\ c # 0
  BY ReconciliationAssumption DEF RecInv, RowsOK, ReconciliationTypeOK, EntryOK, Entry
<1>4. ReservedGap = a - x
  BY DEF ReservedGap
<1>5. ReservedGap' = balance'.reserved - Expected(entries').reserved
  BY DEF ReservedGap, Expected, Spent
<1>6. Expected(entries').reserved = y /\ balance'.reserved = a + d
  OBVIOUS
<1>7. Entered = IF balance' = balance /\ n.type = "CONSUME" THEN c ELSE 0
  BY EntersOne
<1>8. balance' = balance => d = 0
  BY <1>3, <1>6
<1>9. \/ d = IF n.type = "RESERVE" THEN c ELSE 0 - c
      \/ d = 0 /\ n.type = "CONSUME" /\ balance' = balance
  OBVIOUS
<1> HIDE DEF a, x, y, c
<1> QED
  BY <1>2, <1>3, <1>4, <1>5, <1>6, <1>7, <1>8, <1>9

(* An entry that no other explains is not yet there.                       *)
LEMMA NotYetThere ==
  ASSUME NEW n, n.type # "RESERVE", Settlements(n.task) = {}
  PROVE  n \notin entries
BY DEF Settlements

LEMMA GapType == RecInv => ReservedGap \in Int
<1> SUFFICES ASSUME RecInv PROVE ReservedGap \in Int
  OBVIOUS
<1>1. Written(entries) /\ balance.reserved \in Int
  BY DEF RecInv, RowsOK, EntriesOK, ReconciliationTypeOK, Written
<1> DEFINE r == Spent(entries, "RESERVE")
           c == Spent(entries, "CONSUME")
           s == Spent(entries, "RELEASE")
<1>2. r \in Nat /\ c \in Nat /\ s \in Nat
  BY <1>1, SpentType
<1>3. ReservedGap = balance.reserved - (r - c - s)
  BY DEF ReservedGap, Expected
<1> HIDE DEF r, c, s
<1> QED
  BY <1>1, <1>2, <1>3

LEMMA DifferenceStays ==
  ASSUME RecInv, ReconciliationNext, faults' = faults
  PROVE  Difference' = Difference /\ ReservedGap' = ReservedGap + Entered
<1>0. /\ balance \in [available : Int, reserved : Nat]
      /\ EntriesFollowTasks
  BY DEF RecInv, RowsOK, ReconciliationTypeOK
<1>1. CASE UNCHANGED <<balance, entries>>
  <2>1. Difference' = Difference
    BY <1>1 DEF Difference, Expected, Spent
  <2>2. ReservedGap' = ReservedGap /\ ReservedGap \in Int
    BY <1>0, <1>1, GapType DEF ReservedGap, Expected, Spent
  <2> QED
    BY <1>1, <2>1, <2>2, EntersNothing
<1>2. ASSUME NEW t \in GenerationTasks, NEW lost \in Losses, Created(t, lost)
      PROVE  Difference' = Difference /\ ReservedGap' = ReservedGap + Entered
  <2> DEFINE n == Entry("RESERVE", t, <<"reserve", t>>)
             d == 0 - TotalCost[t]
  <2>1. lost = "nothing"
    BY <1>2, FaultsCounted DEF Created
  <2>2. /\ status[t] = "NEW" /\ entries' = entries \cup {n}
        /\ balance'.available = balance.available - TotalCost[t]
    BY <1>2, <2>1 DEF Created
  <2>3. EntryOK(n) /\ n.task = t /\ n.type = "RESERVE"
    BY DEF EntryOK, Entry
  <2>4. n \notin entries
    BY <1>0, <2>2, <2>3 DEF EntriesFollowTasks
  <2>5. d \in Int /\ balance'.available = balance.available + d
    BY <1>0, <2>2, ReconciliationAssumption
  <2>6. d = CASE n.type = "RESERVE" -> 0 - TotalCost[n.task]
              [] n.type = "RELEASE" -> TotalCost[n.task]
              [] OTHER -> 0
    BY <2>3
  <2>7. TotalCost[t] \in Int /\ balance'.reserved = balance.reserved + TotalCost[t]
    BY <1>2, ReconciliationAssumption DEF Created
  <2> HIDE DEF n, d
  <2>8. Difference' = Difference
    BY <2>2, <2>3, <2>4, <2>5, <2>6, MovesTogether
  <2>9. ReservedGap' = ReservedGap + Entered
    BY <2>2, <2>3, <2>4, <2>7, ReservedMoves
  <2> QED
    BY <2>8, <2>9
<1>3. ASSUME NEW t \in GenerationTasks, NEW o \in Ended, NEW lost \in Losses,
             TaskEnds(t, o, lost)
      PROVE  Difference' = Difference /\ ReservedGap' = ReservedGap + Entered
  <2> DEFINE back == IF o = "SUCCEEDED" THEN 0 ELSE TotalCost[t]
             n == IF o = "SUCCEEDED" THEN Entry("CONSUME", t, <<"consume", t>>)
                  ELSE IF o = "FAILED" THEN Entry("RELEASE", t, <<"failure-release", t>>)
                  ELSE Entry("RELEASE", t, <<"cancel-release", t>>)
  <2>1. lost = "nothing"
    BY <1>3, FaultsCounted DEF TaskEnds
  <2>2. /\ status[t] \notin Ended \cup {"DELETED"} /\ entries' = entries \cup {n}
        /\ balance'.available = balance.available + back
    BY <1>3, <2>1 DEF TaskEnds, Active, Ended
  <2>3. /\ EntryOK(n) /\ n.task = t
        /\ n.type = IF o = "SUCCEEDED" THEN "CONSUME" ELSE "RELEASE"
    BY DEF EntryOK, Entry
  <2>4. n \notin entries
    <3>1. Settlements(t) = {}
      BY <1>0, <2>2 DEF EntriesFollowTasks
    <3> HIDE DEF n
    <3> QED
      BY <2>3, <3>1, NotYetThere
  <2>5. back \in Int
    BY ReconciliationAssumption
  <2>6. back = CASE n.type = "RESERVE" -> 0 - TotalCost[n.task]
                 [] n.type = "RELEASE" -> TotalCost[n.task]
                 [] OTHER -> 0
    <3> HIDE DEF n
    <3> QED
      BY <2>3
  <2>7. 0 - TotalCost[t] \in Int /\ balance'.reserved = balance.reserved + (0 - TotalCost[t])
    BY <1>0, <1>3, <2>1, ReconciliationAssumption DEF TaskEnds
  <2> HIDE DEF n, back
  <2>8. Difference' = Difference
    BY <2>2, <2>3, <2>4, <2>5, <2>6, MovesTogether
  <2>9. n.type # "RESERVE"
    BY <2>3
  <2>10. ReservedGap' = ReservedGap + Entered
    BY <2>2, <2>3, <2>4, <2>7, <2>9, ReservedMoves
  <2> QED
    BY <2>8, <2>10
<1>4. ASSUME NEW k \in Workers, RepairMissingConsume(k) \/ RepairMissingRelease(k),
             ~UNCHANGED <<balance, entries>>
      PROVE  Difference' = Difference /\ ReservedGap' = ReservedGap + Entered
  <2> DEFINE t == worker[k].task
             n == RepairEntry(worker[k])
             d == IF worker[k].kind = "CONSUME" THEN 0 ELSE TotalCost[t]
  <2>1. /\ worker[k].at = "write" /\ ~Refuses(k, RepairKey(worker[k]))
        /\ entries' = entries \cup {n}
        /\ IF worker[k].kind = "CONSUME" THEN balance' = balance ELSE GiveBack(t)
    BY <1>4 DEF RepairMissingConsume, RepairMissingRelease, RepairKey, RepairEntry
  <2>2. /\ t \in GenerationTasks /\ worker[k].kind \in {"CONSUME", "RELEASE"}
        /\ Settlements(t) = {}
    BY <2>1, FirstToSettle
  <2>3. EntryOK(n) /\ n.task = t /\ n.type = worker[k].kind
    BY <2>2, RepairEntryOK
  <2>4. d \in Int /\ balance'.available = balance.available + d
    BY <1>0, <2>1, <2>2, ReconciliationAssumption DEF GiveBack
  <2> HIDE DEF n
  <2>5. n \notin entries
    BY <2>2, <2>3, NotYetThere
  <2>6. d = CASE n.type = "RESERVE" -> 0 - TotalCost[n.task]
              [] n.type = "RELEASE" -> TotalCost[n.task]
              [] OTHER -> 0
    BY <2>2, <2>3
  <2> HIDE DEF d
  <2>7. Difference' = Difference
    BY <2>1, <2>3, <2>4, <2>5, <2>6, MovesTogether
  <2> DEFINE r == IF worker[k].kind = "CONSUME" THEN 0 ELSE 0 - TotalCost[t]
  <2>8. r \in Int /\ balance'.reserved = balance.reserved + r
    BY <1>0, <2>1, <2>2, ReconciliationAssumption DEF GiveBack
  <2>9. \/ r = IF n.type = "RESERVE" THEN TotalCost[n.task] ELSE 0 - TotalCost[n.task]
        \/ r = 0 /\ n.type = "CONSUME" /\ balance' = balance
    BY <2>1, <2>2, <2>3
  <2> HIDE DEF r
  <2>10. ReservedGap' = ReservedGap + Entered
    BY <2>1, <2>3, <2>5, <2>8, <2>9, ReservedMoves
  <2> QED
    BY <2>7, <2>10
<1>5. CASE \E t \in GenerationTasks, lost \in Losses : Created(t, lost)
  BY <1>2, <1>5
<1>6. CASE \E t \in GenerationTasks, lost \in Losses : \E o \in Ended : TaskEnds(t, o, lost)
  BY <1>3, <1>6
<1>7. CASE \E t \in GenerationTasks : HeldForReview(t) \/ SessionDeleted(t)
  BY <1>1, <1>7 DEF HeldForReview, SessionDeleted
<1>8. CASE TimePasses
  BY <1>1, <1>8 DEF TimePasses, system
<1>9. CASE \E k \in Workers : RepairMissingConsume(k) \/ RepairMissingRelease(k)
  BY <1>1, <1>4, <1>9
<1>10. CASE \E k \in Workers : ClaimRun(k) \/ ScanTasks(k) \/ RepairReadsTask(k)
              \/ RepairReadsLedger(k) \/ RepairFails(k) \/ CompleteRun(k) \/ RunCrashes(k)
  BY <1>1, <1>10 DEF ClaimRun, ScanTasks, RepairReadsTask, RepairReadsLedger, RepairFails,
     CompleteRun, RunCrashes, system
<1>11. CASE \E k \in Workers, t \in GenerationTasks, type \in {"RESERVE", "CONSUME", "RELEASE"} :
              CheckTask(k, t, type)
  BY <1>1, <1>11 DEF CheckTask, system
<1> QED
  BY <1>5, <1>6, <1>7, <1>8, <1>9, <1>10, <1>11 DEF ReconciliationNext, Pipeline, RunSteps

(* An account differs from what its ledger adds up to by what faults have   *)
(* done, whatever workers have read while tasks were created, settled and   *)
(* deleted: every other step moves both alike, in what is available and in *)
(* what is reserved, but for a repair that enters a missing consumption,   *)
(* after which the ledger has that much less reserved and the account what *)
(* it had (repairMissingRelease, repairMissingConsume).                    *)
THEOREM OnlyFaultsUnbalance == ReconciliationSpec => RepairsKeepBooks
<1> DEFINE Kept == faults' = faults =>
       /\ balance'.available - Expected(entries').available
            = balance.available - Expected(entries).available
       /\ balance'.reserved - Expected(entries').reserved
            = balance.reserved - Expected(entries).reserved + Entered
<1>1. RecInv /\ [ReconciliationNext]_reconciliationVars => [Kept]_reconciliationVars
  <2> SUFFICES ASSUME RecInv, ReconciliationNext, faults' = faults
               PROVE  /\ balance'.available - Expected(entries').available
                           = balance.available - Expected(entries).available
                      /\ balance'.reserved - Expected(entries').reserved
                           = balance.reserved - Expected(entries).reserved + Entered
    OBVIOUS
  <2>1. Difference' = Difference /\ ReservedGap' = ReservedGap + Entered
    BY DifferenceStays
  <2>2. /\ Difference' = balance'.available - Expected(entries').available
        /\ ReservedGap' = balance'.reserved - Expected(entries').reserved
    BY DEF Difference, ReservedGap, Expected, Spent
  <2> QED
    BY <2>1, <2>2 DEF Difference, ReservedGap
<1>2. ReconciliationSpec => [][Kept]_reconciliationVars
  BY <1>1, RecInvariant, PTL DEF ReconciliationSpec
<1> QED
  BY <1>2 DEF RepairsKeepBooks

-----------------------------------------------------------------------------
(* The books together (MCBooks): every story is one of each component.     *)

LEMMA BooksTell ==
  BooksSpec => BillingSpec /\ ReconciliationSpec /\ BookSpec /\ PriceSpec
<1>1. BooksInit => BillingInit /\ ReconciliationInit /\ BookInit /\ PriceInit
  BY DEF BooksInit
<1> DEFINE Told == BillingStory \/ ReconciliationStory \/ CreditStory \/ PriceStory
<1>2. [Told]_booksVars => [BillingNext]_billingVars
  BY DEF BillingStory, ReconciliationStory, CreditStory, PriceStory, booksVars
<1>3. [Told]_booksVars => [ReconciliationNext]_reconciliationVars
  BY DEF BillingStory, ReconciliationStory, CreditStory, PriceStory, booksVars
<1>4. [Told]_booksVars => [BookNext]_bookVars
  BY DEF BillingStory, ReconciliationStory, CreditStory, PriceStory, booksVars
<1>5. [Told]_booksVars => [PriceNext]_priceVars
  BY DEF BillingStory, ReconciliationStory, CreditStory, PriceStory, booksVars
<1> QED
  BY <1>1, <1>2, <1>3, <1>4, <1>5, PTL
  DEF BooksSpec, BillingSpec, ReconciliationSpec, BookSpec, PriceSpec

(* No row of the books, credits, prices or repairs takes a value its       *)
(* columns do not allow, whichever of them is in use.                      *)
THEOREM BooksTypesCorrect == BooksSpec => []BooksTypeOK
BY BooksTell, BillingTypesCorrect, ReconciliationTypesCorrect, BookTypesCorrect, PricesTypeCorrect,
   PTL DEF BooksTypeOK

=============================================================================
