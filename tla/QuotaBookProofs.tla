-------------------------- MODULE QuotaBookProofs --------------------------
(***************************************************************************)
(* Proofs about QuotaBook: how the balances move with the phases of the    *)
(* tasks, and what is always true of them: the pipeline's proofs rest on it. *)
(***************************************************************************)
EXTENDS QuotaBook, FiniteSetTheorems, TLAPS

-----------------------------------------------------------------------------
(* Counting credits.                                                       *)

LEMMA UnitsFinite ==
  ASSUME NEW S \in SUBSET Tasks
  PROVE  IsFiniteSet(Units(S)) /\ Cardinality(Units(S)) \in Nat
<1>1. IsFiniteSet(Tasks) /\ MaxCost \in Int
  BY BookAssumption
<1>2. IsFiniteSet(1..MaxCost)
  BY <1>1, FS_Interval
<1>3. IsFiniteSet(Tasks \X (1..MaxCost))
  BY <1>1, <1>2, FS_Product
<1>4. Units(S) \in SUBSET (Tasks \X (1..MaxCost))
  BY DEF Units
<1>5. IsFiniteSet(Units(S))
  BY <1>3, <1>4, FS_Subset
<1> QED
  BY <1>5, FS_CardinalityType

(* One more task adds the credits it costs.                                *)
LEMMA UnitsAdd ==
  ASSUME NEW S \in SUBSET Tasks, NEW t \in Tasks, t \notin S
  PROVE  Cardinality(Units(S \cup {t})) = Cardinality(Units(S)) + Cost[t]
<1> DEFINE own == {t} \X (1..Cost[t])
<1>1. Cost[t] \in 1..MaxCost /\ MaxCost \in Nat
  BY BookAssumption
<1>2. IsFiniteSet(own) /\ Cardinality(own) = Cost[t]
  <2>1. IsFiniteSet({t}) /\ Cardinality({t}) = 1
    BY FS_Singleton
  <2>2. IsFiniteSet(1..Cost[t]) /\ Cardinality(1..Cost[t]) = Cost[t]
    BY <1>1, FS_Interval
  <2>3. IsFiniteSet(own) /\ Cardinality(own) = Cardinality({t}) * Cardinality(1..Cost[t])
    BY <2>1, <2>2, FS_Product
  <2> QED
    BY <1>1, <2>1, <2>2, <2>3
<1>3. Units(S \cup {t}) = Units(S) \cup own
  <2>1. \A n \in 1..MaxCost : n <= Cost[t] <=> n \in 1..Cost[t]
    BY <1>1
  <2>2. \A n \in 1..Cost[t] : n \in 1..MaxCost
    BY <1>1
  <2> QED
    BY <2>1, <2>2 DEF Units
<1>4. Units(S) \cap own = {}
  BY DEF Units
<1>5. Cardinality(Units(S) \cup own) =
        Cardinality(Units(S)) + Cardinality(own) - Cardinality({})
  BY <1>2, <1>4, UnitsFinite, FS_Union
<1>6. Cardinality({}) = 0
  BY FS_EmptySet
<1>7. Cardinality(Units(S)) \in Nat
  BY UnitsFinite
<1>8. Cardinality(Units(S \cup {t})) = Cardinality(Units(S) \cup own)
  BY <1>3, Zenon
<1> HIDE DEF own
<1> QED
  BY <1>1, <1>2, <1>5, <1>6, <1>7, <1>8

(* One task less takes them away.                                          *)
LEMMA UnitsRemove ==
  ASSUME NEW S \in SUBSET Tasks, NEW t \in S
  PROVE  Cardinality(Units(S \ {t})) = Cardinality(Units(S)) - Cost[t]
<1> DEFINE R == S \ {t}
<1>1. R \in SUBSET Tasks /\ t \in Tasks /\ t \notin R /\ R \cup {t} = S
  OBVIOUS
<1>2. Cardinality(Units(R \cup {t})) = Cardinality(Units(R)) + Cost[t]
  <2> HIDE DEF R
  <2> QED
    BY <1>1, UnitsAdd
<1>3. Cardinality(Units(S)) = Cardinality(Units(R \cup {t}))
  BY <1>1, Zenon
<1>4. \A Q \in SUBSET Tasks : Cardinality(Units(Q)) \in Nat
  BY UnitsFinite
<1>5. Cardinality(Units(R)) \in Nat /\ Cost[t] \in Int
  BY <1>1, <1>4, BookAssumption
<1>6. Cardinality(Units(S \ {t})) = Cardinality(Units(R))
  BY Zenon
<1> HIDE DEF R
<1> QED
  BY <1>2, <1>3, <1>5, <1>6

Credits(u, ph, p) == Cardinality(Units(OfUser(u, ph, p)))

LEMMA CreditsType ==
  ASSUME NEW ph, NEW u, NEW p
  PROVE  Credits(u, ph, p) \in Nat
<1>1. OfUser(u, ph, p) \in SUBSET Tasks
  BY DEF OfUser
<1>2. \A S \in SUBSET Tasks : Cardinality(Units(S)) \in Nat
  BY UnitsFinite
<1> QED
  BY <1>1, <1>2, Zenon DEF Credits

(* The phases become q from ph in that task t goes from one to another, and *)
(* its credits with it.                                                    *)
Shift(ph, q, t, from, to) ==
  /\ t \in Tasks /\ from # to /\ to \in Phases
  /\ ph \in [Tasks -> Phases] /\ ph[t] = from
  /\ q = [ph EXCEPT ![t] = to]

LEMMA CreditsGained ==
  ASSUME NEW ph, NEW q, NEW t, NEW from, NEW to, Shift(ph, q, t, from, to)
  PROVE  Credits(Owner[t], q, to) = Credits(Owner[t], ph, to) + Cost[t]
<1> DEFINE S == OfUser(Owner[t], ph, to)
           T == OfUser(Owner[t], q, to)
<1>1. S \in SUBSET Tasks /\ t \notin S /\ T = S \cup {t}
  BY DEF OfUser, Shift
<1> t \in Tasks
  BY DEF Shift
<1>2. Cardinality(Units(T)) = Cardinality(Units(S)) + Cost[t]
  <2> HIDE DEF S, T
  <2> QED
    BY <1>1, UnitsAdd
<1> QED
  BY <1>2 DEF Credits

LEMMA CreditsLost ==
  ASSUME NEW ph, NEW q, NEW t, NEW from, NEW to, Shift(ph, q, t, from, to)
  PROVE  Credits(Owner[t], q, from) = Credits(Owner[t], ph, from) - Cost[t]
<1> DEFINE S == OfUser(Owner[t], ph, from)
           T == OfUser(Owner[t], q, from)
<1>1. S \in SUBSET Tasks /\ t \in S /\ T = S \ {t}
  BY DEF OfUser, Shift
<1> t \in Tasks
  BY DEF Shift
<1>2. Cardinality(Units(T)) = Cardinality(Units(S)) - Cost[t]
  <2> HIDE DEF S, T
  <2> QED
    BY <1>1, UnitsRemove
<1> QED
  BY <1>2 DEF Credits

LEMMA CreditsKept ==
  ASSUME NEW ph, NEW q, NEW t, NEW from, NEW to, Shift(ph, q, t, from, to),
         NEW u, NEW p, u # Owner[t] \/ p \notin {from, to}
  PROVE  Credits(u, q, p) = Credits(u, ph, p)
<1>1. OfUser(u, q, p) = OfUser(u, ph, p)
  BY DEF OfUser, Shift
<1> QED
  BY <1>1 DEF Credits

(* The three figures of a statement.                                       *)
LEMMA StatementFigures ==
  \A u, ph, gr :
    /\ Statement(u, ph, gr) =
         [total |-> Grant(u, gr),
          available |-> Grant(u, gr) - Credits(u, ph, "reserved") - Credits(u, ph, "consumed"),
          reserved |-> Credits(u, ph, "reserved")]
    /\ Credits(u, ph, "reserved") \in Nat
    /\ Credits(u, ph, "consumed") \in Nat
    /\ Grant(u, gr) \in Nat
BY CreditsType, BookAssumption DEF Statement, Credits, Grant

(* Of the accounts opened only the user's own matters to his statement.    *)
LEMMA StatementGrant ==
  \A u, ph, gr, hr : (u \in gr <=> u \in hr) => Statement(u, ph, gr) = Statement(u, ph, hr)
BY DEF Statement, Grant

(* Before a user's first task his balance is what he was granted.          *)
LEMMA StatementFresh ==
  ASSUME NEW u, NEW ph, NEW gr, \A t \in Tasks : Owner[t] = u => ph[t] = "unpriced"
  PROVE  Statement(u, ph, gr) =
           [total |-> Grant(u, gr), available |-> Grant(u, gr), reserved |-> 0]
<1>1. ASSUME NEW p, p # "unpriced" PROVE Credits(u, ph, p) = 0
  <2>1. Units(OfUser(u, ph, p)) = {}
    BY <1>1 DEF OfUser, Units
  <2> QED
    BY <2>1, FS_EmptySet DEF Credits
<1>2. Credits(u, ph, "reserved") = 0 /\ Credits(u, ph, "consumed") = 0
  BY <1>1
<1> QED
  BY <1>2, StatementFigures

(* The statement of an account before and after a task moved.              *)
LEMMA StatementMove ==
  ASSUME NEW ph, NEW q, NEW t, NEW from, NEW to, Shift(ph, q, t, from, to),
         NEW u, NEW gr, NEW old, NEW new,
         old = Statement(u, ph, gr), new = Statement(u, q, gr)
  PROVE  /\ u # Owner[t] => new = old
         /\ u = Owner[t] /\ from = "unpriced" /\ to = "reserved" =>
              new = [total |-> old.total, available |-> old.available - Cost[t],
                     reserved |-> old.reserved + Cost[t]]
         /\ u = Owner[t] /\ from = "reserved" /\ to = "consumed" =>
              new = [total |-> old.total, available |-> old.available,
                     reserved |-> old.reserved - Cost[t]]
         /\ u = Owner[t] /\ from = "reserved" /\ to = "released" =>
              new = [total |-> old.total, available |-> old.available + Cost[t],
                     reserved |-> old.reserved - Cost[t]]
<1> DEFINE g == Grant(u, gr)
           r0 == Credits(u, ph, "reserved")
           c0 == Credits(u, ph, "consumed")
           r1 == Credits(u, q, "reserved")
           c1 == Credits(u, q, "consumed")
<1>1. /\ old = [total |-> g, available |-> g - r0 - c0, reserved |-> r0]
      /\ new = [total |-> g, available |-> g - r1 - c1, reserved |-> r1]
      /\ {g, r0, c0, r1, c1} \subseteq Nat
  BY StatementFigures
<1>2. t \in Tasks
  BY DEF Shift
<1>3. Cost[t] \in Nat
  BY <1>2, BookAssumption
<1>4. ASSUME u # Owner[t] PROVE r1 = r0 /\ c1 = c0
  BY <1>4, CreditsKept
<1>5. ASSUME u = Owner[t], from = "unpriced", to = "reserved"
      PROVE  r1 = r0 + Cost[t] /\ c1 = c0
  BY <1>5, CreditsGained, CreditsKept
<1>6. ASSUME u = Owner[t], from = "reserved", to = "consumed"
      PROVE  r1 = r0 - Cost[t] /\ c1 = c0 + Cost[t]
  BY <1>6, CreditsGained, CreditsLost
<1>7. ASSUME u = Owner[t], from = "reserved", to = "released"
      PROVE  r1 = r0 - Cost[t] /\ c1 = c0
  BY <1>7, CreditsLost, CreditsKept
<1> HIDE DEF g, r0, c0, r1, c1
<1> QED
  BY <1>1, <1>3, <1>4, <1>5, <1>6, <1>7

(* What is reserved covers each reserved task, and nothing is out of thin  *)
(* air.                                                                    *)
LEMMA StatementBounds ==
  \A u, gr : \A ph \in [Tasks -> Phases] :
    /\ Statement(u, ph, gr) \in [total : Nat, available : Int, reserved : Nat]
    /\ Statement(u, ph, gr).available + Statement(u, ph, gr).reserved
         <= Statement(u, ph, gr).total
    /\ \A t \in Tasks : u = Owner[t] /\ ph[t] = "reserved" =>
         Statement(u, ph, gr).reserved >= Cost[t]
<1> SUFFICES ASSUME NEW u, NEW gr, NEW ph \in [Tasks -> Phases]
             PROVE  /\ Statement(u, ph, gr) \in [total : Nat, available : Int, reserved : Nat]
                    /\ Statement(u, ph, gr).available + Statement(u, ph, gr).reserved
                         <= Statement(u, ph, gr).total
                    /\ \A t \in Tasks : u = Owner[t] /\ ph[t] = "reserved" =>
                         Statement(u, ph, gr).reserved >= Cost[t]
  OBVIOUS
<1>1. /\ Statement(u, ph, gr) =
           [total |-> Grant(u, gr),
            available |-> Grant(u, gr) - Credits(u, ph, "reserved") - Credits(u, ph, "consumed"),
            reserved |-> Credits(u, ph, "reserved")]
      /\ Credits(u, ph, "reserved") \in Nat
      /\ Credits(u, ph, "consumed") \in Nat
      /\ Grant(u, gr) \in Nat
  BY StatementFigures
<1>2. ASSUME NEW t \in Tasks, u = Owner[t], ph[t] = "reserved"
      PROVE  Credits(u, ph, "reserved") >= Cost[t]
  <2> DEFINE q == [ph EXCEPT ![t] = "consumed"]
  <2>1. Shift(ph, q, t, "reserved", "consumed")
    BY <1>2 DEF Shift, Phases
  <2> HIDE DEF q
  <2>3. Credits(u, q, "reserved") = Credits(u, ph, "reserved") - Cost[t]
    BY <1>2, <2>1, CreditsLost
  <2>2. Credits(u, q, "reserved") \in Nat /\ Cost[t] \in Nat
    BY CreditsType, BookAssumption
  <2> QED
    BY <1>1, <2>2, <2>3
<1> QED
  BY <1>1, <1>2

-----------------------------------------------------------------------------
(* What is true of the book.                                               *)

(* A balance is what the phases say, and never overdrawn.                  *)
NoOverdraft ==
  \A u \in Users :
    /\ account[u] = Statement(u, phase, granted)
    /\ account[u].available >= 0

BookInv == BookTypeOK /\ NoOverdraft

LEMMA BookInitial == BookInit => BookInv
<1>0. BookInit => BookTypeOK
  BY DEF BookInit, BookTypeOK, Phases
<1> SUFFICES ASSUME BookInit, NEW u \in Users
             PROVE  account[u] = Statement(u, phase, granted) /\ account[u].available >= 0
  BY <1>0 DEF BookInv, NoOverdraft
<1>1. account[u] = Statement(u, phase, granted)
  BY DEF BookInit
<1>2. Statement(u, phase, granted) =
        [total |-> Grant(u, granted), available |-> Grant(u, granted), reserved |-> 0]
  BY StatementFresh DEF BookInit
<1>3. Grant(u, granted) \in Nat
  BY StatementFigures
<1> QED
  BY <1>1, <1>2, <1>3

(* Opening accounts takes nothing away from a balance.                     *)
LEMMA GrantGrows ==
  ASSUME BookInv, granted \subseteq granted', NEW u \in Users
  PROVE  Statement(u, phase, granted').available >= 0
<1>1. Statement(u, phase, granted).available >= 0
  BY DEF BookInv, NoOverdraft
<1>2. Grant(u, granted') >= Grant(u, granted)
  BY BookAssumption DEF Grant
<1> QED
  BY <1>1, <1>2, StatementFigures

LEMMA BookStep == BookInv /\ [BookNext]_bookVars => BookInv'
<1> SUFFICES ASSUME BookInv, [BookNext]_bookVars PROVE BookInv'
  OBVIOUS
<1>0. BookTypeOK /\ NoOverdraft
  BY DEF BookInv
<1>1. ASSUME NEW u \in Users, OpenAccount(u) PROVE BookInv'
  <2>1. BookTypeOK' /\ granted \subseteq granted' /\ phase' = phase
    BY <1>0, <1>1 DEF OpenAccount, BookTypeOK
  <2>2. \A v \in Users : account'[v] = Statement(v, phase, granted')
    BY <1>1 DEF OpenAccount
  <2>3. \A v \in Users : Statement(v, phase, granted').available >= 0
    BY <2>1, GrantGrows
  <2> QED
    BY <2>1, <2>2, <2>3 DEF BookInv, NoOverdraft
<1>2. ASSUME NEW t \in Tasks, NEW from \in Phases, NEW to \in Phases, from # to,
             Move(t, from, to), granted \subseteq granted', granted' \subseteq Users,
             \A u \in Users : Statement(u, phase', granted').available >= 0
      PROVE  BookInv'
  <2>1. BookTypeOK'
    BY <1>0, <1>2 DEF Move, BookTypeOK
  <2> QED
    BY <2>1, <1>2 DEF Move, BookInv, NoOverdraft
<1>3. ASSUME NEW t \in Tasks, Reserve(t) PROVE BookInv'
  <2>1. /\ Move(t, "unpriced", "reserved")
        /\ granted' \subseteq Users /\ granted \subseteq granted'
    BY <1>0, <1>3, BookAssumption DEF Reserve, BookTypeOK
  <2>2. Shift(phase, phase', t, "unpriced", "reserved")
    BY <1>0, <2>1 DEF Move, Shift, BookTypeOK, Phases
  <2>3. ASSUME NEW u \in Users PROVE Statement(u, phase', granted').available >= 0
    <3> DEFINE old == Statement(u, phase, granted')
               new == Statement(u, phase', granted')
    <3>1. old.available >= 0 /\ old.available \in Int /\ Cost[t] \in Nat
      BY <2>1, GrantGrows, StatementFigures, BookAssumption
    <3>2. u = Owner[t] => old.available >= Cost[t]
      BY <1>3 DEF Reserve
    <3> HIDE DEF old, new
    <3>3. /\ u # Owner[t] => new = old
          /\ u = Owner[t] => new.available = old.available - Cost[t]
      BY <2>2, StatementMove DEF old, new
    <3>4. new.available >= 0
      BY <3>1, <3>2, <3>3
    <3> QED
      BY <3>4 DEF new
  <2> QED
    BY <1>2, <2>1, <2>3 DEF Phases
<1>4. ASSUME NEW t \in Tasks, Consume(t) \/ Release(t) PROVE BookInv'
  <2>1. PICK to \in {"consumed", "released"} : Move(t, "reserved", to)
    BY <1>4 DEF Consume, Release
  <2>2. granted' = granted /\ granted \subseteq Users
    BY <1>0, <1>4 DEF Consume, Release, BookTypeOK
  <2>3. Shift(phase, phase', t, "reserved", to)
    BY <1>0, <2>1 DEF Move, Shift, BookTypeOK, Phases
  <2>4. ASSUME NEW u \in Users PROVE Statement(u, phase', granted').available >= 0
    <3> DEFINE old == Statement(u, phase, granted')
               new == Statement(u, phase', granted')
    <3>1. old.available >= 0 /\ old.available \in Int /\ Cost[t] \in Nat
      BY <2>2, GrantGrows, StatementFigures, BookAssumption
    <3> HIDE DEF old, new
    <3>3. \/ new = old
          \/ new.available = old.available
          \/ new.available = old.available + Cost[t]
      BY <2>3, StatementMove DEF old, new
    <3>4. new.available >= 0
      BY <3>1, <3>3
    <3> QED
      BY <3>4 DEF new
  <2> QED
    BY <1>2, <2>1, <2>2, <2>4 DEF Phases
<1>5. CASE UNCHANGED bookVars
  BY <1>0, <1>5 DEF bookVars, BookInv, BookTypeOK, NoOverdraft
<1> QED
  BY <1>1, <1>3, <1>4, <1>5 DEF BookNext

(* Every task is in a phase of the book, and accounts are the users'.      *)
THEOREM BookTypesCorrect == BookSpec => []BookTypeOK
<1>1. BookInv => BookTypeOK
  BY DEF BookInv
<1> QED
  BY <1>1, BookInitial, BookStep, PTL DEF BookSpec

=============================================================================
