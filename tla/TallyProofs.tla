----------------------------- MODULE TallyProofs -----------------------------
(***************************************************************************)
(* What sums are, and how they change with the values they add up.         *)
(***************************************************************************)
EXTENDS Tally, FiniteSetTheorems, TLAPS

LEMMA CoinsOf ==
  ASSUME NEW f
  PROVE  /\ \A x \in DOMAIN f : \A n \in 1..f[x] : <<x, n>> \in Coins(f)
         /\ \A c \in Coins(f) : \E x \in DOMAIN f : \E n \in 1..f[x] : c = <<x, n>>
BY DEF Coins

LEMMA OneTally ==
  ASSUME NEW x, NEW n \in Nat
  PROVE  IsFiniteSet({x} \X (1..n)) /\ Cardinality({x} \X (1..n)) = n
<1>1. IsFiniteSet({x}) /\ Cardinality({x}) = 1
  BY FS_Singleton
<1>2. IsFiniteSet(1..n) /\ Cardinality(1..n) = n
  BY FS_Interval
<1>3. /\ IsFiniteSet({x} \X (1..n))
      /\ Cardinality({x} \X (1..n)) = Cardinality({x}) * Cardinality(1..n)
  BY <1>1, <1>2, FS_Product
<1> QED
  BY <1>1, <1>2, <1>3

(* Finitely many numbers have a sum.                                       *)
LEMMA TallyType ==
  ASSUME NEW D, IsFiniteSet(D), NEW f \in [D -> Nat]
  PROVE  IsFiniteSet(Coins(f)) /\ Tally(f) \in Nat
<1> DEFINE own == [x \in D |-> {x} \X (1..f[x])]
           T == {{x} \X (1..f[x]) : x \in D}
<1>1. own \in Surjection(D, T)
  BY DEF Surjection
<1>2. IsFiniteSet(T)
  <2> HIDE DEF own, T
  <2> QED
    BY <1>1, FS_Surjection
<1>3. \A S \in T : IsFiniteSet(S)
  <2> SUFFICES ASSUME NEW x \in D PROVE IsFiniteSet({x} \X (1..f[x]))
    OBVIOUS
  <2>1. f[x] \in Nat
    OBVIOUS
  <2> HIDE DEF own, T
  <2> QED
    BY <2>1, OneTally
<1>4. IsFiniteSet(UNION T)
  <2> HIDE DEF T
  <2> QED
    BY <1>2, <1>3, FS_UNION
<1>5. Coins(f) = UNION T
  BY DEF Coins
<1>6. IsFiniteSet(Coins(f))
  BY <1>4, <1>5
<1> QED
  BY <1>6, FS_CardinalityType DEF Tally

LEMMA TallyEmpty == ASSUME NEW f, DOMAIN f = {} PROVE Tally(f) = 0
<1>1. Coins(f) = {}
  BY DEF Coins
<1> QED
  BY <1>1, FS_EmptySet DEF Tally

LEMMA TallyZero == ASSUME NEW f, \A x \in DOMAIN f : f[x] = 0 PROVE Tally(f) = 0
<1>1. \A x \in DOMAIN f : {x} \X (1..f[x]) = {}
  OBVIOUS
<1>2. Coins(f) = {}
  BY <1>1, Zenon DEF Coins
<1> QED
  BY <1>2, FS_EmptySet DEF Tally

(* One more number.                                                        *)
LEMMA TallyAdd ==
  ASSUME NEW D, IsFiniteSet(D), NEW x, x \notin D,
         NEW f \in [D -> Nat], NEW g \in [D \cup {x} -> Nat],
         \A y \in D : g[y] = f[y]
  PROVE  Tally(g) = Tally(f) + g[x]
<1> DEFINE own == {x} \X (1..g[x])
<1>0. g[x] \in Nat
  OBVIOUS
<1>1. IsFiniteSet(own) /\ Cardinality(own) = g[x]
  BY <1>0, OneTally
<1>2. IsFiniteSet(Coins(f)) /\ Cardinality(Coins(f)) \in Nat
  BY TallyType DEF Tally
<1>3. Coins(g) = Coins(f) \cup own
  BY DEF Coins
<1>4. Coins(f) \cap own = {}
  BY DEF Coins
<1>5. Cardinality(Coins(f) \cup own) =
        Cardinality(Coins(f)) + Cardinality(own) - Cardinality(Coins(f) \cap own)
  <2> HIDE DEF own
  <2> QED
    BY <1>1, <1>2, FS_Union
<1>6. Cardinality(Coins(f) \cap own) = 0
  BY <1>4, FS_EmptySet
<1>7. Tally(g) = Cardinality(Coins(f) \cup own)
  BY <1>3, Zenon DEF Tally
<1> HIDE DEF own
<1> QED
  BY <1>0, <1>1, <1>2, <1>5, <1>6, <1>7 DEF Tally

LEMMA TallyMore ==
  ASSUME NEW D, NEW E, NEW x \in E, x \notin D, E = D \cup {x}, IsFiniteSet(D),
         NEW f, f \in [D -> Nat], NEW g, g \in [E -> Nat],
         \A y \in D : g[y] = f[y]
  PROVE  Tally(g) = Tally(f) + g[x]
BY TallyAdd

(* The sum over a set with one more element.                               *)
LEMMA TallyNext ==
  ASSUME NEW C, NEW a \in [C -> Nat], NEW D, IsFiniteSet(D), D \subseteq C,
         NEW x \in C, x \notin D
  PROVE  Tally([j \in D \cup {x} |-> a[j]]) = Tally([j \in D |-> a[j]]) + a[x]
<1> DEFINE f == [j \in D |-> a[j]]
           g == [j \in D \cup {x} |-> a[j]]
<1>1. f \in [D -> Nat] /\ g \in [D \cup {x} -> Nat]
  OBVIOUS
<1>2. (\A j \in D : g[j] = f[j]) /\ g[x] = a[x]
  OBVIOUS
<1> HIDE DEF f, g
<1> QED
  BY <1>1, <1>2, TallyAdd

(* Larger numbers, or more of them, do not have a smaller sum.             *)
LEMMA TallyGrows ==
  ASSUME NEW D, NEW E, IsFiniteSet(E), D \subseteq E,
         NEW f \in [D -> Nat], NEW g \in [E -> Nat],
         \A y \in D : f[y] <= g[y]
  PROVE  Tally(f) <= Tally(g)
<1>1. Coins(f) \in SUBSET Coins(g)
  <2> SUFFICES ASSUME NEW c \in Coins(f) PROVE c \in Coins(g)
    OBVIOUS
  <2>1. PICK x \in D : \E n \in 1..f[x] : c = <<x, n>>
    BY CoinsOf
  <2>2. PICK n \in 1..f[x] : c = <<x, n>>
    BY <2>1
  <2>3. n \in 1..g[x]
    BY <2>2
  <2> QED
    BY <2>2, <2>3 DEF Coins
<1> QED
  BY <1>1, TallyType, FS_Subset DEF Tally

(* A number that changes.                                                  *)
LEMMA TallyChange ==
  ASSUME NEW D, IsFiniteSet(D), NEW x \in D, NEW f \in [D -> Nat], NEW g \in [D -> Nat],
         \A y \in D : y # x => g[y] = f[y]
  PROVE  Tally(g) = Tally(f) - f[x] + g[x]
<1> DEFINE R == D \ {x}
           h == [y \in R |-> f[y]]
<1>1. IsFiniteSet(R)
  BY FS_Subset
<1>2. /\ R \cup {x} = D /\ x \notin R /\ h \in [R -> Nat]
      /\ \A y \in R : f[y] = h[y] /\ g[y] = h[y]
  OBVIOUS
<1>3. f \in [R \cup {x} -> Nat] /\ g \in [R \cup {x} -> Nat]
  BY <1>2
<1> HIDE DEF R, h
<1>4. Tally(f) = Tally(h) + f[x] /\ Tally(g) = Tally(h) + g[x]
  BY <1>1, <1>2, <1>3, TallyAdd
<1>5. Tally(h) \in Nat
  BY <1>1, <1>2, TallyType
<1> QED
  BY <1>4, <1>5

(* Numbers that go to other places.                                        *)
LEMMA TallyMoved ==
  ASSUME NEW D, NEW E, IsFiniteSet(E), NEW f \in [D -> Nat], NEW g \in [E -> Nat],
         NEW h \in [D -> E], \A x, y \in D : h[x] = h[y] => x = y,
         \A x \in D : f[x] <= g[h[x]]
  PROVE  Tally(f) <= Tally(g)
<1> DEFINE m == [c \in Coins(f) |-> <<h[c[1]], c[2]>>]
<1>1. ASSUME NEW c \in Coins(f)
      PROVE  /\ c[1] \in D /\ c = <<c[1], c[2]>>
             /\ m[c] \in Coins(g)
  <2>1. PICK x \in D : \E n \in 1..f[x] : c = <<x, n>>
    BY CoinsOf
  <2>2. PICK n \in 1..f[x] : c = <<x, n>>
    BY <2>1
  <2>3. n \in 1..g[h[x]] /\ h[x] \in E
    <3>1. f[x] \in Nat /\ h[x] \in E /\ f[x] <= g[h[x]]
      OBVIOUS
    <3>2. g[h[x]] \in Nat
      BY <3>1
    <3> QED
      BY <3>1, <3>2
  <2>4. <<h[x], n>> \in Coins(g)
    BY <2>3, CoinsOf
  <2> QED
    BY <2>2, <2>4
<1>2. ASSUME NEW c \in Coins(f), NEW d \in Coins(f), m[c] = m[d]
      PROVE  c = d
  <2>1. h[c[1]] = h[d[1]] /\ c[2] = d[2]
    BY <1>2
  <2>2. c[1] \in D /\ d[1] \in D /\ c = <<c[1], c[2]>> /\ d = <<d[1], d[2]>>
    BY <1>1
  <2>3. c[1] = d[1]
    BY <2>1, <2>2
  <2> QED
    BY <2>1, <2>2, <2>3
<1>3. m \in Injection(Coins(f), Coins(g))
  BY <1>1, <1>2 DEF Injection, IsInjective
<1>4. IsFiniteSet(Coins(g))
  BY TallyType
<1> HIDE DEF m
<1> QED
  BY <1>3, <1>4, FS_Injection DEF Tally

(* Induction up to a number: a set that is left upwards by none of its     *)
(* elements but the last could else be counted into less than itself.      *)
LEMMA Climb ==
  ASSUME NEW L \in Nat, NEW P \in SUBSET (0..L), 0 \in P,
         \A n \in P : n < L => n + 1 \in P
  PROVE  L \in P
<1> SUFFICES ASSUME L \notin P PROVE FALSE
  OBVIOUS
<1> DEFINE up == [n \in P |-> n + 1]
<1>1. IsFiniteSet(P)
  <2>1. IsFiniteSet(0..L)
    BY FS_Interval
  <2> QED
    BY <2>1, FS_Subset
<1>2. up \in Injection(P, P \ {0})
  <2>1. \A n \in P : n \in Int /\ n < L /\ n + 1 # 0
    OBVIOUS
  <2> QED
    BY <2>1 DEF Injection, IsInjective
<1>3. IsFiniteSet(P \ {0}) /\ Cardinality(P \ {0}) = Cardinality(P) - 1
  BY <1>1, FS_RemoveElement
<1> HIDE DEF up
<1>4. Cardinality(P) <= Cardinality(P \ {0})
  BY <1>2, <1>3, FS_Injection
<1> QED
  BY <1>1, <1>3, <1>4, FS_CardinalityType

(* The sum over the places up to a number, one place further.              *)
UpTo(C, m) == {k \in C : k <= m}
SumUpTo(C, f, m) == Tally([j \in UpTo(C, m) |-> f[j]])

LEMMA SumTo ==
  ASSUME NEW C, IsFiniteSet(C), \A k \in C : k \in Nat /\ 1 <= k,
         NEW f \in [C -> Nat], NEW m \in Nat
  PROVE  /\ SumUpTo(C, f, m) \in Nat
         /\ m + 1 \notin C => SumUpTo(C, f, m + 1) = SumUpTo(C, f, m)
         /\ m + 1 \in C => /\ SumUpTo(C, f, m + 1) = SumUpTo(C, f, m) + f[m + 1]
                           /\ Tally([j \in {k \in C : k < m + 1} |-> f[j]]) = SumUpTo(C, f, m)
<1> DEFINE D == UpTo(C, m)
           z == m + 1
<1>1. IsFiniteSet(D) /\ D \subseteq C
  <2>1. D \subseteq C
    BY DEF UpTo
  <2> QED
    BY <2>1, FS_Subset
<1>2. SumUpTo(C, f, m) \in Nat
  <2>1. [j \in D |-> f[j]] \in [D -> Nat]
    BY <1>1
  <2> HIDE DEF D
  <2> QED
    BY <1>1, <2>1, TallyType DEF SumUpTo, D
<1>3. ASSUME z \notin C PROVE SumUpTo(C, f, z) = SumUpTo(C, f, m)
  <2>1. \A k \in C : k <= z <=> k <= m
    BY <1>3
  <2>2. UpTo(C, z) = UpTo(C, m)
    BY <2>1 DEF UpTo
  <2> QED
    BY <2>2 DEF SumUpTo
<1>4. ASSUME z \in C
      PROVE  /\ SumUpTo(C, f, z) = SumUpTo(C, f, m) + f[z]
             /\ Tally([j \in {k \in C : k < z} |-> f[j]]) = SumUpTo(C, f, m)
  <2>1. \A k \in C : (k <= z <=> k <= m \/ k = z) /\ (k < z <=> k <= m)
    OBVIOUS
  <2>2. ~(z <= m)
    OBVIOUS
  <2>3. UpTo(C, z) = D \cup {z} /\ z \notin D /\ {k \in C : k < z} = D
    BY <1>4, <2>1, <2>2 DEF UpTo
  <2> HIDE DEF D, z
  <2>4. Tally([j \in D \cup {z} |-> f[j]]) = Tally([j \in D |-> f[j]]) + f[z]
    BY <1>1, <1>4, <2>3, TallyNext
  <2> QED
    BY <2>3, <2>4 DEF SumUpTo, D
<1> QED
  BY <1>2, <1>3, <1>4

LEMMA SumToAll ==
  ASSUME NEW L \in Nat, NEW C, \A k \in C : k \in Nat /\ 1 <= k /\ k <= L,
         NEW f \in [C -> Nat]
  PROVE  SumUpTo(C, f, 0) = 0 /\ SumUpTo(C, f, L) = Tally(f)
<1>1. UpTo(C, 0) = {}
  <2>1. \A k \in C : ~(k <= 0)
    OBVIOUS
  <2> QED
    BY <2>1 DEF UpTo
<1>2. UpTo(C, L) = C /\ [j \in C |-> f[j]] = f
  BY DEF UpTo
<1> QED
  BY <1>1, <1>2, TallyEmpty DEF SumUpTo

(* Who gives whenever something is still missing, all he has if need be,   *)
(* gives enough in the end.                                                *)
ServesUpTo(C, a, b, n) ==
  \A i \in C : \/ a[i] <= b[i]
               \/ n - Tally([j \in {k \in C : k < i} |-> a[j]]) <= b[i]

LEMMA TallyServed ==
  ASSUME NEW L \in Nat, NEW C, IsFiniteSet(C), \A k \in C : k \in Nat /\ 1 <= k /\ k <= L,
         NEW a \in [C -> Nat], NEW b \in [C -> Nat],
         NEW n \in Nat, n <= Tally(a), ServesUpTo(C, a, b, n)
  PROVE  n <= Tally(b)
<1> DEFINE A(m) == SumUpTo(C, a, m)
           B(m) == SumUpTo(C, b, m)
           P == {m \in 0..L : n <= B(m) \/ A(m) <= B(m)}
<1>1. 0 \in P
  <2>1. A(0) = 0 /\ B(0) = 0
    BY SumToAll
  <2> QED
    BY <2>1
<1>2. ASSUME NEW m \in P, m < L PROVE m + 1 \in P
  <2>1. m \in Nat /\ m \in 0..L /\ m + 1 \in 0..L /\ (n <= B(m) \/ A(m) <= B(m))
    BY <1>2
  <2>2. /\ A(m) \in Nat /\ B(m) \in Nat
        /\ m + 1 \notin C => A(m + 1) = A(m) /\ B(m + 1) = B(m)
        /\ m + 1 \in C => /\ A(m + 1) = A(m) + a[m + 1] /\ B(m + 1) = B(m) + b[m + 1]
                          /\ Tally([j \in {k \in C : k < m + 1} |-> a[j]]) = A(m)
    BY <2>1, SumTo
  <2>3. m + 1 \in C => /\ a[m + 1] \in Nat /\ b[m + 1] \in Nat
                       /\ a[m + 1] <= b[m + 1] \/ n - A(m) <= b[m + 1]
    BY <2>2 DEF ServesUpTo
  <2> HIDE DEF A, B
  <2> QED
    BY <2>1, <2>2, <2>3
<1>3. L \in P
  <2>1. P \in SUBSET (0..L)
    OBVIOUS
  <2> HIDE DEF P
  <2> QED
    BY <1>1, <1>2, <2>1, Climb
<1>4. A(L) = Tally(a) /\ B(L) = Tally(b)
  BY SumToAll
<1>5. A(L) \in Nat /\ B(L) \in Nat
  BY SumTo
<1> HIDE DEF A, B
<1> QED
  BY <1>3, <1>4, <1>5

(* Who gives no more than he has, and only what is still missing, gives no *)
(* more than was asked for.                                                *)
ServesNoMore(C, a, b, n) ==
  \A i \in C : /\ b[i] <= a[i]
               /\ b[i] = 0 \/ Tally([j \in {k \in C : k < i} |-> a[j]]) + b[i] <= n

LEMMA TallyWithin ==
  ASSUME NEW L \in Nat, NEW C, IsFiniteSet(C), \A k \in C : k \in Nat /\ 1 <= k /\ k <= L,
         NEW a \in [C -> Nat], NEW b \in [C -> Nat],
         NEW n \in Nat, ServesNoMore(C, a, b, n)
  PROVE  Tally(b) <= n
<1> DEFINE A(m) == SumUpTo(C, a, m)
           B(m) == SumUpTo(C, b, m)
           P == {m \in 0..L : B(m) <= n /\ B(m) <= A(m)}
<1>1. 0 \in P
  <2>1. A(0) = 0 /\ B(0) = 0
    BY SumToAll
  <2> QED
    BY <2>1
<1>2. ASSUME NEW m \in P, m < L PROVE m + 1 \in P
  <2>1. m \in Nat /\ m \in 0..L /\ m + 1 \in 0..L /\ B(m) <= n /\ B(m) <= A(m)
    BY <1>2
  <2>2. /\ A(m) \in Nat /\ B(m) \in Nat
        /\ m + 1 \notin C => A(m + 1) = A(m) /\ B(m + 1) = B(m)
        /\ m + 1 \in C => /\ A(m + 1) = A(m) + a[m + 1] /\ B(m + 1) = B(m) + b[m + 1]
                          /\ Tally([j \in {k \in C : k < m + 1} |-> a[j]]) = A(m)
    BY <2>1, SumTo
  <2>3. m + 1 \in C => /\ a[m + 1] \in Nat /\ b[m + 1] \in Nat
                       /\ b[m + 1] <= a[m + 1]
                       /\ b[m + 1] = 0 \/ A(m) + b[m + 1] <= n
    BY <2>2 DEF ServesNoMore
  <2>4. B(m + 1) <= n /\ B(m + 1) <= A(m + 1)
    <3> HIDE DEF A, B, P
    <3>1. CASE m + 1 \notin C
      BY <2>1, <2>2, <3>1
    <3>2. CASE m + 1 \in C /\ b[m + 1] = 0
      BY <2>1, <2>2, <2>3, <3>2
    <3>3. CASE m + 1 \in C /\ A(m) + b[m + 1] <= n
      BY <2>1, <2>2, <2>3, <3>3
    <3> QED
      BY <2>3, <3>1, <3>2, <3>3
  <2> QED
    BY <2>1, <2>4
<1>3. L \in P
  <2>1. P \in SUBSET (0..L)
    OBVIOUS
  <2> HIDE DEF P
  <2> QED
    BY <1>1, <1>2, <2>1, Climb
<1>4. B(L) = Tally(b)
  BY SumToAll
<1> HIDE DEF A, B
<1> QED
  BY <1>3, <1>4

(* Zeros add nothing.                                                      *)
LEMMA TallyPositive ==
  ASSUME NEW D, NEW f \in [D -> Nat]
  PROVE  Tally(f) = Tally([x \in {y \in D : f[y] > 0} |-> f[x]])
<1> DEFINE E == {y \in D : f[y] > 0}
           g == [x \in E |-> f[x]]
<1>1. Coins(f) \subseteq Coins(g)
  <2> SUFFICES ASSUME NEW c \in Coins(f) PROVE c \in Coins(g)
    OBVIOUS
  <2>1. PICK x \in D : \E n \in 1..f[x] : c = <<x, n>>
    BY CoinsOf
  <2>2. PICK n \in 1..f[x] : c = <<x, n>>
    BY <2>1
  <2>3. f[x] > 0
    BY <2>2
  <2>4. x \in DOMAIN g /\ n \in 1..g[x]
    BY <2>2, <2>3
  <2> HIDE DEF g
  <2> QED
    BY <2>2, <2>4, CoinsOf
<1>2. Coins(g) \subseteq Coins(f)
  <2> SUFFICES ASSUME NEW c \in Coins(g) PROVE c \in Coins(f)
    OBVIOUS
  <2>1. PICK x \in E : \E n \in 1..g[x] : c = <<x, n>>
    BY CoinsOf
  <2>2. PICK n \in 1..g[x] : c = <<x, n>>
    BY <2>1
  <2>3. x \in DOMAIN f /\ n \in 1..f[x]
    BY <2>2
  <2> QED
    BY <2>2, <2>3, CoinsOf
<1>3. Coins(f) = Coins(g)
  BY <1>1, <1>2
<1> QED
  BY <1>3 DEF Tally

(* No number is larger than the sum.                                       *)
LEMMA TallyOne ==
  ASSUME NEW D, IsFiniteSet(D), NEW f \in [D -> Nat], NEW x \in D
  PROVE  f[x] <= Tally(f)
<1> DEFINE g == [y \in D |-> IF y = x THEN 0 ELSE f[y]]
<1>1. g \in [D -> Nat] /\ g[x] = 0 /\ \A y \in D : y # x => g[y] = f[y]
  OBVIOUS
<1> HIDE DEF g
<1>2. Tally(g) = Tally(f) - f[x] + g[x]
  BY <1>1, TallyChange
<1>3. Tally(f) \in Nat /\ Tally(g) \in Nat
  BY <1>1, TallyType
<1> QED
  BY <1>1, <1>2, <1>3

=============================================================================
