----------------------------- MODULE Induction -----------------------------
(***************************************************************************)
(* Induction for the other proof modules.  The library's theorems take the *)
(* property as an operator; here it is a set, which the provers can        *)
(* instantiate.  On it rest the sums of FoldFunction over a finite set.    *)
(***************************************************************************)
EXTENDS Integers, FiniteSetTheorems, WellFoundedInduction, TLAPS

\* Every set of naturals that is not empty has a least element.
LEMMA LeastNat ==
    ASSUME NEW T, T \subseteq Nat, T # {}
    PROVE  \E x \in T : \A y \in T : x <= y
<1>. DEFINE R == OpToRel(<, Nat)
<1>1. IsWellFoundedOn(R, Nat)
    BY NatLessThanWellFounded
<1>2. \A x, y \in Nat : x < y => <<x, y>> \in R
    BY DEF OpToRel
<1>. HIDE DEF R
<1>3. PICK x \in T : \A y \in T : ~ (<<y, x>> \in R)
    BY <1>1, WFMin
<1>4. ASSUME NEW y \in T PROVE x <= y
    <2>1. x \in Nat /\ y \in Nat
        OBVIOUS
    <2>2. ~(y < x)
        BY <2>1, <1>2, <1>3
    <2>. QED
        BY <2>1, <2>2
<1>. QED
    BY <1>4

\* The element a fold over s takes first, and what it leaves for later.
Pick(s) == CHOOSE x \in s : TRUE
Rest(s) == s \ {Pick(s)}

\* Induction over a finite set, in the order a fold takes its elements: a
\* property (a set of sets) that {} has, and that s has when the rest of s does.
LEMMA SubsetInduction ==
    ASSUME NEW S, IsFiniteSet(S), NEW P, {} \in P,
           \A s \in SUBSET S : s # {} /\ Rest(s) \in P => s \in P
    PROVE  SUBSET S \subseteq P
<1>1. SUFFICES ASSUME (SUBSET S) \ P # {} PROVE FALSE
    OBVIOUS
<1>. DEFINE T == {Cardinality(s) : s \in (SUBSET S) \ P}
<1>2. \A s \in SUBSET S : IsFiniteSet(s) /\ Cardinality(s) \in Nat
    BY FS_Subset, FS_CardinalityType
<1>3. T \subseteq Nat /\ T # {}
    BY <1>1, <1>2
<1>4. PICK n \in T : \A m \in T : n <= m
    <2>. HIDE DEF T
    <2>. QED BY <1>3, LeastNat
<1>5. PICK s \in (SUBSET S) \ P : n = Cardinality(s)
    BY <1>4
<1>6. s # {}
    OBVIOUS
<1>7. Pick(s) \in s
    BY <1>6, Zenon DEF Pick
<1>8. Rest(s) \in SUBSET S /\ Cardinality(Rest(s)) = n - 1
    BY <1>2, <1>5, <1>7, FS_RemoveElement DEF Rest
<1>9. Rest(s) \notin P
    BY <1>5, <1>6
<1>10. n - 1 \in T
    BY <1>8, <1>9
<1>. QED
    BY <1>3, <1>4, <1>10

\* The sum of f over every subset of S, as MapThenFoldSet defines it.
Iter(f, S) == CHOOSE g : g = [s \in SUBSET S |->
     IF s = {} THEN 0 ELSE f[Pick(s)] + g[Rest(s)]]

\* Induction over the naturals, for a property given as a set.
LEMMA NatSetInduction ==
    ASSUME NEW P, 0 \in P, \A n \in Nat : n \in P => n + 1 \in P
    PROVE  Nat \subseteq P
<1>1. SUFFICES ASSUME Nat \ P # {} PROVE FALSE
    OBVIOUS
<1>2. PICK x \in Nat \ P : \A y \in Nat \ P : x <= y
    BY <1>1, LeastNat
<1>3. x - 1 \in Nat /\ x - 1 \in P
    BY <1>2
<1>. QED
    BY <1>2, <1>3

\* One unfolding of Iter.
Step(f, g, s) == IF s = {} THEN 0 ELSE f[Pick(s)] + g[Rest(s)]

\* What is left for later is smaller.
LEMMA RestSmaller ==
    ASSUME NEW S, IsFiniteSet(S), NEW s \in SUBSET S, s # {}
    PROVE  /\ Pick(s) \in s /\ Pick(s) \in S /\ Rest(s) \in SUBSET S
           /\ Cardinality(s) \in Nat /\ Cardinality(Rest(s)) = Cardinality(s) - 1
           /\ Cardinality(Rest(s)) \in Nat
<1>1. Pick(s) \in s
    BY Zenon DEF Pick
<1>2. IsFiniteSet(s) /\ Cardinality(s) \in Nat
    BY FS_Subset, FS_CardinalityType
<1>3. IsFiniteSet(Rest(s)) /\ Cardinality(Rest(s)) = Cardinality(s) - 1
    BY <1>1, <1>2, FS_RemoveElement DEF Rest
<1>4. Cardinality(Rest(s)) \in Nat
    BY <1>3, FS_CardinalityType
<1>. QED
    BY <1>1, <1>2, <1>3, <1>4 DEF Rest

\* The recursion of Iter has a solution: one for the subsets of up to n elements
\* extends to those of n + 1.
LEMMA IterExists ==
    ASSUME NEW S, IsFiniteSet(S), NEW f, \A x \in S : f[x] \in Nat
    PROVE  \E g \in [SUBSET S -> Nat] : \A s \in SUBSET S : g[s] = Step(f, g, s)
<1>. DEFINE Good(g, n) == \A s \in SUBSET S : Cardinality(s) <= n => g[s] = Step(f, g, s)
            P == {n \in Nat : \E g \in [SUBSET S -> Nat] : Good(g, n)}
<1>0. \A s \in SUBSET S : IsFiniteSet(s) /\ Cardinality(s) \in Nat
                           /\ (Cardinality(s) = 0 <=> s = {})
    BY FS_Subset, FS_CardinalityType, FS_EmptySet
<1>1. 0 \in P
    <2>. DEFINE g == [s \in SUBSET S |-> 0]
    <2>1. g \in [SUBSET S -> Nat] /\ Good(g, 0)
        BY <1>0 DEF Step
    <2>. QED
        BY <2>1
<1>2. ASSUME NEW n \in Nat, n \in P PROVE n + 1 \in P
    <2>1. PICK g \in [SUBSET S -> Nat] : Good(g, n)
        BY <1>2
    <2>. DEFINE h == [s \in SUBSET S |->
                        IF Cardinality(s) = n + 1 THEN Step(f, g, s) ELSE g[s]]
    <2>2. \A s \in SUBSET S : Step(f, g, s) \in Nat
        BY RestSmaller DEF Step
    <2>3. h \in [SUBSET S -> Nat]
        BY <2>2
    <2>4. ASSUME NEW s \in SUBSET S, Cardinality(s) <= n + 1 PROVE h[s] = Step(f, h, s)
        <3>1. s # {} => h[Rest(s)] = g[Rest(s)]
            BY <1>0, <2>4, RestSmaller
        <3>2. Step(f, h, s) = Step(f, g, s)
            BY <3>1 DEF Step
        <3>3. h[s] = Step(f, g, s)
            BY <1>0, <2>1, <2>4
        <3>. QED
            BY <3>2, <3>3
    <2>5. Good(h, n + 1)
        BY <2>4
    <2>. HIDE DEF h, Good
    <2>. QED
        BY <2>3, <2>5
<1>3. Cardinality(S) \in P
    <2>. HIDE DEF P
    <2>1. Nat \subseteq P
        BY <1>1, <1>2, NatSetInduction
    <2>. QED
        BY <1>0, <2>1
<1>4. PICK g \in [SUBSET S -> Nat] : Good(g, Cardinality(S))
    BY <1>3
<1>5. \A s \in SUBSET S : Cardinality(s) <= Cardinality(S)
    BY FS_Subset
<1>. QED
    BY <1>4, <1>5

\* So Iter is one, and it is a natural number everywhere.
LEMMA IterDefined ==
    ASSUME NEW S, IsFiniteSet(S), NEW f, \A x \in S : f[x] \in Nat
    PROVE  /\ Iter(f, S) \in [SUBSET S -> Nat]
           /\ \A s \in SUBSET S : Iter(f, S)[s] = Step(f, Iter(f, S), s)
<1>. DEFINE h == Iter(f, S)
<1>1. PICK g \in [SUBSET S -> Nat] : \A s \in SUBSET S : g[s] = Step(f, g, s)
    BY IterExists
<1>2. g = [s \in SUBSET S |-> IF s = {} THEN 0 ELSE f[Pick(s)] + g[Rest(s)]]
    BY <1>1 DEF Step
<1>3. h = [s \in SUBSET S |-> IF s = {} THEN 0 ELSE f[Pick(s)] + h[Rest(s)]]
    BY <1>2, Zenon DEF Iter
<1>. HIDE DEF h
<1>4. \A s \in SUBSET S : h[s] = Step(f, h, s)
    BY <1>3 DEF Step
<1>. DEFINE P == {s \in SUBSET S : h[s] \in Nat}
<1>5. {} \in P
    <2>1. h[{}] = 0
        BY <1>4 DEF Step
    <2>. QED BY <2>1
<1>6. ASSUME NEW s \in SUBSET S, s # {}, Rest(s) \in P PROVE s \in P
    <2>1. f[Pick(s)] \in Nat
        BY <1>6, RestSmaller
    <2>2. h[s] = f[Pick(s)] + h[Rest(s)]
        BY <1>4, <1>6 DEF Step
    <2>. QED BY <1>6, <2>1, <2>2
<1>7. SUBSET S \subseteq P
    <2>. HIDE DEF P
    <2>. QED BY <1>5, <1>6, SubsetInduction
<1>8. h \in [SUBSET S -> Nat]
    BY <1>3, <1>7
<1>. QED
    BY <1>4, <1>8 DEF h

\* Adding over a set compares term by term.
LEMMA ScaledBound ==
    ASSUME NEW S, IsFiniteSet(S), NEW f \in [S -> Nat], NEW w \in [S -> Nat],
           NEW a \in Nat, NEW c \in Nat, \A i \in S : a * f[i] <= c * w[i]
    PROVE  a * Iter(f, S)[S] <= c * Iter(w, S)[S]
<1>. DEFINE F == Iter(f, S)  W == Iter(w, S)
<1>1. /\ F \in [SUBSET S -> Nat] /\ W \in [SUBSET S -> Nat]
      /\ \A s \in SUBSET S : F[s] = Step(f, F, s) /\ W[s] = Step(w, W, s)
    BY IterDefined
<1>. HIDE DEF F, W
<1>. DEFINE P == {s \in SUBSET S : a * F[s] <= c * W[s]}
<1>2. {} \in P
    <2>1. F[{}] = 0 /\ W[{}] = 0
        BY <1>1 DEF Step
    <2>2. a * 0 <= c * 0
        OBVIOUS
    <2>. QED BY <2>1, <2>2
<1>3. ASSUME NEW s \in SUBSET S, s # {}, Rest(s) \in P PROVE s \in P
    <2>1. Pick(s) \in S /\ Rest(s) \in SUBSET S
        BY <1>3, RestSmaller
    <2>2. F[s] = f[Pick(s)] + F[Rest(s)] /\ W[s] = w[Pick(s)] + W[Rest(s)]
        BY <1>1, <1>3 DEF Step
    <2>3. \A x, y, u, v \in Nat : a * x <= c * u /\ a * y <= c * v =>
              a * (x + y) <= c * (u + v)
        <3>1. \A x, y \in Nat : a * (x + y) = a * x + a * y /\ c * (x + y) = c * x + c * y
            OBVIOUS
        <3>2. \A x \in Nat : a * x \in Nat /\ c * x \in Nat
            OBVIOUS
        <3>. QED BY <3>1, <3>2
    <2>4. /\ f[Pick(s)] \in Nat /\ w[Pick(s)] \in Nat
          /\ F[Rest(s)] \in Nat /\ W[Rest(s)] \in Nat
        BY <1>1, <2>1
    <2>5. a * f[Pick(s)] <= c * w[Pick(s)] /\ a * F[Rest(s)] <= c * W[Rest(s)]
        BY <1>3, <2>1
    <2>. QED
        BY <2>2, <2>3, <2>4, <2>5
<1>4. SUBSET S \subseteq P
    <2>. HIDE DEF P
    <2>. QED BY <1>2, <1>3, SubsetInduction
<1>. QED
    BY <1>4 DEF F, W

\* Raising some of the terms by one raises the sum by their number.
LEMMA RaisedSum ==
    ASSUME NEW S, IsFiniteSet(S), NEW f \in [S -> Nat], NEW U \in SUBSET S
    PROVE  LET t == [i \in S |-> IF i \in U THEN f[i] + 1 ELSE f[i]]
           IN  Iter(t, S)[S] = Iter(f, S)[S] + Cardinality(U)
<1>. DEFINE t == [i \in S |-> IF i \in U THEN f[i] + 1 ELSE f[i]]
            F == Iter(f, S)  T == Iter(t, S)
<1>0. t \in [S -> Nat]
    OBVIOUS
<1>1. /\ F \in [SUBSET S -> Nat] /\ T \in [SUBSET S -> Nat]
      /\ \A s \in SUBSET S : F[s] = Step(f, F, s) /\ T[s] = Step(t, T, s)
    <2>. HIDE DEF t
    <2>. QED BY <1>0, IterDefined
<1>. HIDE DEF F, T
<1>. DEFINE P == {s \in SUBSET S : T[s] = F[s] + Cardinality(s \cap U)}
<1>2. {} \in P
    <2>1. {} \cap U = {}
        OBVIOUS
    <2>2. F[{}] = 0 /\ T[{}] = 0
        BY <1>1 DEF Step
    <2>. QED BY <2>1, <2>2, FS_EmptySet
<1>3. ASSUME NEW s \in SUBSET S, s # {}, Rest(s) \in P PROVE s \in P
    <2>1. Pick(s) \in s /\ Pick(s) \in S /\ Rest(s) \in SUBSET S
        BY <1>3, RestSmaller
    <2>2. F[s] = f[Pick(s)] + F[Rest(s)] /\ T[s] = t[Pick(s)] + T[Rest(s)]
        BY <1>1, <1>3 DEF Step
    <2>3. Rest(s) \cap U = (s \cap U) \ {Pick(s)}
        BY DEF Rest
    <2>4. IsFiniteSet(s \cap U) /\ Cardinality(s \cap U) \in Nat
        <3>1. s \cap U \in SUBSET S
            OBVIOUS
        <3>. QED BY <3>1, FS_Subset, FS_CardinalityType
    <2>5. Cardinality(Rest(s) \cap U) =
              IF Pick(s) \in U THEN Cardinality(s \cap U) - 1 ELSE Cardinality(s \cap U)
        <3>. DEFINE V == s \cap U
        <3>1. Pick(s) \in U <=> Pick(s) \in V
            BY <2>1
        <3>2. IsFiniteSet(V) /\ Rest(s) \cap U = V \ {Pick(s)}
            BY <2>3, <2>4
        <3>. HIDE DEF V
        <3>3. Cardinality(V \ {Pick(s)}) =
                  IF Pick(s) \in V THEN Cardinality(V) - 1 ELSE Cardinality(V)
            BY <3>2, FS_RemoveElement
        <3>4. Cardinality(Rest(s) \cap U) =
                  IF Pick(s) \in U THEN Cardinality(V) - 1 ELSE Cardinality(V)
            BY <3>1, <3>2, <3>3
        <3>. QED
            BY <3>4 DEF V
    <2>6. t[Pick(s)] = IF Pick(s) \in U THEN f[Pick(s)] + 1 ELSE f[Pick(s)]
        BY <2>1
    <2>7. f[Pick(s)] \in Nat /\ F[Rest(s)] \in Nat /\ T[Rest(s)] \in Nat
        BY <1>1, <2>1
    <2>8. T[Rest(s)] = F[Rest(s)] + Cardinality(Rest(s) \cap U)
        BY <1>3
    <2>. HIDE DEF t
    <2>9. T[s] = F[s] + Cardinality(s \cap U)
        BY <2>2, <2>4, <2>5, <2>6, <2>7, <2>8
    <2>. QED BY <2>9
<1>4. SUBSET S \subseteq P
    <2>. HIDE DEF P
    <2>. QED BY <1>2, <1>3, SubsetInduction
<1>5. S \cap U = U
    OBVIOUS
<1>6. T[S] = F[S] + Cardinality(U)
    BY <1>4, <1>5
<1>. QED
    BY <1>6 DEF F, T

\* The first slots that are short, at most n of them: no more than n are named.
LEMMA FirstShort ==
    ASSUME NEW N \in Nat, NEW A \in SUBSET (1..N), NEW n \in Nat
    PROVE  LET U == {i \in A : Cardinality({j \in 1..i : j \in A}) <= n}
           IN  IsFiniteSet(U) /\ Cardinality(U) <= n
<1>. DEFINE upto(i) == {j \in 1..i : j \in A}
            U == {i \in A : Cardinality(upto(i)) <= n}
            f == [i \in U |-> Cardinality(upto(i))]
<1>1. \A i \in A : /\ IsFiniteSet(upto(i)) /\ Cardinality(upto(i)) \in Nat
                   /\ i \in upto(i) /\ Cardinality(upto(i)) # 0
    <2>1. ASSUME NEW i \in A PROVE IsFiniteSet(upto(i)) /\ i \in upto(i)
        <3>1. i \in Nat /\ i >= 1 /\ IsFiniteSet(1..i)
            BY FS_Interval
        <3>2. upto(i) \in SUBSET (1..i)
            OBVIOUS
        <3>3. i \in 1..i
            BY <3>1
        <3>. QED
            BY <3>1, <3>2, <3>3, FS_Subset
    <2>. HIDE DEF upto
    <2>. QED BY <2>1, FS_CardinalityType, FS_EmptySet
<1>2. ASSUME NEW i \in A, NEW k \in A, i < k
      PROVE  Cardinality(upto(i)) < Cardinality(upto(k))
    <2>1. upto(i) \in SUBSET upto(k) /\ k \notin upto(i)
        BY <1>2
    <2>2. upto(i) # upto(k)
        BY <1>1, <2>1
    <2>. HIDE DEF upto
    <2>. QED
        BY <1>1, <2>1, <2>2, FS_Subset
<1>3. f \in [U -> 1..n]
    <2>1. ASSUME NEW i \in U PROVE Cardinality(upto(i)) \in 1..n
        <3>1. i \in A /\ Cardinality(upto(i)) <= n
            OBVIOUS
        <3>2. Cardinality(upto(i)) \in Nat /\ Cardinality(upto(i)) # 0
            BY <1>1, <3>1
        <3>. HIDE DEF upto, U
        <3>. QED BY <3>1, <3>2
    <2>. HIDE DEF upto, U
    <2>. QED BY <2>1
<1>4. \A i, k \in U : f[i] = f[k] => i = k
    <2>. SUFFICES ASSUME NEW i \in U, NEW k \in U, f[i] = f[k], i # k PROVE FALSE
        OBVIOUS
    <2>1. i < k \/ k < i
        OBVIOUS
    <2>. HIDE DEF upto
    <2>. QED BY <1>1, <1>2, <2>1
<1>5. f \in Injection(U, 1..n)
    <2>1. DOMAIN f = U
        OBVIOUS
    <2>. HIDE DEF f, U
    <2>. QED BY <1>3, <1>4, <2>1 DEF Injection, IsInjective
<1>6. IsFiniteSet(1..n) /\ Cardinality(1..n) = n
    BY FS_Interval
<1>7. IsFiniteSet(U) /\ Cardinality(U) <= n
    <2>. HIDE DEF f, U
    <2>. QED BY <1>5, <1>6, FS_Injection
<1>. QED
    BY <1>7
=============================================================================
