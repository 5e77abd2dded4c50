-------------------------- MODULE SupervisorProofs --------------------------
(***************************************************************************)
(* The supervisor on every graph: what the folds over the topological      *)
(* order compute, and the safety properties of waves and verbs.            *)
(***************************************************************************)
EXTENDS Supervisor, Induction


----------------------------------------------------------------------------
(* A fold from left to right, as FoldLeft defines it: a sweep over the     *)
(* positions 1..N that adds Add[x] at the positions in Go and where        *)
(* Trig[x] is met.                                                         *)

\* A set of positions that is not empty has a largest one, which Max names.
LEMMA MaxIsLargest ==
    ASSUME NEW N \in Nat, NEW s \in SUBSET (1..N), s # {}
    PROVE  Max(s) \in s /\ \A y \in s : Max(s) >= y
<1>. DEFINE T == {N - x : x \in s}
<1>1. T \subseteq Nat /\ T # {}
    <2>1. \A x \in s : x \in Nat /\ x <= N
        OBVIOUS
    <2>2. \A x \in s : N - x \in Nat
        BY <2>1
    <2>3. PICK x \in s : TRUE
        OBVIOUS
    <2>4. N - x \in T
        BY <2>3
    <2>. QED BY <2>2, <2>4
<1>2. PICK t \in T : \A u \in T : t <= u
    <2>. HIDE DEF T
    <2>. QED BY <1>1, LeastNat
<1>3. PICK x \in s : t = N - x
    BY <1>2
<1>4. \A y \in s : x >= y
    <2>. SUFFICES ASSUME NEW y \in s PROVE x >= y
        OBVIOUS
    <2>1. N - x <= N - y
        BY <1>2, <1>3
    <2>. QED BY <2>1
<1>. QED
    BY <1>4, Zenon DEF Max

\* One unfolding: the positions before the last, then the last.
Before(s) == s \ {Max(s)}
SweepStep(Go, Trig, Add, base, g, s) ==
    IF s = {} THEN base
    ELSE IF Max(s) \in Go \/ Trig[Max(s)] \intersect g[Before(s)] # {}
         THEN g[Before(s)] \union Add[Max(s)] ELSE g[Before(s)]

\* What a sweep needs, and what it computes for every set of positions.
Sweepable(N, V, Go, Trig, Add, base) ==
    /\ N \in Nat /\ base \in SUBSET V
    /\ Add \in [1..N -> SUBSET V]

Swept(N, Go, Trig, Add, base, g) ==
    /\ DOMAIN g = SUBSET (1..N)
    /\ \A s \in SUBSET (1..N) : g[s] = SweepStep(Go, Trig, Add, base, g, s)

\* The sets it passes through, position by position.
Passes(N, V, Go, Trig, Add, base, h) ==
    /\ h \in [0..N -> SUBSET V] /\ h[0] = base
    /\ \A k \in 1..N : h[k] = IF k \in Go \/ Trig[k] \intersect h[k - 1] # {}
                             THEN h[k - 1] \union Add[k] ELSE h[k - 1]

\* The positions before the last are fewer.
LEMMA BeforeSmaller ==
    ASSUME NEW N \in Nat, NEW s \in SUBSET (1..N)
    PROVE  /\ Cardinality(s) \in Nat /\ (Cardinality(s) = 0 <=> s = {})
           /\ Cardinality(s) <= N
           /\ s # {} => /\ Max(s) \in s /\ Max(s) \in 1..N /\ Before(s) \in SUBSET (1..N)
                        /\ Cardinality(Before(s)) = Cardinality(s) - 1
<1>1. IsFiniteSet(1..N) /\ Cardinality(1..N) = N
    BY FS_Interval
<1>2. IsFiniteSet(s) /\ Cardinality(s) \in Nat /\ Cardinality(s) <= N
    BY <1>1, FS_Subset, FS_CardinalityType
<1>3. Cardinality(s) = 0 <=> s = {}
    BY <1>2, FS_EmptySet
<1>4. ASSUME s # {}
      PROVE  /\ Max(s) \in s /\ Before(s) \in SUBSET (1..N)
             /\ Cardinality(Before(s)) = Cardinality(s) - 1
    <2>1. Max(s) \in s
        BY <1>4, MaxIsLargest
    <2>. QED
        BY <1>2, <2>1, FS_RemoveElement DEF Before
<1>. QED
    BY <1>2, <1>3, <1>4

\* The recursion has a solution, as that of module Induction has.
LEMMA SweepExists ==
    ASSUME NEW N, NEW V, NEW Go, NEW Trig, NEW Add, NEW base, Sweepable(N, V, Go, Trig, Add, base)
    PROVE  \E g : Swept(N, Go, Trig, Add, base, g)
<1>. USE DEF Sweepable
<1>. DEFINE Good(g, n) == \A s \in SUBSET (1..N) :
                Cardinality(s) <= n => g[s] = SweepStep(Go, Trig, Add, base, g, s)
            P == {n \in Nat : \E g \in [SUBSET (1..N) -> SUBSET V] : Good(g, n)}
<1>1. 0 \in P
    <2>. DEFINE g == [s \in SUBSET (1..N) |-> base]
    <2>1. g \in [SUBSET (1..N) -> SUBSET V]
        OBVIOUS
    <2>2. Good(g, 0)
        <3>. SUFFICES ASSUME NEW s \in SUBSET (1..N), Cardinality(s) <= 0
                      PROVE  g[s] = SweepStep(Go, Trig, Add, base, g, s)
            OBVIOUS
        <3>1. s = {}
            BY BeforeSmaller
        <3>. QED BY <3>1 DEF SweepStep
    <2>. QED
        BY <2>1, <2>2
<1>2. ASSUME NEW n \in Nat, n \in P PROVE n + 1 \in P
    <2>1. PICK g \in [SUBSET (1..N) -> SUBSET V] : Good(g, n)
        BY <1>2
    <2>. DEFINE h == [s \in SUBSET (1..N) |->
            IF Cardinality(s) = n + 1 THEN SweepStep(Go, Trig, Add, base, g, s) ELSE g[s]]
    <2>2. \A s \in SUBSET (1..N) : SweepStep(Go, Trig, Add, base, g, s) \in SUBSET V
        <3>. SUFFICES ASSUME NEW s \in SUBSET (1..N)
                      PROVE  SweepStep(Go, Trig, Add, base, g, s) \in SUBSET V
            OBVIOUS
        <3>1. s # {} => Max(s) \in 1..N /\ Before(s) \in SUBSET (1..N)
            BY BeforeSmaller
        <3>2. s # {} => g[Before(s)] \in SUBSET V /\ Add[Max(s)] \in SUBSET V
            BY <3>1
        <3>. QED BY <3>2 DEF SweepStep
    <2>3. h \in [SUBSET (1..N) -> SUBSET V]
        BY <2>2
    <2>4. ASSUME NEW s \in SUBSET (1..N), Cardinality(s) <= n + 1
          PROVE  h[s] = SweepStep(Go, Trig, Add, base, h, s)
        <3>0. /\ Cardinality(s) \in Nat
              /\ s # {} => /\ Before(s) \in SUBSET (1..N)
                           /\ Cardinality(Before(s)) = Cardinality(s) - 1
            BY BeforeSmaller
        <3>1. s # {} => h[Before(s)] = g[Before(s)]
            BY <2>4, <3>0
        <3>2. SweepStep(Go, Trig, Add, base, h, s) = SweepStep(Go, Trig, Add, base, g, s)
            BY <3>1 DEF SweepStep
        <3>3. h[s] = SweepStep(Go, Trig, Add, base, g, s)
            BY <2>1, <2>4, <3>0
        <3>. QED
            BY <3>2, <3>3
    <2>5. Good(h, n + 1)
        BY <2>4
    <2>. HIDE DEF h, Good
    <2>. QED
        BY <2>3, <2>5
<1>3. N \in P
    <2>. HIDE DEF P
    <2>1. Nat \subseteq P
        BY <1>1, <1>2, NatSetInduction
    <2>. QED BY <2>1
<1>4. PICK g \in [SUBSET (1..N) -> SUBSET V] : Good(g, N)
    BY <1>3
<1>5. \A s \in SUBSET (1..N) : g[s] = SweepStep(Go, Trig, Add, base, g, s)
    BY <1>4, BeforeSmaller
<1>. QED
    BY <1>4, <1>5 DEF Swept

\* The positions up to k: the last is k, the others those up to k - 1.
LEMMA Prefix ==
    ASSUME NEW k \in Nat, k > 0
    PROVE  Max(1..k) = k /\ Before(1..k) = 1..(k - 1)
<1>1. Max(1..k) \in 1..k /\ \A y \in 1..k : Max(1..k) >= y
    <2>1. 1 \in 1..k /\ 1..k \in SUBSET (1..k)
        OBVIOUS
    <2>2. 1..k # {}
        BY <2>1
    <2>. QED BY <2>1, <2>2, MaxIsLargest
<1>2. Max(1..k) = k
    BY <1>1
<1>. QED
    BY <1>2 DEF Before

\* A fold from left to right passes through one set per position.
LEMMA SweepPrefixes ==
    ASSUME NEW N, NEW V, NEW Go, NEW Trig, NEW Add, NEW base, NEW g,
           Sweepable(N, V, Go, Trig, Add, base), Swept(N, Go, Trig, Add, base, g)
    PROVE  \E h : Passes(N, V, Go, Trig, Add, base, h) /\ h[N] = g[1..N]
<1>. USE DEF Sweepable, Swept
<1>. DEFINE h == [k \in 0..N |-> g[1..k]]
<1>1. h[0] = base
    <2>1. 1..0 = {} /\ 0 \in 0..N /\ {} \in SUBSET (1..N)
        OBVIOUS
    <2>2. h[0] = g[{}]
        BY <2>1
    <2>3. g[{}] = SweepStep(Go, Trig, Add, base, g, {})
        BY <2>1
    <2>. QED BY <2>2, <2>3 DEF SweepStep
<1>2. ASSUME NEW k \in 1..N
      PROVE  h[k] = IF k \in Go \/ Trig[k] \intersect h[k - 1] # {}
                    THEN h[k - 1] \union Add[k] ELSE h[k - 1]
    <2>1. 1..k \in SUBSET (1..N) /\ 1..k # {} /\ Max(1..k) = k /\ Before(1..k) = 1..(k - 1)
        <3>1. k \in Nat /\ k > 0 /\ 1 \in 1..k
            OBVIOUS
        <3>2. 1..k \in SUBSET (1..N)
            OBVIOUS
        <3>. QED BY <3>1, <3>2, Prefix
    <2>2. k \in 0..N /\ k - 1 \in 0..N
        OBVIOUS
    <2>3. h[k] = g[1..k] /\ h[k - 1] = g[1..(k - 1)]
        BY <2>2
    <2>. HIDE DEF h
    <2>4. g[1..k] = SweepStep(Go, Trig, Add, base, g, 1..k)
        BY <2>1
    <2>5. SweepStep(Go, Trig, Add, base, g, 1..k) =
             IF k \in Go \/ Trig[k] \intersect g[1..(k - 1)] # {}
             THEN g[1..(k - 1)] \union Add[k] ELSE g[1..(k - 1)]
        <3>. HIDE DEF Sweepable, Swept
        <3>1. ASSUME NEW s, s # {}, NEW m, Max(s) = m, NEW b, Before(s) = b
              PROVE  SweepStep(Go, Trig, Add, base, g, s) =
                       IF m \in Go \/ Trig[m] \intersect g[b] # {}
                       THEN g[b] \union Add[m] ELSE g[b]
            BY <3>1 DEF SweepStep
        <3>. QED
            BY <2>1, <3>1
    <2>. QED
        BY <2>3, <2>4, <2>5
<1>3. h[N] = g[1..N]
    OBVIOUS
<1>. HIDE DEF h
<1>. DEFINE P == {k \in Nat : k <= N => h[k] \in SUBSET V}
<1>4. 0 \in P
    BY <1>1
<1>5. ASSUME NEW k \in Nat, k \in P PROVE k + 1 \in P
    <2>. SUFFICES ASSUME k + 1 <= N PROVE h[k + 1] \in SUBSET V
        OBVIOUS
    <2>1. k + 1 \in 1..N /\ (k + 1) - 1 = k /\ h[k] \in SUBSET V
        BY <1>5
    <2>2. h[k + 1] = IF k + 1 \in Go \/ Trig[k + 1] \intersect h[k] # {}
                    THEN h[k] \union Add[k + 1] ELSE h[k]
        BY <1>2, <2>1
    <2>3. Add[k + 1] \in SUBSET V
        BY <2>1
    <2>. QED BY <2>1, <2>2, <2>3
<1>6. Nat \subseteq P
    <2>. HIDE DEF P
    <2>. QED BY <1>4, <1>5, NatSetInduction
<1>7. h \in [0..N -> SUBSET V]
    <2>1. DOMAIN h = 0..N /\ h = [k \in 0..N |-> h[k]]
        BY DEF h
    <2>2. \A k \in 0..N : h[k] \in SUBSET V
        BY <1>6
    <2>. QED BY <2>1, <2>2
<1>8. Passes(N, V, Go, Trig, Add, base, h)
    BY <1>1, <1>2, <1>7 DEF Passes
<1>. QED
    BY <1>3, <1>8

----------------------------------------------------------------------------
(* collect_dependents and collect_deps.                                    *)

\* The sets CollectDependents and CollectDeps pass through.
UpSets(seed) == CHOOSE g : g = [s \in SUBSET (DOMAIN Order) |->
    IF s = {} THEN seed
    ELSE IF HasDepIn(Order[Max(s)], g[s \ {Max(s)}])
         THEN g[s \ {Max(s)}] \union {Order[Max(s)]} ELSE g[s \ {Max(s)}]]

DownSets(seed) == CHOOSE g : g = [s \in SUBSET (DOMAIN Reverse(Order)) |->
    IF s = {} THEN seed
    ELSE IF Reverse(Order)[Max(s)] \in g[s \ {Max(s)}]
         THEN g[s \ {Max(s)}] \union Deps[Reverse(Order)[Max(s)]] ELSE g[s \ {Max(s)}]]

\* They end in the result.
LEMMA DependentsAreUpSets ==
    ASSUME NEW seed
    PROVE  CollectDependents(seed) = UpSets(seed)[DOMAIN Order]
BY DEF CollectDependents, FoldLeft, MapThenFoldSet, UpSets

\* The same for CollectDeps, over the reversed order.
LEMMA DepsAreDownSets ==
    ASSUME NEW seed
    PROVE  CollectDeps(seed) = DownSets(seed)[DOMAIN Reverse(Order)]
BY DEF CollectDeps, FoldLeft, MapThenFoldSet, DownSets

\* How many nodes there are.
Size == Len(Order)

\* What the topological order is.
LEMMA OrderIs ==
    /\ Size \in Nat /\ DOMAIN Order = 1..Size
    /\ \A i \in 1..Size : Order[i] \in Node
    /\ \A n \in Node : \E i \in 1..Size : Order[i] = n
    /\ \A i, j \in 1..Size : Order[i] = Order[j] => i = j
    /\ \A i \in 1..Size : \A d \in Deps[Order[i]] : \E j \in 1..Size : j < i /\ d = Order[j]
    /\ \A n \in Node : Deps[n] \in SUBSET Node
<1>1. Order \in Seq(Node)
    BY GraphAssumption
<1>2. Size \in Nat /\ DOMAIN Order = 1..Size /\ \A i \in 1..Size : Order[i] \in Node
    BY <1>1 DEF Size
<1>3. /\ \A n \in Node : \E i \in 1..Size : Order[i] = n
      /\ \A i, j \in 1..Size : Order[i] = Order[j] => i = j
      /\ \A n \in Node : Deps[n] \in SUBSET Node
    BY GraphAssumption DEF Size
<1>4. \A i \in 1..Size : Deps[Order[i]] \subseteq {Order[j] : j \in 1..(i - 1)}
    BY GraphAssumption DEF Size
<1>5. ASSUME NEW i \in 1..Size, NEW d \in Deps[Order[i]]
      PROVE  \E j \in 1..Size : j < i /\ d = Order[j]
    <2>1. PICK j \in 1..(i - 1) : d = Order[j]
        BY <1>4
    <2>2. j \in 1..Size /\ j < i
        BY <1>2
    <2>. QED BY <2>1, <2>2
<1>. QED
    BY <1>2, <1>3, <1>5

\* CollectDependents, one position after the other.
LEMMA UpPrefixes ==
    ASSUME NEW seed \in SUBSET Node
    PROVE  \E h \in [0..Size -> SUBSET Node] :
              /\ h[0] = seed /\ h[Size] = CollectDependents(seed)
              /\ \A k \in 1..Size :
                    h[k] = IF Deps[Order[k]] \intersect h[k - 1] # {}
                           THEN h[k - 1] \union {Order[k]} ELSE h[k - 1]
<1>. DEFINE Trig == [k \in 1..Size |-> Deps[Order[k]]]
            Add == [k \in 1..Size |-> {Order[k]}]
            G == UpSets(seed)
<1>1. Sweepable(Size, Node, {}, Trig, Add, seed)
    BY OrderIs DEF Sweepable
<1>2. \A k \in 1..Size : Trig[k] = Deps[Order[k]] /\ Add[k] = {Order[k]}
    OBVIOUS
<1>. HIDE DEF Trig, Add
<1>3. PICK g : Swept(Size, {}, Trig, Add, seed, g)
    BY <1>1, SweepExists
<1>4. ASSUME NEW f, NEW s \in SUBSET (1..Size)
      PROVE  SweepStep({}, Trig, Add, seed, f, s) =
                IF s = {} THEN seed
                ELSE IF HasDepIn(Order[Max(s)], f[s \ {Max(s)}])
                     THEN f[s \ {Max(s)}] \union {Order[Max(s)]} ELSE f[s \ {Max(s)}]
    <2>1. s # {} => Max(s) \in 1..Size
        BY OrderIs, BeforeSmaller
    <2>2. s # {} => Trig[Max(s)] = Deps[Order[Max(s)]] /\ Add[Max(s)] = {Order[Max(s)]}
        BY <1>2, <2>1
    <2>. QED
        BY <2>2 DEF SweepStep, Before, HasDepIn
<1>5. ASSUME NEW f
      PROVE  Swept(Size, {}, Trig, Add, seed, f) <=>
                /\ DOMAIN f = SUBSET (1..Size)
                /\ \A s \in SUBSET (1..Size) : f[s] =
                      IF s = {} THEN seed
                      ELSE IF HasDepIn(Order[Max(s)], f[s \ {Max(s)}])
                           THEN f[s \ {Max(s)}] \union {Order[Max(s)]}
                           ELSE f[s \ {Max(s)}]
    BY <1>4 DEF Swept
<1>6. \E f : f = [s \in SUBSET (1..Size) |-> IF s = {} THEN seed
                ELSE IF HasDepIn(Order[Max(s)], f[s \ {Max(s)}])
                     THEN f[s \ {Max(s)}] \union {Order[Max(s)]} ELSE f[s \ {Max(s)}]]
    <2>. DEFINE f == [s \in SUBSET (1..Size) |-> g[s]]
    <2>1. \A s \in SUBSET (1..Size) : s \ {Max(s)} \in SUBSET (1..Size)
        OBVIOUS
    <2>2. \A s \in SUBSET (1..Size) : f[s] = g[s] /\ f[s \ {Max(s)}] = g[s \ {Max(s)}]
        BY <2>1
    <2>3. f = [s \in SUBSET (1..Size) |-> IF s = {} THEN seed
                ELSE IF HasDepIn(Order[Max(s)], f[s \ {Max(s)}])
                     THEN f[s \ {Max(s)}] \union {Order[Max(s)]} ELSE f[s \ {Max(s)}]]
        BY <1>3, <1>5, <2>2
    <2>. QED BY <2>3
<1>7. G = [s \in SUBSET (1..Size) |-> IF s = {} THEN seed
                ELSE IF HasDepIn(Order[Max(s)], G[s \ {Max(s)}])
                     THEN G[s \ {Max(s)}] \union {Order[Max(s)]} ELSE G[s \ {Max(s)}]]
    <2>1. DOMAIN Order = 1..Size
        BY OrderIs
    <2>. QED BY <1>6, <2>1, Zenon DEF UpSets
<1>8. CollectDependents(seed) = G[1..Size]
    BY DependentsAreUpSets, OrderIs
<1>. HIDE DEF G
<1>9. Swept(Size, {}, Trig, Add, seed, G)
    BY <1>5, <1>7
<1>10. PICK h : Passes(Size, Node, {}, Trig, Add, seed, h) /\ h[Size] = G[1..Size]
    BY <1>1, <1>9, SweepPrefixes
<1>. QED
    BY <1>2, <1>8, <1>10 DEF Passes

\* CollectDependents(seed) is the least set over seed that is closed under
\* taking dependents.
LEMMA DependentsAreClosure ==
    ASSUME NEW seed \in SUBSET Node
    PROVE  /\ CollectDependents(seed) \in SUBSET Node
           /\ seed \subseteq CollectDependents(seed)
           /\ \A n \in Node : Deps[n] \intersect CollectDependents(seed) # {} =>
                                 n \in CollectDependents(seed)
           /\ \A T \in SUBSET Node :
                 seed \subseteq T /\ (\A n \in Node : Deps[n] \intersect T # {} => n \in T)
                 => CollectDependents(seed) \subseteq T
<1>0. Size \in Nat
    BY OrderIs
<1>1. PICK h \in [0..Size -> SUBSET Node] :
              /\ h[0] = seed /\ h[Size] = CollectDependents(seed)
              /\ \A k \in 1..Size :
                    h[k] = IF Deps[Order[k]] \intersect h[k - 1] # {}
                           THEN h[k - 1] \union {Order[k]} ELSE h[k - 1]
    BY UpPrefixes
<1>2. ASSUME NEW i \in 0..Size PROVE \A k \in 0..Size : i <= k => h[i] \subseteq h[k]
    <2>. DEFINE P == {k \in Nat : i <= k /\ k <= Size => h[i] \subseteq h[k]}
    <2>1. 0 \in P
        OBVIOUS
    <2>2. ASSUME NEW k \in Nat, k \in P PROVE k + 1 \in P
        <3>. SUFFICES ASSUME i <= k + 1, k + 1 <= Size PROVE h[i] \subseteq h[k + 1]
            OBVIOUS
        <3>1. k + 1 \in 1..Size /\ (k + 1) - 1 = k
            OBVIOUS
        <3>2. h[k] \subseteq h[k + 1]
            BY <1>1, <3>1
        <3>3. i = k + 1 \/ (i <= k /\ k <= Size)
            BY <1>0
        <3>4. i <= k /\ k <= Size => h[i] \subseteq h[k]
            BY <2>2
        <3>. QED BY <3>2, <3>3, <3>4
    <2>3. Nat \subseteq P
        <3>. HIDE DEF P
        <3>. QED BY <2>1, <2>2, NatSetInduction
    <2>. QED BY <2>3
<1>3. ASSUME NEW j \in 1..Size, Order[j] \in h[Size] PROVE Order[j] \in h[j]
    <2>. DEFINE P == {k \in Nat : j <= k /\ k <= Size /\ Order[j] \in h[k] => Order[j] \in h[j]}
    <2>1. 0 \in P
        OBVIOUS
    <2>2. ASSUME NEW k \in Nat, k \in P PROVE k + 1 \in P
        <3>. SUFFICES ASSUME j <= k + 1, k + 1 <= Size, Order[j] \in h[k + 1]
                      PROVE  Order[j] \in h[j]
            OBVIOUS
        <3>1. k + 1 \in 1..Size /\ (k + 1) - 1 = k
            OBVIOUS
        <3>2. j = k + 1 \/ (j <= k /\ j # k + 1)
            OBVIOUS
        <3>3. Order[j] = Order[k + 1] => j = k + 1
            BY <3>1, OrderIs
        <3>4. h[k + 1] \subseteq h[k] \union {Order[k + 1]}
            BY <1>1, <3>1
        <3>5. j <= k => (Order[j] \in h[k] => Order[j] \in h[j])
            BY <1>0, <2>2, <3>1
        <3>. QED BY <3>2, <3>3, <3>4, <3>5
    <2>3. Nat \subseteq P
        <3>. HIDE DEF P
        <3>. QED BY <2>1, <2>2, NatSetInduction
    <2>. QED BY <1>0, <1>3, <2>3
<1>4. ASSUME NEW n \in Node, Deps[n] \intersect h[Size] # {} PROVE n \in h[Size]
    <2>1. PICK k \in 1..Size : Order[k] = n
        BY OrderIs
    <2>2. PICK y \in Deps[n] : y \in h[Size]
        BY <1>4
    <2>3. PICK j \in 1..Size : j < k /\ y = Order[j]
        BY <2>1, <2>2, OrderIs
    <2>4. y \in h[j]
        BY <1>3, <2>2, <2>3
    <2>5. j \in 0..Size /\ k - 1 \in 0..Size /\ j <= k - 1 /\ k \in 0..Size /\ k <= Size /\ Size \in 0..Size
        BY <1>0, <2>3
    <2>6. y \in h[k - 1]
        BY <1>2, <2>4, <2>5
    <2>7. n \in h[k]
        BY <1>1, <2>1, <2>2, <2>6
    <2>. QED BY <1>2, <2>5, <2>7
<1>5. ASSUME NEW T \in SUBSET Node, seed \subseteq T,
             \A n \in Node : Deps[n] \intersect T # {} => n \in T
      PROVE  h[Size] \subseteq T
    <2>. DEFINE P == {k \in Nat : k <= Size => h[k] \subseteq T}
    <2>1. 0 \in P
        BY <1>1, <1>5
    <2>2. ASSUME NEW k \in Nat, k \in P PROVE k + 1 \in P
        <3>. SUFFICES ASSUME k + 1 <= Size PROVE h[k + 1] \subseteq T
            OBVIOUS
        <3>1. k + 1 \in 1..Size /\ (k + 1) - 1 = k
            OBVIOUS
        <3>2. h[k] \subseteq T /\ Order[k + 1] \in Node
            BY <2>2, <3>1, OrderIs
        <3>3. h[k + 1] = IF Deps[Order[k + 1]] \intersect h[k] # {}
                         THEN h[k] \union {Order[k + 1]} ELSE h[k]
            BY <1>1, <3>1
        <3>4. Deps[Order[k + 1]] \intersect h[k] # {} => Order[k + 1] \in T
            BY <1>5, <3>2
        <3>. QED BY <3>2, <3>3, <3>4
    <2>3. Nat \subseteq P
        <3>. HIDE DEF P
        <3>. QED BY <2>1, <2>2, NatSetInduction
    <2>. QED BY <1>0, <2>3
<1>6. h[Size] \in SUBSET Node /\ seed \subseteq h[Size]
    BY <1>0, <1>1, <1>2
<1>. QED
    BY <1>1, <1>4, <1>5, <1>6

\* Order from its end.
LEMMA BackwardsIs ==
    /\ DOMAIN Reverse(Order) = 1..Size
    /\ \A k \in 1..Size : Reverse(Order)[k] = Order[(Size - k) + 1]
    /\ \A k \in 1..Size : (Size - k) + 1 \in 1..Size
BY OrderIs DEF Reverse, Size

\* CollectDeps, one position after the other, from the end of Order.
LEMMA DownPrefixes ==
    ASSUME NEW seed \in SUBSET Node
    PROVE  \E h \in [0..Size -> SUBSET Node] :
              /\ h[0] = seed /\ h[Size] = CollectDeps(seed)
              /\ \A k \in 1..Size :
                    h[k] = IF Order[(Size - k) + 1] \in h[k - 1]
                           THEN h[k - 1] \union Deps[Order[(Size - k) + 1]] ELSE h[k - 1]
<1>. DEFINE Back == Reverse(Order)
            Trig == [k \in 1..Size |-> {Back[k]}]
            Add == [k \in 1..Size |-> Deps[Back[k]]]
            G == DownSets(seed)
<1>0. /\ DOMAIN Back = 1..Size
      /\ \A k \in 1..Size : Back[k] = Order[(Size - k) + 1] /\ Back[k] \in Node
    BY OrderIs, BackwardsIs
<1>7. G = CHOOSE g : g = [s \in SUBSET (1..Size) |-> IF s = {} THEN seed
                ELSE IF Back[Max(s)] \in g[s \ {Max(s)}]
                     THEN g[s \ {Max(s)}] \union Deps[Back[Max(s)]] ELSE g[s \ {Max(s)}]]
    BY <1>0 DEF DownSets
<1>8. CollectDeps(seed) = G[1..Size]
    BY DepsAreDownSets, <1>0
<1>. HIDE DEF Back, G
<1>1. Sweepable(Size, Node, {}, Trig, Add, seed)
    BY <1>0, OrderIs DEF Sweepable
<1>2. \A k \in 1..Size : Trig[k] = {Back[k]} /\ Add[k] = Deps[Back[k]]
    OBVIOUS
<1>. HIDE DEF Trig, Add
<1>3. PICK g : Swept(Size, {}, Trig, Add, seed, g)
    BY <1>1, SweepExists
<1>4. ASSUME NEW f, NEW s \in SUBSET (1..Size)
      PROVE  SweepStep({}, Trig, Add, seed, f, s) =
                IF s = {} THEN seed
                ELSE IF Back[Max(s)] \in f[s \ {Max(s)}]
                     THEN f[s \ {Max(s)}] \union Deps[Back[Max(s)]] ELSE f[s \ {Max(s)}]
    <2>1. s # {} => Max(s) \in 1..Size
        BY OrderIs, BeforeSmaller
    <2>2. s # {} => Trig[Max(s)] = {Back[Max(s)]} /\ Add[Max(s)] = Deps[Back[Max(s)]]
        BY <1>2, <2>1
    <2>3. \A x, S : {x} \intersect S # {} <=> x \in S
        OBVIOUS
    <2>. QED
        BY <2>2, <2>3 DEF SweepStep, Before
<1>5. ASSUME NEW f
      PROVE  Swept(Size, {}, Trig, Add, seed, f) <=>
                /\ DOMAIN f = SUBSET (1..Size)
                /\ \A s \in SUBSET (1..Size) : f[s] =
                      IF s = {} THEN seed
                      ELSE IF Back[Max(s)] \in f[s \ {Max(s)}]
                           THEN f[s \ {Max(s)}] \union Deps[Back[Max(s)]]
                           ELSE f[s \ {Max(s)}]
    BY <1>4 DEF Swept
<1>6. \E f : f = [s \in SUBSET (1..Size) |-> IF s = {} THEN seed
                ELSE IF Back[Max(s)] \in f[s \ {Max(s)}]
                     THEN f[s \ {Max(s)}] \union Deps[Back[Max(s)]] ELSE f[s \ {Max(s)}]]
    <2>. DEFINE f == [s \in SUBSET (1..Size) |-> g[s]]
    <2>1. \A s \in SUBSET (1..Size) : s \ {Max(s)} \in SUBSET (1..Size)
        OBVIOUS
    <2>2. \A s \in SUBSET (1..Size) : f[s] = g[s] /\ f[s \ {Max(s)}] = g[s \ {Max(s)}]
        BY <2>1
    <2>3. f = [s \in SUBSET (1..Size) |-> IF s = {} THEN seed
                ELSE IF Back[Max(s)] \in f[s \ {Max(s)}]
                     THEN f[s \ {Max(s)}] \union Deps[Back[Max(s)]] ELSE f[s \ {Max(s)}]]
        BY <1>3, <1>5, <2>2
    <2>. QED BY <2>3
<1>9. G = [s \in SUBSET (1..Size) |-> IF s = {} THEN seed
                ELSE IF Back[Max(s)] \in G[s \ {Max(s)}]
                     THEN G[s \ {Max(s)}] \union Deps[Back[Max(s)]] ELSE G[s \ {Max(s)}]]
    BY <1>6, <1>7, Zenon
<1>10. Swept(Size, {}, Trig, Add, seed, G)
    BY <1>5, <1>9
<1>11. PICK h : Passes(Size, Node, {}, Trig, Add, seed, h) /\ h[Size] = G[1..Size]
    BY <1>1, <1>10, SweepPrefixes
<1>12. h \in [0..Size -> SUBSET Node] /\ h[0] = seed /\ h[Size] = CollectDeps(seed)
    BY <1>8, <1>11 DEF Passes
<1>13. ASSUME NEW k \in 1..Size
       PROVE  h[k] = IF Order[(Size - k) + 1] \in h[k - 1]
                     THEN h[k - 1] \union Deps[Order[(Size - k) + 1]] ELSE h[k - 1]
    <2>1. h[k] = IF k \in {} \/ Trig[k] \intersect h[k - 1] # {}
                 THEN h[k - 1] \union Add[k] ELSE h[k - 1]
        BY <1>11 DEF Passes
    <2>2. Trig[k] = {Order[(Size - k) + 1]} /\ Add[k] = Deps[Order[(Size - k) + 1]]
        BY <1>0, <1>2
    <2>. QED BY <2>1, <2>2
<1>. QED
    BY <1>12, <1>13

\* CollectDeps(seed) is the least set over seed that is closed under taking
\* dependencies.
LEMMA DepsAreClosure ==
    ASSUME NEW seed \in SUBSET Node
    PROVE  /\ CollectDeps(seed) \in SUBSET Node
           /\ seed \subseteq CollectDeps(seed)
           /\ \A n \in CollectDeps(seed) : Deps[n] \subseteq CollectDeps(seed)
           /\ \A T \in SUBSET Node :
                 seed \subseteq T /\ (\A n \in T : Deps[n] \subseteq T)
                 => CollectDeps(seed) \subseteq T
<1>0. Size \in Nat
    BY OrderIs
<1>1. PICK h \in [0..Size -> SUBSET Node] :
              /\ h[0] = seed /\ h[Size] = CollectDeps(seed)
              /\ \A k \in 1..Size :
                    h[k] = IF Order[(Size - k) + 1] \in h[k - 1]
                           THEN h[k - 1] \union Deps[Order[(Size - k) + 1]] ELSE h[k - 1]
    BY DownPrefixes
<1>2. ASSUME NEW i \in 0..Size PROVE \A k \in 0..Size : i <= k => h[i] \subseteq h[k]
    <2>. DEFINE P == {k \in Nat : i <= k /\ k <= Size => h[i] \subseteq h[k]}
    <2>1. 0 \in P
        OBVIOUS
    <2>2. ASSUME NEW k \in Nat, k \in P PROVE k + 1 \in P
        <3>. SUFFICES ASSUME i <= k + 1, k + 1 <= Size PROVE h[i] \subseteq h[k + 1]
            OBVIOUS
        <3>1. k + 1 \in 1..Size /\ (k + 1) - 1 = k
            OBVIOUS
        <3>2. h[k] \subseteq h[k + 1]
            BY <1>1, <3>1
        <3>3. i = k + 1 \/ (i <= k /\ k <= Size)
            BY <1>0
        <3>4. i <= k /\ k <= Size => h[i] \subseteq h[k]
            BY <2>2
        <3>. QED BY <3>2, <3>3, <3>4
    <2>3. Nat \subseteq P
        <3>. HIDE DEF P
        <3>. QED BY <2>1, <2>2, NatSetInduction
    <2>. QED BY <2>3
<1>3. ASSUME NEW j \in 1..Size, Order[(Size - j) + 1] \in h[Size]
      PROVE  Order[(Size - j) + 1] \in h[j - 1]
    <2>. DEFINE x == Order[(Size - j) + 1]
                P == {k \in Nat : j <= k + 1 /\ k <= Size /\ x \in h[k] => x \in h[j - 1]}
    <2>1. 0 \in P
        <3>1. j <= 0 + 1 => j - 1 = 0
            OBVIOUS
        <3>. QED BY <3>1
    <2>2. ASSUME NEW k \in Nat, k \in P PROVE k + 1 \in P
        <3>. SUFFICES ASSUME j <= (k + 1) + 1, k + 1 <= Size, x \in h[k + 1]
                      PROVE  x \in h[j - 1]
            OBVIOUS
        <3>1. k + 1 \in 1..Size /\ (k + 1) - 1 = k
            OBVIOUS
        <3>2. CASE j = (k + 1) + 1
            BY <3>2
        <3>3. CASE j <= k + 1
            <4>1. x \in h[k] => x \in h[j - 1]
                BY <1>0, <2>2, <3>1, <3>3
            <4>2. ASSUME x \notin h[k] PROVE FALSE
                <5>. DEFINE y == Order[(Size - (k + 1)) + 1]
                <5>1. x \in Deps[y]
                    BY <1>1, <3>1, <4>2
                <5>2. (Size - (k + 1)) + 1 \in 1..Size /\ (Size - j) + 1 \in 1..Size
                    BY <3>1, BackwardsIs
                <5>3. PICK i \in 1..Size : i < (Size - (k + 1)) + 1 /\ x = Order[i]
                    BY <5>1, <5>2, OrderIs
                <5>4. i = (Size - j) + 1
                    BY <5>2, <5>3, OrderIs
                <5>. QED BY <1>0, <3>3, <5>3, <5>4
            <4>. QED BY <4>1, <4>2
        <3>. QED BY <3>2, <3>3
    <2>3. Nat \subseteq P
        <3>. HIDE DEF P
        <3>. QED BY <2>1, <2>2, NatSetInduction
    <2>. QED BY <1>0, <1>3, <2>3
<1>4. ASSUME NEW n \in h[Size] PROVE Deps[n] \subseteq h[Size]
    <2>0. n \in Node
        BY <1>0
    <2>1. PICK i \in 1..Size : Order[i] = n
        BY <2>0, OrderIs
    <2>. DEFINE k == (Size - i) + 1
    <2>2. k \in 1..Size /\ (Size - k) + 1 = i /\ k \in 0..Size /\ Size \in 0..Size
        BY <1>0
    <2>. HIDE DEF k
    <2>3. n \in h[k - 1]
        BY <1>3, <2>1, <2>2
    <2>4. Deps[n] \subseteq h[k]
        BY <1>1, <2>1, <2>2, <2>3
    <2>5. k <= Size
        BY <2>2
    <2>. QED BY <1>2, <2>2, <2>4, <2>5
<1>5. ASSUME NEW T \in SUBSET Node, seed \subseteq T, \A n \in T : Deps[n] \subseteq T
      PROVE  h[Size] \subseteq T
    <2>. DEFINE P == {k \in Nat : k <= Size => h[k] \subseteq T}
    <2>1. 0 \in P
        BY <1>1, <1>5
    <2>2. ASSUME NEW k \in Nat, k \in P PROVE k + 1 \in P
        <3>. SUFFICES ASSUME k + 1 <= Size PROVE h[k + 1] \subseteq T
            OBVIOUS
        <3>1. k + 1 \in 1..Size /\ (k + 1) - 1 = k
            OBVIOUS
        <3>2. h[k] \subseteq T
            BY <1>0, <2>2, <3>1
        <3>. DEFINE y == Order[(Size - (k + 1)) + 1]
        <3>3. h[k + 1] = IF y \in h[k] THEN h[k] \union Deps[y] ELSE h[k]
            BY <1>1, <3>1
        <3>. HIDE DEF y
        <3>. QED BY <1>5, <3>2, <3>3
    <2>3. Nat \subseteq P
        <3>. HIDE DEF P
        <3>. QED BY <2>1, <2>2, NatSetInduction
    <2>. QED BY <1>0, <2>3
<1>6. h[Size] \in SUBSET Node /\ seed \subseteq h[Size]
    BY <1>0, <1>1, <1>2
<1>. QED
    BY <1>1, <1>4, <1>5, <1>6

\* The dependencies of a dependency are dependencies.
LEMMA DepsNest ==
    ASSUME NEW seed \in SUBSET Node, NEW y \in CollectDeps(seed)
    PROVE  y \in Node /\ CollectDeps({y}) \subseteq CollectDeps(seed)
<1>1. CollectDeps(seed) \in SUBSET Node /\ \A n \in CollectDeps(seed) : Deps[n] \subseteq CollectDeps(seed)
    BY DepsAreClosure
<1>2. y \in Node /\ {y} \in SUBSET Node /\ {y} \subseteq CollectDeps(seed)
    BY <1>1
<1>. QED
    BY <1>1, <1>2, DepsAreClosure

\* What depends on S reaches a member of S through its dependencies.
LEMMA CauseBelow ==
    ASSUME NEW S \in SUBSET Node, NEW x \in CollectDependents(S)
    PROVE  \E m \in S : m \in CollectDeps({x})
<1>. DEFINE T == {z \in Node : \E m \in S : m \in CollectDeps({z})}
<1>1. S \subseteq T
    <2>. SUFFICES ASSUME NEW z \in S PROVE z \in T
        OBVIOUS
    <2>1. z \in Node /\ {z} \in SUBSET Node
        OBVIOUS
    <2>2. {z} \subseteq CollectDeps({z})
        BY <2>1, DepsAreClosure
    <2>. QED BY <2>1, <2>2
<1>2. ASSUME NEW n \in Node, Deps[n] \intersect T # {} PROVE n \in T
    <2>1. PICK y \in Deps[n] : y \in T
        BY <1>2
    <2>2. PICK m \in S : m \in CollectDeps({y})
        BY <2>1
    <2>3. {n} \in SUBSET Node
        OBVIOUS
    <2>4. n \in CollectDeps({n}) /\ Deps[n] \subseteq CollectDeps({n})
        BY <2>3, DepsAreClosure
    <2>5. CollectDeps({y}) \subseteq CollectDeps({n})
        BY <2>1, <2>3, <2>4, DepsNest
    <2>. QED BY <2>2, <2>5
<1>3. T \in SUBSET Node
    OBVIOUS
<1>4. CollectDependents(S) \subseteq T
    <2>. HIDE DEF T
    <2>. QED BY <1>1, <1>2, <1>3, DependentsAreClosure
<1>. QED
    BY <1>4

\* The graph has no cycle.
LEMMA NotBelowItself ==
    ASSUME NEW n \in Node, NEW y \in Deps[n]
    PROVE  n \notin CollectDeps({y})
<1>1. PICK i \in 1..Size : Order[i] = n
    BY OrderIs
<1>2. PICK j \in 1..Size : j < i /\ y = Order[j]
    BY <1>1, OrderIs
<1>. DEFINE T == {Order[k] : k \in 1..j}
<1>3. Size \in Nat
    BY OrderIs
<1>4. T \in SUBSET Node /\ {y} \subseteq T /\ y \in Node
    BY <1>2, <1>3, OrderIs
<1>5. ASSUME NEW z \in T PROVE Deps[z] \subseteq T
    <2>1. PICK k \in 1..j : z = Order[k]
        OBVIOUS
    <2>2. k \in 1..Size
        BY <1>3
    <2>3. ASSUME NEW d \in Deps[z] PROVE d \in T
        <3>1. PICK l \in 1..Size : l < k /\ d = Order[l]
            BY <2>1, <2>2, OrderIs
        <3>2. l \in 1..j
            BY <3>1, <1>3
        <3>. QED BY <3>1, <3>2
    <2>. QED BY <2>3
<1>6. CollectDeps({y}) \subseteq T
    <2>. HIDE DEF T
    <2>. QED BY <1>4, <1>5, DepsAreClosure
<1>7. n \notin T
    <2>. SUFFICES ASSUME NEW k \in 1..j, n = Order[k] PROVE FALSE
        OBVIOUS
    <2>1. k \in 1..Size /\ k < i
        BY <1>2, <1>3
    <2>. QED BY <1>1, <2>1, OrderIs
<1>. QED
    BY <1>6, <1>7

\* More nodes have more dependents.
LEMMA DependentsGrow ==
    ASSUME NEW A \in SUBSET Node, NEW B \in SUBSET Node, A \subseteq B
    PROVE  CollectDependents(A) \subseteq CollectDependents(B)
<1>1. /\ CollectDependents(B) \in SUBSET Node /\ B \subseteq CollectDependents(B)
      /\ \A n \in Node : Deps[n] \intersect CollectDependents(B) # {} =>
                            n \in CollectDependents(B)
    BY DependentsAreClosure
<1>2. A \subseteq CollectDependents(B)
    BY <1>1
<1>. QED
    BY <1>1, <1>2, DependentsAreClosure

\* A dependent that is not of the seed has a dependency among the dependents.
LEMMA DependentHasDep ==
    ASSUME NEW S \in SUBSET Node, NEW m \in CollectDependents(S), m \notin S
    PROVE  m \in Node /\ HasDepIn(m, CollectDependents(S))
<1>. DEFINE C == CollectDependents(S)
            T == S \union {z \in C : Deps[z] \intersect C # {}}
<1>1. /\ C \in SUBSET Node /\ S \subseteq C
      /\ \A n \in Node : Deps[n] \intersect C # {} => n \in C
    BY DependentsAreClosure
<1>. HIDE DEF C
<1>2. T \in SUBSET Node /\ S \subseteq T /\ T \subseteq C
    BY <1>1
<1>3. \A n \in Node : Deps[n] \intersect T # {} => n \in T
    BY <1>1, <1>2
<1>4. C \subseteq T
    <2>. HIDE DEF T
    <2>. QED BY <1>2, <1>3, DependentsAreClosure DEF C
<1>. QED
    BY <1>1, <1>4 DEF HasDepIn, C

\* The sets apply_bind's selection passes through.
BindSets == CHOOSE g : g = [s \in SUBSET (DOMAIN Order) |->
    IF s = {} THEN {}
    ELSE IF Running(Order[Max(s)])
            /\ \E d \in BoundDeps[Order[Max(s)]] :
                  ~IsServing(d) \/ d \in g[s \ {Max(s)}]
         THEN g[s \ {Max(s)}] \union {Order[Max(s)]} ELSE g[s \ {Max(s)}]]

\* They end in the result.
LEMMA BoundStoppingIsBindSets == BoundStopping = BindSets[DOMAIN Order]
BY DEF BoundStopping, FoldLeft, MapThenFoldSet, BindSets

\* apply_bind selects running nodes, and only those with a bound dependency.
LEMMA BoundStoppingIs ==
    BoundStopping \subseteq {n \in Node : Running(n) /\ BoundDeps[n] # {}}
<1>. DEFINE V == {n \in Node : Running(n) /\ BoundDeps[n] # {}}
            Go == {k \in 1..Size : /\ Running(Order[k])
                                   /\ \E d \in BoundDeps[Order[k]] : ~IsServing(d)}
            Trig == [k \in 1..Size |->
                        IF Running(Order[k]) THEN BoundDeps[Order[k]] ELSE {}]
            Add == [k \in 1..Size |-> {Order[k]} \intersect V]
            Body(f, s) == IF s = {} THEN {}
                ELSE IF Running(Order[Max(s)])
                        /\ \E d \in BoundDeps[Order[Max(s)]] :
                              ~IsServing(d) \/ d \in f[s \ {Max(s)}]
                     THEN f[s \ {Max(s)}] \union {Order[Max(s)]} ELSE f[s \ {Max(s)}]
            G == BindSets
<1>0. Size \in Nat /\ DOMAIN Order = 1..Size /\ \A k \in 1..Size : Order[k] \in Node
    BY OrderIs
<1>1. Sweepable(Size, V, Go, Trig, Add, {})
    BY <1>0 DEF Sweepable
<1>2. ASSUME NEW f, NEW s \in SUBSET (1..Size)
      PROVE  SweepStep(Go, Trig, Add, {}, f, s) = Body(f, s)
    <2>1. CASE s = {}
        BY <2>1 DEF SweepStep
    <2>2. CASE s # {}
        <3>. DEFINE x == Max(s)
                    F == f[s \ {x}]
                    n == Order[x]
        <3>1. x \in 1..Size
            BY <1>0, <2>2, BeforeSmaller
        <3>. HIDE DEF x
        <3>2. n \in Node
            BY <1>0, <3>1
        <3>. HIDE DEF n, F
        <3>3. x \in Go <=> Running(n) /\ \E d \in BoundDeps[n] : ~IsServing(d)
            BY <3>1 DEF n
        <3>4. Trig[x] = IF Running(n) THEN BoundDeps[n] ELSE {}
            BY <3>1 DEF n
        <3>5. Add[x] = {n} \intersect V
            BY <3>1 DEF n
        <3>. HIDE DEF Go, Trig, Add
        <3>6. x \in Go \/ Trig[x] \intersect F # {} <=>
                 Running(n) /\ \E d \in BoundDeps[n] : ~IsServing(d) \/ d \in F
            BY <3>3, <3>4
        <3>7. x \in Go \/ Trig[x] \intersect F # {} => Add[x] = {n}
            BY <3>2, <3>5, <3>6
        <3>8. SweepStep(Go, Trig, Add, {}, f, s) =
                 IF x \in Go \/ Trig[x] \intersect F # {} THEN F \union Add[x] ELSE F
            BY <2>2 DEF SweepStep, Before, x, F
        <3>9. Body(f, s) =
                 IF Running(n) /\ \E d \in BoundDeps[n] : ~IsServing(d) \/ d \in F
                 THEN F \union {n} ELSE F
            BY <2>2 DEF x, n, F
        <3>. HIDE DEF Body
        <3>. QED
            BY <3>6, <3>7, <3>8, <3>9
    <2>. QED BY <2>1, <2>2
<1>3. G = CHOOSE g : g = [s \in SUBSET (1..Size) |-> Body(g, s)]
    BY <1>0 DEF BindSets
<1>4. BoundStopping = G[1..Size]
    BY <1>0, BoundStoppingIsBindSets
<1>. HIDE DEF G, Go, Trig, Add, V
<1>5. PICK g : Swept(Size, Go, Trig, Add, {}, g)
    BY <1>1, SweepExists
<1>6. \E f : f = [s \in SUBSET (1..Size) |-> Body(f, s)]
    <2>. DEFINE f == [s \in SUBSET (1..Size) |-> g[s]]
    <2>1. \A s \in SUBSET (1..Size) : s \ {Max(s)} \in SUBSET (1..Size)
        OBVIOUS
    <2>2. \A s \in SUBSET (1..Size) : f[s] = g[s] /\ f[s \ {Max(s)}] = g[s \ {Max(s)}]
        BY <2>1
    <2>3. \A s \in SUBSET (1..Size) : Body(f, s) = Body(g, s) /\ g[s] = Body(g, s)
        <3>. SUFFICES ASSUME NEW s \in SUBSET (1..Size)
                      PROVE  Body(f, s) = Body(g, s) /\ g[s] = Body(g, s)
            OBVIOUS
        <3>1. f[s \ {Max(s)}] = g[s \ {Max(s)}]
            BY <2>2
        <3>2. Body(f, s) = Body(g, s)
            <4>. HIDE DEF f
            <4>. QED BY <3>1
        <3>3. g[s] = SweepStep(Go, Trig, Add, {}, g, s)
            BY <1>5 DEF Swept
        <3>. HIDE DEF Body
        <3>. QED BY <1>2, <3>2, <3>3
    <2>. HIDE DEF Body
    <2>4. f = [s \in SUBSET (1..Size) |-> Body(f, s)]
        BY <2>2, <2>3
    <2>. QED BY <2>4
<1>. HIDE DEF Body
<1>7. G = [s \in SUBSET (1..Size) |-> Body(G, s)]
    BY <1>3, <1>6, Zenon
<1>8. Swept(Size, Go, Trig, Add, {}, G)
    BY <1>2, <1>7 DEF Swept
<1>9. PICK h : Passes(Size, V, Go, Trig, Add, {}, h) /\ h[Size] = G[1..Size]
    BY <1>1, <1>8, SweepPrefixes
<1>10. h[Size] \in SUBSET V
    BY <1>0, <1>9 DEF Passes
<1>. QED
    BY <1>4, <1>9, <1>10 DEF V

----------------------------------------------------------------------------
(* Type correctness.                                                       *)

\* What a driver is doing.
DriverState ==
    [pc : Pc, verb : Verbs \union {"none", "bind", "pool"}, set : SUBSET Node,
     left : SUBSET Node, mark : SUBSET Node, due : SUBSET Node,
     err : BOOLEAN, k : 1..(Len(Order) + 1), prog : BOOLEAN, wait : BOOLEAN]

\* The data but for what the drivers do.
DataOK ==
    /\ flag \in [Node -> SUBSET Flag]
    /\ inst \in [Node -> Instance]
    /\ resume \subseteq Node
    /\ evt \subseteq {"STOP_EVT", "GATE_EVT", "BIND_REQ", "SCALE_REQ"}

\* And the drivers.
DrvOK == drv \in [Driver -> DriverState]

\* The cursor finds the next node of S, and skips none.
LEMMA CursorIs ==
    ASSUME NEW k \in 1..(Len(Order) + 1), NEW S
    PROVE  /\ CursorAt(k, S) \in 1..(Len(Order) + 1)
           /\ CursorAt(k, S) <= Len(Order) =>
                 /\ CursorAt(k, S) \in 1..Len(Order) /\ k <= CursorAt(k, S)
                 /\ Order[CursorAt(k, S)] \in S /\ Order[CursorAt(k, S)] \in Node
           /\ \A i \in 1..Len(Order) :
                 k <= i /\ Order[i] \in S => CursorAt(k, S) <= i
<1>. DEFINE at == {i \in k..Len(Order) : Order[i] \in S}
<1>0. Len(Order) \in Nat /\ \A i \in 1..Len(Order) : Order[i] \in Node
    BY OrderIs DEF Size
<1>1. CASE at = {}
    <2>1. CursorAt(k, S) = Len(Order) + 1
        BY <1>1 DEF CursorAt
    <2>2. \A i \in 1..Len(Order) : ~(k <= i /\ Order[i] \in S)
        BY <1>0, <1>1
    <2>. QED BY <1>0, <2>1, <2>2
<1>2. CASE at # {}
    <2>1. at \subseteq Nat
        BY <1>0
    <2>2. \E i \in at : \A j \in at : i <= j
        <3>. HIDE DEF at
        <3>. QED BY <1>2, <2>1, LeastNat
    <2>3. CursorAt(k, S) = CHOOSE i \in at : \A j \in at : i <= j
        BY <1>2 DEF CursorAt
    <2>4. CursorAt(k, S) \in at /\ \A j \in at : CursorAt(k, S) <= j
        <3>. HIDE DEF at
        <3>. QED BY <2>2, <2>3, Zenon
    <2>. QED BY <1>0, <2>4
<1>. QED
    BY <1>1, <1>2

\* The records the verbs begin with.
LEMMA RecordsOK ==
    /\ Idle \in DriverState
    /\ \A v \in Verbs \union {"none", "bind", "pool"}, a, b \in SUBSET Node :
          StartRec(v, a, b) \in DriverState /\ StopRec(v, a, b) \in DriverState
<1>1. 1 \in 1..(Len(Order) + 1)
    BY OrderIs DEF Size
<1>2. Idle \in DriverState
    BY <1>1 DEF Idle, DriverState, Pc, Await
<1>. QED
    BY <1>2 DEF StartRec, StopRec, DriverState, Pc, Await

\* A driver is set.
LEMMA PutOK ==
    ASSUME DrvOK, NEW d \in Driver, NEW r \in DriverState, Put(d, r)
    PROVE  DrvOK'
BY DEF DrvOK, Put

\* run() ends.
LEMMA EndRunOK ==
    ASSUME EndRun PROVE DrvOK' /\ run' \in BOOLEAN
BY RecordsOK DEF EndRun, DrvOK

\* The wave's last step leaves a driver in a proper state.
LEMMA StopDoneOK ==
    ASSUME DrvOK, run \in BOOLEAN, NEW d \in Driver, StopDone(d) \/ StopFailed(d)
    PROVE  DrvOK' /\ run' \in BOOLEAN
<1>1. CASE StopDone(d)
    <2>. DEFINE r == CASE drv[d].verb = "restart" ->
                StartRec("restart", drv[d].set,
                   {n \in drv[d].set :
                       ~Held(n) /\ ~Running(n) /\ Mode[n] # "OnDemand"})
           [] drv[d].verb = "bind" ->
                [Idle EXCEPT !.pc = "rebind", !.verb = "bind"]
           [] OTHER -> Idle
    <2>1. drv[d] \in DriverState
        BY DEF DrvOK
    <2>2. [Idle EXCEPT !.pc = "rebind", !.verb = "bind"] \in DriverState
        BY RecordsOK DEF DriverState, Pc, Await
    <2>3. drv[d].verb = "restart" =>
             StartRec("restart", drv[d].set,
                   {n \in drv[d].set :
                       ~Held(n) /\ ~Running(n) /\ Mode[n] # "OnDemand"}) \in DriverState
        <3>1. drv[d].verb \in Verbs \union {"none", "bind", "pool"} /\ drv[d].set \in SUBSET Node
            BY <2>1 DEF DriverState
        <3>. QED BY <3>1, RecordsOK
    <2>4. r \in DriverState
        <3>1. CASE drv[d].verb = "restart"
            BY <3>1, <2>3
        <3>2. CASE drv[d].verb = "bind"
            BY <3>2, <2>2
        <3>3. CASE drv[d].verb # "restart" /\ drv[d].verb # "bind"
            BY <3>3, RecordsOK
        <3>. QED BY <3>1, <3>2, <3>3
    <2>5. Put(d, r) /\ run' = run
        BY <1>1 DEF StopDone
    <2>. HIDE DEF r
    <2>. QED BY <2>4, <2>5, PutOK
<1>2. CASE StopFailed(d)
    <2>1. EndRun \/ (Put(d, Idle) /\ run' = run)
        BY <1>2 DEF StopFailed
    <2>. QED BY <2>1, RecordsOK, PutOK, EndRunOK
<1>. QED
    BY <1>1, <1>2

\* The same of a start wave.
LEMMA StartDoneOK ==
    ASSUME DrvOK, run \in BOOLEAN, NEW d \in Driver, NEW e \in BOOLEAN, StartDone(d, e)
    PROVE  DrvOK' /\ run' \in BOOLEAN
<1>1. EndRun \/ (Put(d, Idle) /\ (run' = run \/ run' = ~e))
    BY DEF StartDone
<1>2. (~e) \in BOOLEAN
    BY Zenon
<1>. QED BY <1>1, <1>2, RecordsOK, PutOK, EndRunOK

\* The same of start_node.
LEMMA StartNodeDoneOK ==
    ASSUME DrvOK, NEW d \in Driver, StartNodeDone(d)
    PROVE  DrvOK' /\ run' = run
<1>1. drv[d] \in DriverState /\ drv[d].k \in 1..(Len(Order) + 1)
    BY DEF DrvOK, DriverState
<1>2. [Idle EXCEPT !.pc = "rebind", !.verb = "bind", !.k = drv[d].k] \in DriverState
    BY <1>1, RecordsOK DEF DriverState, Pc, Await
<1>3. \E r \in DriverState : Put(d, r)
    BY <1>2, RecordsOK DEF StartNodeDone
<1>. QED BY <1>3, PutOK DEF StartNodeDone

\* A node leaves the start wave.
LEMMA ResolveOK ==
    ASSUME DrvOK, NEW d \in Driver, NEW n, NEW e \in BOOLEAN, Resolve(d, n, e),
           Cursor(d) \in 1..Len(Order)
    PROVE  DrvOK'
<1>. DEFINE b == drv[d].err \/ e
            r == [drv[d] EXCEPT !.left = @ \ {n}, !.mark = @ \ {n}, !.due = @ \ {n},
                          !.err = b, !.prog = TRUE, !.k = Cursor(d) + 1]
<1>1. b \in BOOLEAN
    BY Zenon
<1>. HIDE DEF b
<1>2. r \in DriverState
    <2>1. drv[d] \in DriverState /\ Len(Order) \in Nat
        BY OrderIs DEF DrvOK, Size
    <2>2. /\ drv[d].left \ {n} \in SUBSET Node /\ drv[d].mark \ {n} \in SUBSET Node
          /\ drv[d].due \ {n} \in SUBSET Node
        BY <2>1 DEF DriverState
    <2>3. Cursor(d) + 1 \in 1..(Len(Order) + 1)
        BY <2>1
    <2>4. TRUE \in BOOLEAN
        OBVIOUS
    <2>5. \A q \in DriverState, x, y, z \in SUBSET Node, u, v \in BOOLEAN,
             k \in 1..(Len(Order) + 1) :
             [q EXCEPT !.left = x, !.mark = y, !.due = z, !.err = u, !.prog = v, !.k = k]
                \in DriverState
        BY DEF DriverState
    <2>. QED BY <1>1, <2>1, <2>2, <2>3, <2>4, <2>5
<1>3. Put(d, r)
    BY DEF Resolve, b
<1>. QED BY <1>2, <1>3, PutOK

\* Both, and the rest of TypeOK.
Types == DataOK /\ DrvOK /\ run \in BOOLEAN /\ calls \in 0..MaxCalls

\* They are TypeOK.
LEMMA TypesAreTypeOK == Types <=> TypeOK
BY DEF Types, TypeOK, DataOK, DrvOK, DriverState

\* The sets of the verbs are sets of nodes.
LEMMA VerbSets ==
    ASSUME NEW t \in Targets
    PROVE  /\ Seed(t) \in SUBSET Node /\ t \in Node
           /\ CollectDependents(Seed(t)) \in SUBSET Node
           /\ CollectDeps(Seed(t)) \in SUBSET Node
<1>1. Seed(t) \in SUBSET Node /\ t \in Node
    BY GraphAssumption DEF Seed
<1>. QED BY <1>1, DependentsAreClosure, DepsAreClosure

\* One more call.
LEMMA CallOK ==
    ASSUME Types, NEW v, Call(v)
    PROVE  calls' \in 0..MaxCalls /\ v \in Verbs
BY GraphAssumption DEF Types, Call

\* A resume in place.
LEMMA ResumeOK ==
    ASSUME DataOK, NEW S \in SUBSET Node, NEW c, Resume(S, c)
    PROVE  flag' \in [Node -> SUBSET Flag] /\ inst' \in [Node -> Instance] /\ resume' \subseteq Node
BY DEF DataOK, Resume, Flag

\* A spawn.
LEMMA LaunchOK ==
    ASSUME DataOK, NEW n \in Node, Launch(n)
    PROVE  flag' \in [Node -> SUBSET Flag] /\ inst' \in [Node -> Instance] /\ resume' \subseteq Node
BY DEF DataOK, Launch, Flag, Instance

\* The verbs keep the types.
LEMMA VerbTypes ==
    ASSUME Types, Verb
    PROVE  Types'
<1>. Driver = {"ctl", "bind"} /\ "ctl" \in Driver
    BY DEF Driver
<1>1. CASE Start
    <2>1. PICK v \in {"start", "run"} :
             Call(v) /\ Put("ctl", StartRec(v, {},
                {n \in Node : Mode[n] # "OnDemand" /\ ~Held(n) /\ ~Running(n)}))
        BY <1>1 DEF Start
    <2>2. calls' \in 0..MaxCalls /\ v \in Verbs
        BY <2>1, CallOK
    <2>3. DrvOK'
        <3>. DEFINE S == {n \in Node : Mode[n] # "OnDemand" /\ ~Held(n) /\ ~Running(n)}
        <3>1. S \in SUBSET Node /\ {} \in SUBSET Node
            OBVIOUS
        <3>. HIDE DEF S
        <3>2. StartRec(v, {}, S) \in DriverState
            BY <2>2, <3>1, RecordsOK
        <3>. QED BY <2>1, <3>2, PutOK DEF Types, S
    <2>. QED BY <1>1, <2>2, <2>3 DEF Start, Types, DataOK
<1>2. CASE Teardown
    <2>1. PICK v \in {"teardown", "teardown_continue"} :
             Call(v) /\ Put("ctl", StopRec(v, {}, {n \in Node : Running(n)}))
        BY <1>2 DEF Teardown
    <2>2. calls' \in 0..MaxCalls /\ v \in Verbs
        BY <2>1, CallOK
    <2>3. DrvOK'
        <3>. DEFINE S == {n \in Node : Running(n)}
        <3>1. S \in SUBSET Node /\ {} \in SUBSET Node
            OBVIOUS
        <3>. HIDE DEF S
        <3>2. StopRec(v, {}, S) \in DriverState
            BY <2>2, <3>1, RecordsOK
        <3>. QED BY <2>1, <3>2, PutOK DEF Types, S
    <2>. QED BY <1>2, <2>2, <2>3 DEF Teardown, Types, DataOK
<1>3. CASE RespawnTerminate
    <2>. DEFINE S == {n \in Node : Mode[n] = "Terminate" /\ ~Held(n) /\ ~Running(n)}
    <2>1. Call("respawn_terminate") /\ Put("ctl", StartRec("respawn_terminate", {}, S))
        BY <1>3 DEF RespawnTerminate
    <2>2. calls' \in 0..MaxCalls /\ "respawn_terminate" \in Verbs
        BY <2>1, CallOK
    <2>3. S \in SUBSET Node /\ {} \in SUBSET Node
        OBVIOUS
    <2>. HIDE DEF S
    <2>4. DrvOK'
        <3>1. StartRec("respawn_terminate", {}, S) \in DriverState
            BY <2>2, <2>3, RecordsOK
        <3>. QED BY <2>1, <3>1, PutOK DEF Types
    <2>. QED BY <1>3, <2>2, <2>4 DEF RespawnTerminate, Types, DataOK
<1>4. CASE ResumePausable
    <2>. DEFINE S == {n \in Node : Mode[n] = "Pause" /\ ~Held(n) /\ HasAckedStop(n)}
    <2>1. Call("resume_pausable") /\ Resume(S, {}) /\ UNCHANGED <<evt, run, drv>>
        BY <1>4 DEF ResumePausable
    <2>2. S \in SUBSET Node
        OBVIOUS
    <2>. HIDE DEF S
    <2>. QED BY <2>1, <2>2, CallOK, ResumeOK DEF Types, DataOK, DrvOK
<1>5. CASE LeaveRun
    <2>1. DrvOK' /\ run' \in BOOLEAN
        BY <1>5, EndRunOK DEF LeaveRun
    <2>2. calls' \in 0..MaxCalls
        BY <1>5, GraphAssumption DEF LeaveRun, Types
    <2>. QED BY <1>5, <2>1, <2>2 DEF LeaveRun, Types, DataOK
<1>6. ASSUME NEW t \in Targets, Deactivate(t) PROVE Types'
    <2>. DEFINE set == CollectDependents(Seed(t))
                S == {n \in set : Running(n)}
    <2>1. Call("deactivate") /\ Put("ctl", StopRec("deactivate", {}, S))
        BY <1>6 DEF Deactivate
    <2>2. calls' \in 0..MaxCalls /\ "deactivate" \in Verbs
        BY <2>1, CallOK
    <2>3. S \in SUBSET Node /\ {} \in SUBSET Node
        BY VerbSets
    <2>4. flag' \in [Node -> SUBSET Flag]
        BY <1>6 DEF Deactivate, Types, DataOK, Flag
    <2>. HIDE DEF S
    <2>5. DrvOK'
        <3>1. StopRec("deactivate", {}, S) \in DriverState
            BY <2>2, <2>3, RecordsOK
        <3>. QED BY <2>1, <3>1, PutOK DEF Types
    <2>. QED BY <1>6, <2>2, <2>4, <2>5 DEF Deactivate, Types, DataOK
<1>7. ASSUME NEW t \in Targets, Activate(t) PROVE Types'
    <2>1. Call("activate")
        BY <1>7 DEF Activate
    <2>2. calls' \in 0..MaxCalls /\ "activate" \in Verbs
        BY <2>1, CallOK
    <2>3. flag' \in [Node -> SUBSET Flag]
        BY <1>7 DEF Activate, Types, DataOK, Flag
    <2>4. PICK S \in SUBSET Node : Put("ctl", StartRec("activate", {}, S))
        <3>. DEFINE set == CollectDeps(Seed(t))
        <3>1. set \in SUBSET Node
            BY VerbSets
        <3>. HIDE DEF set
        <3>. QED BY <1>7, <3>1 DEF Activate, set
    <2>5. DrvOK'
        <3>1. StartRec("activate", {}, S) \in DriverState
            BY <2>2, <2>4, RecordsOK
        <3>. QED BY <2>4, <3>1, PutOK DEF Types
    <2>. QED BY <1>7, <2>2, <2>3, <2>5 DEF Activate, Types, DataOK
<1>8. ASSUME NEW t \in Targets, Restart(t) PROVE Types'
    <2>. DEFINE set == CollectDependents(Seed(t))
                S == {n \in set : Running(n)}
    <2>1. Call("restart") /\ Put("ctl", StopRec("restart", set, S))
        BY <1>8 DEF Restart
    <2>2. calls' \in 0..MaxCalls /\ "restart" \in Verbs
        BY <2>1, CallOK
    <2>3. S \in SUBSET Node /\ set \in SUBSET Node
        BY VerbSets
    <2>. HIDE DEF S, set
    <2>4. DrvOK'
        <3>1. StopRec("restart", set, S) \in DriverState
            BY <2>2, <2>3, RecordsOK
        <3>. QED BY <2>1, <3>1, PutOK DEF Types
    <2>. QED BY <1>8, <2>2, <2>4 DEF Restart, Types, DataOK
<1>9. ASSUME NEW n \in Targets, StartNode(n) PROVE Types'
    <2>. DEFINE r == [Idle EXCEPT !.pc = "ready", !.verb = "start_node",
                               !.set = {n}, !.left = ReadyDeps[n]]
    <2>1. Call("start_node") /\ Put("ctl", r)
        BY <1>9 DEF StartNode
    <2>2. calls' \in 0..MaxCalls /\ "start_node" \in Verbs
        BY <2>1, CallOK
    <2>3. n \in Node /\ ReadyDeps[n] \in SUBSET Node
        BY GraphAssumption
    <2>4. r \in DriverState
        BY <2>2, <2>3, RecordsOK DEF DriverState, Pc, Await
    <2>. HIDE DEF r
    <2>5. DrvOK'
        BY <2>1, <2>4, PutOK DEF Types
    <2>. QED BY <1>9, <2>2, <2>5 DEF StartNode, Types, DataOK
<1>10. ASSUME NEW n \in Targets, StopNode(n) PROVE Types'
    <2>. DEFINE r == [Idle EXCEPT !.pc = "ack_wait", !.verb = "stop_node",
                               !.left = {n}, !.mark = {n}]
    <2>1. Call("stop_node") /\ Put("ctl", r)
        BY <1>10 DEF StopNode
    <2>2. calls' \in 0..MaxCalls /\ "stop_node" \in Verbs
        BY <2>1, CallOK
    <2>3. n \in Node
        BY GraphAssumption
    <2>4. r \in DriverState
        BY <2>2, <2>3, RecordsOK DEF DriverState, Pc, Await
    <2>5. flag' \in [Node -> SUBSET Flag]
        BY <1>10 DEF StopNode, Types, DataOK, Flag
    <2>. HIDE DEF r
    <2>6. DrvOK'
        BY <2>1, <2>4, PutOK DEF Types
    <2>. QED BY <1>10, <2>2, <2>5, <2>6 DEF StopNode, Types, DataOK
<1>. QED
    BY <1>1, <1>2, <1>3, <1>4, <1>5, <1>6, <1>7, <1>8, <1>9, <1>10 DEF Verb

\* The stop wave and stop_node keep the types.
LEMMA StopTypes ==
    ASSUME Types, NEW d \in Driver, StopRound(d) \/ StopWake(d) \/ AwaitAck(d)
    PROVE  Types'
<1>0. drv[d] \in DriverState
    BY DEF Types, DrvOK
<1>1. CASE StopRound(d)
    <2>. DEFINE r == drv[d]
                sent == r.mark \union {j \in r.left : ~HeldInWave(j, r.left)}
                acked == {j \in r.left : Has(j, "DROPPED")}
                late == IF acked = {} THEN sent \intersect r.due ELSE {}
                left == r.left \ (acked \union late)
                q == [r EXCEPT !.left = left, !.mark = sent \intersect left,
                              !.due = r.due \intersect left,
                              !.pc = IF acked = {} /\ late = {}
                                     THEN "stop_wait" ELSE "stop"]
    <2>1. flag' \in [Node -> SUBSET Flag]
        BY <1>1 DEF StopRound, Types, DataOK, Flag
    <2>2. StopFailed(d) \/ StopDone(d) \/ (run' = run /\ Put(d, q))
        BY <1>1 DEF StopRound
    <2>3. q \in DriverState
        <3>1. left \in SUBSET Node /\ sent \in SUBSET Node /\ r.due \in SUBSET Node
            BY <1>0 DEF DriverState
        <3>2. r \in DriverState
            BY <1>0
        <3>. HIDE DEF left, sent, late, acked, r
        <3>. QED BY <3>1, <3>2 DEF DriverState, Pc, Await
    <2>. HIDE DEF q
    <2>4. DrvOK' /\ run' \in BOOLEAN
        BY <2>2, <2>3, StopDoneOK, PutOK DEF Types
    <2>. QED BY <1>1, <2>1, <2>4 DEF StopRound, Types, DataOK
<1>2. CASE StopWake(d)
    <2>1. DrvOK'
        BY <1>0, <1>2 DEF StopWake, Types, DrvOK, DriverState, Pc
    <2>2. evt' \subseteq evt
        BY <1>2 DEF StopWake
    <2>. QED BY <1>2, <2>1, <2>2 DEF StopWake, Types, DataOK
<1>3. CASE AwaitAck(d)
    <2>1. PICK n \in drv[d].left :
          \/ /\ Has(n, "DROPPED")
             /\ flag' = [flag EXCEPT ![n] = @ \ {"RUNNING"}]
             /\ Put(d, Idle) /\ UNCHANGED run
          \/ /\ ~Has(n, "DROPPED") /\ n \in drv[d].due
             /\ StopFailed(d) /\ UNCHANGED flag
        BY <1>3 DEF AwaitAck
    <2>2. n \in Node
        BY <1>0 DEF DriverState
    <2>3. flag' \in [Node -> SUBSET Flag]
        BY <2>1, <2>2 DEF Types, DataOK
    <2>4. DrvOK' /\ run' \in BOOLEAN
        BY <2>1, RecordsOK, PutOK, StopDoneOK DEF Types
    <2>. QED BY <1>3, <2>3, <2>4 DEF AwaitAck, Types, DataOK
<1>. QED
    BY <1>1, <1>2, <1>3

\* Where a start wave is.
LEMMA WaveCursor ==
    ASSUME DrvOK, NEW d \in Driver
    PROVE  /\ drv[d] \in DriverState
           /\ Cursor(d) \in 1..(Len(Order) + 1)
           /\ Cursor(d) <= Len(Order) =>
                 /\ Cursor(d) \in 1..Len(Order) /\ drv[d].k <= Cursor(d)
                 /\ Order[Cursor(d)] \in drv[d].left /\ Order[Cursor(d)] \in Node
           /\ \A i \in 1..Len(Order) :
                 drv[d].k <= i /\ Order[i] \in drv[d].left => Cursor(d) <= i
<1>1. drv[d] \in DriverState /\ drv[d].k \in 1..(Len(Order) + 1)
    BY DEF DrvOK, DriverState
<1>. QED BY <1>1, CursorIs DEF Cursor

\* A scaling request adds to the signals.
LEMMA SignalsOK ==
    /\ ScaleReq \subseteq {"SCALE_REQ"} /\ BindReq \subseteq {"BIND_REQ"}
BY DEF ScaleReq, BindReq

\* The updates of a driver's record.
LEMMA UpdatesOK ==
    \A q \in DriverState, k \in 1..(Len(Order) + 1) :
       /\ [q EXCEPT !.wait = TRUE, !.k = k] \in DriverState
       /\ \A x \in SUBSET Node :
             [q EXCEPT !.mark = x, !.wait = TRUE, !.k = k] \in DriverState
       /\ \A p \in Pc :
             [q EXCEPT !.pc = p, !.k = k, !.prog = FALSE, !.wait = FALSE] \in DriverState
       /\ \A p \in Pc, x \in SUBSET Node, y \in SUBSET Node :
             [q EXCEPT !.pc = p, !.set = x, !.left = y, !.k = k] \in DriverState
<1>. TAKE q \in DriverState, k \in 1..(Len(Order) + 1)
<1>1. [q EXCEPT !.wait = TRUE, !.k = k] \in DriverState
    BY DEF DriverState
<1>2. \A x \in SUBSET Node : [q EXCEPT !.mark = x, !.wait = TRUE, !.k = k] \in DriverState
    BY DEF DriverState
<1>3. \A p \in Pc :
        [q EXCEPT !.pc = p, !.k = k, !.prog = FALSE, !.wait = FALSE] \in DriverState
    BY DEF DriverState
<1>4. \A p \in Pc, x \in SUBSET Node, y \in SUBSET Node :
        [q EXCEPT !.pc = p, !.set = x, !.left = y, !.k = k] \in DriverState
    BY DEF DriverState
<1>. QED BY <1>1, <1>2, <1>3, <1>4

\* The start wave keeps the types.
LEMMA StartTypes ==
    ASSUME Types, NEW d \in Driver, StartWave(d)
    PROVE  Types'
<1>0. drv[d] \in DriverState /\ DrvOK /\ DataOK /\ run \in BOOLEAN /\ Len(Order) \in Nat
    BY OrderIs DEF Types, DrvOK, Size
<1>1. CASE VisitDeferred(d)
    <2>1. Cursor(d) \in 1..Len(Order)
        BY <1>0, <1>1, WaveCursor DEF VisitDeferred
    <2>2. [drv[d] EXCEPT !.wait = TRUE, !.k = Cursor(d) + 1] \in DriverState
        <3>1. Cursor(d) + 1 \in 1..(Len(Order) + 1) /\ TRUE \in BOOLEAN
            BY <1>0, <2>1
        <3>. QED BY <1>0, <3>1, UpdatesOK
    <2>3. DrvOK'
        BY <1>0, <1>1, <2>2, PutOK DEF VisitDeferred
    <2>. QED BY <1>1, <2>3 DEF VisitDeferred, Types, DataOK
<1>2. ASSUME NEW n \in Node, Visits(d, n), Resume({n}, {"BOUND_STOPPED"}),
             Resolve(d, n, FALSE), UNCHANGED <<evt, run>>
      PROVE  Types'
    <2>1. Cursor(d) \in 1..Len(Order)
        BY <1>0, <1>2, WaveCursor DEF Visits
    <2>2. DrvOK'
        BY <1>0, <1>2, <2>1, ResolveOK
    <2>3. flag' \in [Node -> SUBSET Flag] /\ inst' \in [Node -> Instance] /\ resume' \subseteq Node
        BY <1>0, <1>2, ResumeOK
    <2>. QED BY <1>2, <2>2, <2>3 DEF Visits, Types, DataOK
<1>3. ASSUME NEW n \in Node, Visits(d, n), Launch(n),
             Resolve(d, n, FALSE), UNCHANGED <<evt, run>>
      PROVE  Types'
    <2>1. Cursor(d) \in 1..Len(Order)
        BY <1>0, <1>3, WaveCursor DEF Visits
    <2>2. DrvOK'
        BY <1>0, <1>3, <2>1, ResolveOK
    <2>3. flag' \in [Node -> SUBSET Flag] /\ inst' \in [Node -> Instance] /\ resume' \subseteq Node
        BY <1>0, <1>3, LaunchOK
    <2>. QED BY <1>3, <2>2, <2>3 DEF Visits, Types, DataOK
<1>4. CASE VisitWaits(d)
    <2>1. PICK n \in Node :
            /\ Visits(d, n)
            /\ Put(d, [drv[d] EXCEPT !.mark = @ \union {n}, !.wait = TRUE, !.k = Cursor(d) + 1])
            /\ UNCHANGED <<flag, inst, resume, evt, run>>
        BY <1>4 DEF VisitWaits
    <2>2. Cursor(d) \in 1..Len(Order)
        BY <1>0, <2>1, WaveCursor DEF Visits
    <2>3. [drv[d] EXCEPT !.mark = @ \union {n}, !.wait = TRUE, !.k = Cursor(d) + 1] \in DriverState
        <3>1. Cursor(d) + 1 \in 1..(Len(Order) + 1) /\ TRUE \in BOOLEAN
            BY <1>0, <2>2
        <3>2. drv[d].mark \union {n} \in SUBSET Node
            BY <1>0 DEF DriverState
        <3>. QED BY <1>0, <3>1, <3>2, UpdatesOK
    <2>4. DrvOK'
        BY <1>0, <2>1, <2>3, PutOK
    <2>. QED BY <2>1, <2>4 DEF Visits, Types, DataOK
<1>5. ASSUME NEW n \in Node, Visits(d, n),
             flag' = [flag EXCEPT ![n] = @ \union {"BOUND_STOPPED"}],
             Resolve(d, n, FALSE), UNCHANGED <<inst, resume, evt, run>>
      PROVE  Types'
    <2>1. Cursor(d) \in 1..Len(Order)
        BY <1>0, <1>5, WaveCursor DEF Visits
    <2>2. DrvOK'
        BY <1>0, <1>5, <2>1, ResolveOK
    <2>3. flag' \in [Node -> SUBSET Flag]
        BY <1>0, <1>5 DEF DataOK, Flag
    <2>. QED BY <1>5, <2>2, <2>3 DEF Visits, Types, DataOK
<1>6. CASE VisitFaults(d)
    <2>1. PICK n \in Node :
            /\ Visits(d, n) /\ UNCHANGED <<flag, inst, resume>>
            /\ \/ Resolve(d, n, TRUE) /\ UNCHANGED <<evt, run>>
               \/ StartDone(d, TRUE)
        BY <1>6 DEF VisitFaults
    <2>2. Cursor(d) \in 1..Len(Order)
        BY <1>0, <2>1, WaveCursor DEF Visits
    <2>3. DrvOK' /\ run' \in BOOLEAN
        BY <1>0, <2>1, <2>2, ResolveOK, StartDoneOK
    <2>4. evt' \subseteq evt \union {"SCALE_REQ"}
        BY <2>1, SignalsOK DEF StartDone
    <2>. QED BY <2>1, <2>3, <2>4 DEF Visits, Types, DataOK
<1>7. CASE EndRound(d)
    <2>. DEFINE r == drv[d]
                q == [r EXCEPT !.pc = IF r.prog THEN "start" ELSE "start_wait",
                               !.k = 1, !.prog = FALSE, !.wait = FALSE]
    <2>1. StartDone(d, r.err) \/ (Put(d, q) /\ UNCHANGED <<evt, run>>)
        BY <1>7 DEF EndRound
    <2>2. q \in DriverState /\ r.err \in BOOLEAN
        <3>. DEFINE p == IF r.prog THEN "start" ELSE "start_wait"
        <3>1. p \in Pc
            BY DEF Pc, Await
        <3>2. 1 \in 1..(Len(Order) + 1) /\ FALSE \in BOOLEAN
            BY <1>0
        <3>3. q = [r EXCEPT !.pc = p, !.k = 1, !.prog = FALSE, !.wait = FALSE]
            OBVIOUS
        <3>. HIDE DEF p, q
        <3>4. q \in DriverState
            BY <1>0, <3>1, <3>2, <3>3, UpdatesOK
        <3>. QED BY <1>0, <3>4 DEF DriverState
    <2>. HIDE DEF q
    <2>3. DrvOK' /\ run' \in BOOLEAN
        BY <1>0, <2>1, <2>2, PutOK, StartDoneOK
    <2>4. evt' \subseteq evt \union {"SCALE_REQ"}
        BY <2>1, SignalsOK DEF StartDone
    <2>. QED BY <1>7, <2>3, <2>4 DEF EndRound, Types, DataOK
<1>8. CASE StartWake(d)
    <2>1. DrvOK'
        BY <1>0, <1>8 DEF StartWake, Types, DrvOK, DriverState, Pc
    <2>2. evt' \subseteq evt
        BY <1>8 DEF StartWake
    <2>. QED BY <1>8, <2>1, <2>2 DEF StartWake, Types, DataOK
<1>. QED
    BY <1>1, <1>2, <1>3, <1>4, <1>5, <1>6, <1>7, <1>8
       DEF StartWave, VisitResumes, VisitSpawns, VisitParks

\* start_node keeps the types.
LEMMA StartNodeTypes ==
    ASSUME Types, NEW d \in Driver, AwaitReadyDep(d) \/ SpawnSettled(d) \/ SettleWake(d)
    PROVE  Types'
<1>0. drv[d] \in DriverState /\ DrvOK /\ DataOK /\ run \in BOOLEAN
    BY DEF Types, DrvOK
<1>1. CASE AwaitReadyDep(d)
    <2>. DEFINE first == FirstOf(drv[d].left)
    <2>1. PICK n \in Node :
            /\ UNCHANGED <<evt, calls, inst, resume>>
            /\ \/ /\ Put(d, [drv[d] EXCEPT !.pc = "ready", !.left = @ \ {first},
                                           !.mark = {}, !.due = {}])
                  /\ UNCHANGED <<flag, run>>
               \/ /\ Put(d, [drv[d] EXCEPT !.pc = "ready_wait", !.mark = {n}])
                  /\ UNCHANGED <<flag, run>>
               \/ /\ flag' = [flag EXCEPT ![n] =
                        IF first \in BoundDeps[n] THEN @ \union {"BOUND_STOPPED"} ELSE @]
                  /\ StartNodeDone(d)
        BY <1>1 DEF AwaitReadyDep, Starting
    <2>. HIDE DEF first
    <2>2. [drv[d] EXCEPT !.pc = "ready", !.left = @ \ {first}, !.mark = {}, !.due = {}]
             \in DriverState
        BY <1>0 DEF DriverState, Pc, Await
    <2>3. [drv[d] EXCEPT !.pc = "ready_wait", !.mark = {n}] \in DriverState
        BY <1>0 DEF DriverState, Pc, Await
    <2>4. DrvOK' /\ run' = run
        BY <1>0, <2>1, <2>2, <2>3, PutOK, StartNodeDoneOK
    <2>5. flag' \in [Node -> SUBSET Flag]
        BY <1>0, <2>1 DEF DataOK, Flag
    <2>. QED BY <2>1, <2>4, <2>5 DEF Types, DataOK
<1>2. CASE SpawnSettled(d)
    <2>1. PICK n \in Node :
            /\ UNCHANGED <<evt, calls>>
            /\ \/ Launch(n) /\ StartNodeDone(d)
               \/ /\ Put(d, [drv[d] EXCEPT !.pc = "settle_wait", !.mark = {n}])
                  /\ UNCHANGED <<flag, inst, resume, run>>
               \/ StartNodeDone(d) /\ UNCHANGED <<flag, inst, resume>>
        BY <1>2 DEF SpawnSettled, Starting
    <2>2. [drv[d] EXCEPT !.pc = "settle_wait", !.mark = {n}] \in DriverState
        BY <1>0 DEF DriverState, Pc, Await
    <2>3. DrvOK' /\ run' = run
        BY <1>0, <2>1, <2>2, PutOK, StartNodeDoneOK
    <2>4. flag' \in [Node -> SUBSET Flag] /\ inst' \in [Node -> Instance] /\ resume' \subseteq Node
        BY <1>0, <2>1, LaunchOK DEF DataOK
    <2>. QED BY <2>1, <2>3, <2>4 DEF Types, DataOK
<1>3. CASE SettleWake(d)
    <2>1. DrvOK'
        BY <1>0, <1>3 DEF SettleWake, Types, DrvOK, DriverState, Pc
    <2>2. evt' \subseteq evt
        BY <1>3 DEF SettleWake
    <2>. QED BY <1>3, <2>1, <2>2 DEF SettleWake, Types, DataOK
<1>. QED
    BY <1>1, <1>2, <1>3

\* What Rebind does, at a node it may bring back.
LEMMA RebindAt ==
    ASSUME Types, Rebind
    PROVE  \/ Put("bind", Idle) /\ UNCHANGED <<flag, inst, resume, evt>>
           \/ \E i \in 1..Len(Order) :
                LET n == Order[i]  r == drv["bind"] IN
                /\ n \in Node /\ n \in Rebindable
                /\ \/ /\ Mode[n] = "Terminate"
                      /\ Put("bind", [r EXCEPT !.pc = "ready", !.set = {n},
                                        !.left = ReadyDeps[n], !.k = i + 1])
                      /\ flag' = [flag EXCEPT ![n] = @ \ {"COLLATERAL"}]
                      /\ UNCHANGED <<inst, resume, evt>>
                   \/ /\ Mode[n] = "Pause"
                      /\ Put("bind", [r EXCEPT !.k = i + 1])
                      /\ Resume({n}, {"BOUND_STOPPED"})
                      /\ UNCHANGED evt
                   \/ /\ Mode[n] = "OnDemand"
                      /\ Put("bind", [r EXCEPT !.k = i + 1])
                      /\ flag' = [flag EXCEPT ![n] = @ \ {"BOUND_STOPPED"}]
                      /\ evt' = evt \union ScaleReq
                      /\ UNCHANGED <<inst, resume>>
<1>. DEFINE i == CursorAt(drv["bind"].k, Rebindable)
<1>1. drv["bind"].k \in 1..(Len(Order) + 1) /\ Len(Order) \in Nat
    BY OrderIs DEF Types, DrvOK, DriverState, Driver, Size
<1>2. /\ i \in 1..(Len(Order) + 1)
      /\ i <= Len(Order) => i \in 1..Len(Order) /\ Order[i] \in Rebindable /\ Order[i] \in Node
    BY <1>1, CursorIs
<1>3. CASE i > Len(Order)
    BY <1>3 DEF Rebind
<1>4. CASE ~(i > Len(Order))
    <2>1. i \in 1..Len(Order) /\ Order[i] \in Rebindable /\ Order[i] \in Node
        BY <1>1, <1>2, <1>4
    <2>. QED BY <1>4, <2>1 DEF Rebind
<1>. QED
    BY <1>3, <1>4

\* The deadlines and the bind driver keep the types.
LEMMA BindTypes ==
    ASSUME Types, (\E d \in Driver : Deadline(d)) \/ ApplyBind \/ Rebind
    PROVE  Types'
<1>0. "bind" \in Driver /\ Len(Order) \in Nat /\ drv["bind"] \in DriverState
    BY OrderIs DEF Driver, Types, DrvOK, Size
<1>1. ASSUME NEW d \in Driver, Deadline(d) PROVE Types'
    <2>0. drv[d] \in DriverState
        BY DEF Types, DrvOK
    <2>1. PICK n \in drv[d].mark : drv' = [drv EXCEPT ![d].due = @ \union {n}]
        BY <1>1 DEF Deadline
    <2>2. n \in Node
        BY <2>0 DEF DriverState
    <2>3. [drv[d] EXCEPT !.due = @ \union {n}] \in DriverState
        BY <2>0, <2>2 DEF DriverState
    <2>4. DrvOK'
        BY <2>1, <2>3 DEF Types, DrvOK
    <2>. QED BY <1>1, <2>4 DEF Deadline, Types, DataOK
<1>2. CASE ApplyBind
    <2>1. StopRec("bind", {}, BoundStopping) \in DriverState
        <3>1. BoundStopping \in SUBSET Node /\ {} \in SUBSET Node
            BY BoundStoppingIs
        <3>. QED BY <3>1, RecordsOK
    <2>2. DrvOK'
        BY <1>0, <1>2, <2>1, PutOK DEF ApplyBind, Types
    <2>3. flag' \in [Node -> SUBSET Flag]
        BY <1>2 DEF ApplyBind, Types, DataOK, Flag
    <2>. QED BY <1>2, <2>2, <2>3 DEF ApplyBind, Types, DataOK
<1>3. CASE Rebind
    <2>0. UNCHANGED <<run, calls>>
        BY <1>3 DEF Rebind
    <2>1. CASE Put("bind", Idle) /\ UNCHANGED <<flag, inst, resume, evt>>
        <3>1. DrvOK'
            BY <1>0, <2>1, RecordsOK, PutOK DEF Types
        <3>. QED BY <2>0, <2>1, <3>1 DEF Types, DataOK
    <2>2. ASSUME NEW i \in 1..Len(Order), NEW n \in Node,
                 Put("bind", [drv["bind"] EXCEPT !.pc = "ready", !.set = {n},
                                        !.left = ReadyDeps[n], !.k = i + 1]),
                 flag' = [flag EXCEPT ![n] = @ \ {"COLLATERAL"}],
                 UNCHANGED <<inst, resume, evt>>
          PROVE  Types'
        <3>1. ReadyDeps[n] \in SUBSET Node
            BY GraphAssumption
        <3>2. [drv["bind"] EXCEPT !.pc = "ready", !.set = {n},
                                  !.left = ReadyDeps[n], !.k = i + 1] \in DriverState
            <4>1. "ready" \in Pc /\ {n} \in SUBSET Node /\ i + 1 \in 1..(Len(Order) + 1)
                BY <1>0 DEF Pc
            <4>. QED BY <1>0, <3>1, <4>1, UpdatesOK
        <3>3. DrvOK'
            BY <1>0, <2>2, <3>2, PutOK DEF Types
        <3>4. flag' \in [Node -> SUBSET Flag]
            BY <2>2 DEF Types, DataOK
        <3>. QED BY <2>0, <2>2, <3>3, <3>4 DEF Types, DataOK
    <2>3. ASSUME NEW i \in 1..Len(Order), NEW n \in Node,
                 Put("bind", [drv["bind"] EXCEPT !.k = i + 1]),
                 \/ Resume({n}, {"BOUND_STOPPED"}) /\ UNCHANGED evt
                 \/ /\ flag' = [flag EXCEPT ![n] = @ \ {"BOUND_STOPPED"}]
                    /\ evt' = evt \union ScaleReq
                    /\ UNCHANGED <<inst, resume>>
          PROVE  Types'
        <3>1. [drv["bind"] EXCEPT !.k = i + 1] \in DriverState
            BY <1>0 DEF DriverState
        <3>2. DrvOK'
            BY <1>0, <2>3, <3>1, PutOK DEF Types
        <3>3. flag' \in [Node -> SUBSET Flag] /\ inst' \in [Node -> Instance] /\ resume' \subseteq Node
            BY <2>3, ResumeOK DEF Types, DataOK
        <3>4. evt' \subseteq evt \union {"SCALE_REQ"}
            BY <2>3, SignalsOK
        <3>. QED BY <2>0, <3>2, <3>3, <3>4 DEF Types, DataOK
    <2>. QED BY <1>3, <2>1, <2>2, <2>3, RebindAt
<1>. QED
    BY <1>1, <1>2, <1>3

\* The tasks keep the types.
LEMMA TaskTypes ==
    ASSUME Types, NEW n \in Node, Task(n)
    PROVE  Types'
<1>1. DrvOK' /\ UNCHANGED <<run, calls>>
    BY DEF Task, Exit, Pause, WaitResume, Park, SetReady, ClearReady, TaskStep, Types, DrvOK
<1>2. flag' \in [Node -> SUBSET Flag] /\ inst' \in [Node -> Instance] /\ resume' \subseteq Node
    BY DEF Task, Exit, Pause, WaitResume, Park, SetReady, ClearReady, Types, DataOK, Flag, Instance
<1>3. evt' \subseteq evt \union {"STOP_EVT", "GATE_EVT", "BIND_REQ", "SCALE_REQ"}
    BY SignalsOK DEF Task, Exit, Pause, WaitResume, Park, SetReady, ClearReady, Signal
<1>. QED
    BY <1>1, <1>2, <1>3 DEF Types, DataOK

\* They hold at first.
LEMMA InitTypes == Init => Types
<1>1. Init => DrvOK
    BY RecordsOK DEF Init, DrvOK
<1>2. Init => DataOK /\ run \in BOOLEAN /\ calls \in 0..MaxCalls
    <2>. SUFFICES ASSUME Init PROVE DataOK /\ run \in BOOLEAN /\ calls \in 0..MaxCalls
        OBVIOUS
    <2>1. flag \in [Node -> SUBSET Flag] /\ inst \in [Node -> Instance]
        BY DEF Init, Instance
    <2>2. resume \subseteq Node /\ evt = {}
        BY DEF Init
    <2>3. run \in BOOLEAN
        BY DEF Init
    <2>4. calls \in 0..MaxCalls
        BY GraphAssumption DEF Init
    <2>. QED BY <2>1, <2>2, <2>3, <2>4 DEF DataOK
<1>. QED BY <1>1, <1>2 DEF Types

\* Every step keeps the types.
LEMMA TypesKept == Types /\ [Next]_vars => Types'
<1>. SUFFICES ASSUME Types, [Next]_vars PROVE Types'
    OBVIOUS
<1>1. CASE UNCHANGED vars
    BY <1>1 DEF vars, Types, DataOK, DrvOK
<1>2. CASE Next
    BY <1>2, VerbTypes, StopTypes, StartTypes, StartNodeTypes, BindTypes, TaskTypes
       DEF Next, Drive
<1>. QED BY <1>1, <1>2

\* The types hold.
LEMMA TypesHold == Spec => []Types
BY InitTypes, TypesKept, PTL DEF Spec

\* The types of the supervisor's state, on every graph.
THEOREM SupervisorTypeCorrect == Spec => []TypeOK
BY TypesHold, TypesAreTypeOK, PTL

----------------------------------------------------------------------------
(* What a step does to one node.  Only deactivate and activate move the    *)
(* holds; every other step leaves the node as it was or is one of these.   *)

SameShell(m) == inst'[m] = inst[m] /\ (m \in resume' <=> m \in resume)

Kept(m) == flag'[m] = flag[m] /\ SameShell(m)

\* Spawned, over a shell that is settled.
Launched(m) ==
    /\ IsSettled(m) /\ inst'[m] = "live"
    /\ m \in resume' <=> m \in resume /\ inst[m] # "idle"
    /\ flag'[m] = (flag[m] \ (ResetMask \union {"BOUND_STOPPED"})) \union {"RUNNING"}

\* Resumed in place, after an ack or by the bind driver.
Resumed(m) ==
    /\ HasAckedStop(m) \/ m \in Rebindable
    /\ Mode[m] = "Pause"
    /\ inst'[m] = inst[m] /\ m \in resume'
    /\ \E c \in SUBSET {"BOUND_STOPPED"} :
          flag'[m] = (flag[m] \ (ResetMask \union c)) \union {"RUNNING"}

\* Told to stop, or its ack collected.
Stopped(m) ==
    /\ SameShell(m)
    /\ \E a \in SUBSET {"SHUTDOWN"}, b \in SUBSET {"RUNNING"} :
          flag'[m] = (flag[m] \union a) \ b /\ (b # {} => Has(m, "DROPPED"))

\* Left to the bind driver, or given back by it.
BoundMarked(m) ==
    /\ SameShell(m)
    /\ \/ flag'[m] = flag[m] \union {"BOUND_STOPPED"} /\ BoundDeps[m] # {}
       \/ flag'[m] = flag[m] \ {"BOUND_STOPPED"} /\ Mode[m] = "OnDemand"

\* A step of its own task.
Tasked(m) ==
    \/ /\ inst[m] = "live" /\ inst'[m] = "ending" /\ (m \in resume' <=> m \in resume)
       /\ flag'[m] = (flag[m] \ {"RUNNING"}) \union {"COMPLETED", "DROPPED"}
    \/ /\ Mode[m] = "Pause" /\ "SHUTDOWN" \in flag[m]
       /\ inst[m] = "live" /\ inst'[m] = "parked" /\ (m \in resume' <=> m \in resume)
       /\ flag'[m] = (flag[m] \ {"RUNNING"}) \union {"DROPPED"}
    \/ /\ inst[m] = "parked" /\ m \in resume /\ inst'[m] = "live" /\ m \notin resume'
       /\ flag'[m] = flag[m]
    \/ /\ inst[m] = "ending" /\ inst'[m] = "idle" /\ m \notin resume'
       /\ flag'[m] = flag[m]
    \/ /\ inst[m] = "live" /\ SameShell(m)
       /\ flag'[m] = flag[m] \union {"READY"} \/ flag'[m] = flag[m] \ {"READY"}

Effect(m) ==
    \/ Kept(m) \/ Launched(m) \/ Resumed(m) \/ Stopped(m) \/ BoundMarked(m)
    \/ Tasked(m)

\* A stop wave's round, and stop_node.
LEMMA StopEffect ==
    ASSUME Types, NEW d \in Driver, StopRound(d) \/ StopWake(d) \/ AwaitAck(d),
           NEW m \in Node
    PROVE  Effect(m)
<1>1. CASE StopRound(d)
    <2>1. PICK a \in SUBSET {"SHUTDOWN"}, b \in SUBSET {"RUNNING"} :
             flag'[m] = (flag[m] \union a) \ b /\ (b # {} => Has(m, "DROPPED"))
        <3>. DEFINE r == drv[d]
                    sent == r.mark \union {j \in r.left : ~HeldInWave(j, r.left)}
                    acked == {j \in r.left : Has(j, "DROPPED")}
                    a == IF m \in sent \ r.mark THEN {"SHUTDOWN"} ELSE {}
                    b == IF m \in acked THEN {"RUNNING"} ELSE {}
        <3>1. flag'[m] = (flag[m] \union a) \ b
            BY <1>1 DEF StopRound
        <3>2. b # {} => Has(m, "DROPPED")
            OBVIOUS
        <3>3. a \in SUBSET {"SHUTDOWN"} /\ b \in SUBSET {"RUNNING"}
            OBVIOUS
        <3>. HIDE DEF a, b
        <3>. QED BY <3>1, <3>2, <3>3
    <2>2. SameShell(m)
        BY <1>1 DEF StopRound, SameShell
    <2>. QED BY <2>1, <2>2 DEF Effect, Stopped
<1>2. CASE StopWake(d)
    BY <1>2 DEF StopWake, Effect, Kept, SameShell
<1>3. CASE AwaitAck(d)
    <2>1. PICK n \in drv[d].left :
          \/ Has(n, "DROPPED") /\ flag' = [flag EXCEPT ![n] = @ \ {"RUNNING"}]
          \/ UNCHANGED flag
        BY <1>3 DEF AwaitAck
    <2>2. SameShell(m)
        BY <1>3 DEF AwaitAck, SameShell
    <2>3. CASE m = n /\ Has(n, "DROPPED") /\ flag' = [flag EXCEPT ![n] = @ \ {"RUNNING"}]
        <3>1. flag'[m] = (flag[m] \union {}) \ {"RUNNING"}
            BY <2>3 DEF Types, DataOK
        <3>. QED BY <2>2, <2>3, <3>1 DEF Effect, Stopped
    <2>4. CASE flag'[m] = flag[m]
        BY <2>2, <2>4 DEF Effect, Kept
    <2>. QED BY <2>1, <2>3, <2>4 DEF Types, DataOK
<1>. QED
    BY <1>1, <1>2, <1>3

\* Launch and Resume, at the node and at the others.
LEMMA LaunchEffect ==
    ASSUME Types, NEW n \in Node, NEW m \in Node, IsSettled(n), Launch(n)
    PROVE  Effect(m)
BY DEF Types, DataOK, Launch, Effect, Kept, SameShell, Launched, Instance

\* Resume.
LEMMA ResumeEffect ==
    ASSUME Types, NEW S \in SUBSET Node, NEW c \in SUBSET {"BOUND_STOPPED"},
           NEW m \in Node, Resume(S, c),
           \A n \in S : Mode[n] = "Pause" /\ (HasAckedStop(n) \/ n \in Rebindable)
    PROVE  Effect(m)
BY DEF Types, DataOK, Resume, Effect, Kept, SameShell, Resumed


\* The start wave.
LEMMA StartEffect ==
    ASSUME Types, NEW d \in Driver, StartWave(d), NEW m \in Node
    PROVE  Effect(m)
<1>1. CASE VisitDeferred(d) \/ VisitWaits(d) \/ VisitFaults(d) \/ EndRound(d) \/ StartWake(d)
    BY <1>1 DEF VisitDeferred, VisitWaits, VisitFaults, EndRound, StartWake,
                Effect, Kept, SameShell
<1>2. CASE VisitResumes(d)
    <2>1. PICK n \in Node : ResumesInPlace(d, n) /\ Resume({n}, {"BOUND_STOPPED"})
        BY <1>2 DEF VisitResumes
    <2>2. {n} \in SUBSET Node /\ \A x \in {n} : Mode[x] = "Pause" /\ HasAckedStop(x)
        BY <2>1 DEF ResumesInPlace
    <2>. QED BY <2>1, <2>2, ResumeEffect
<1>3. CASE VisitSpawns(d)
    BY <1>3, LaunchEffect DEF VisitSpawns
<1>4. CASE VisitParks(d)
    BY <1>4 DEF VisitParks, Effect, BoundMarked, Kept, SameShell, Types, DataOK
<1>. QED
    BY <1>1, <1>2, <1>3, <1>4 DEF StartWave

\* start_node.
LEMMA StartNodeEffect ==
    ASSUME Types, NEW d \in Driver, AwaitReadyDep(d) \/ SpawnSettled(d) \/ SettleWake(d),
           NEW m \in Node
    PROVE  Effect(m)
<1>1. CASE AwaitReadyDep(d)
    <2>1. PICK n \in Node :
            /\ UNCHANGED <<inst, resume>>
            /\ \/ UNCHANGED flag
               \/ flag' = [flag EXCEPT ![n] = IF FirstOf(drv[d].left) \in BoundDeps[n]
                                              THEN @ \union {"BOUND_STOPPED"} ELSE @]
        BY <1>1 DEF AwaitReadyDep
    <2>. QED BY <2>1 DEF Effect, BoundMarked, Kept, SameShell, Types, DataOK
<1>2. CASE SpawnSettled(d)
    <2>1. PICK n \in Node : (IsSettled(n) /\ Launch(n)) \/ UNCHANGED <<flag, inst, resume>>
        BY <1>2 DEF SpawnSettled
    <2>. QED BY <2>1, LaunchEffect DEF Effect, Kept, SameShell
<1>3. CASE SettleWake(d)
    BY <1>3 DEF SettleWake, Effect, Kept, SameShell
<1>. QED
    BY <1>1, <1>2, <1>3

\* The bind driver.
LEMMA BindEffect ==
    ASSUME Types, ApplyBind \/ Rebind, NEW m \in Node
    PROVE  Effect(m)
<1>1. CASE ApplyBind
    <2>1. flag'[m] = flag[m] \/
          (flag'[m] = flag[m] \union {"BOUND_STOPPED"} /\ m \in BoundStopping)
        BY <1>1 DEF ApplyBind
    <2>2. SameShell(m)
        BY <1>1 DEF ApplyBind, SameShell
    <2>. QED BY <2>1, <2>2, BoundStoppingIs DEF Effect, Kept, BoundMarked
<1>2. CASE Rebind
    <2>1. CASE UNCHANGED <<flag, inst, resume>>
        BY <2>1 DEF Effect, Kept, SameShell
    <2>2. ASSUME NEW n \in Node, n \in Rebindable, UNCHANGED <<inst, resume>>,
                 flag' = [flag EXCEPT ![n] = @ \ {"COLLATERAL"}]
          PROVE  Effect(m)
        <3>1. "COLLATERAL" \notin flag[n]
            BY <2>2 DEF Rebindable, Held, Has
        <3>. QED BY <2>2, <3>1 DEF Effect, Kept, SameShell, Types, DataOK
    <2>3. ASSUME NEW n \in Node, n \in Rebindable, Mode[n] = "Pause",
                 Resume({n}, {"BOUND_STOPPED"})
          PROVE  Effect(m)
        BY <2>3, ResumeEffect
    <2>4. ASSUME NEW n \in Node, Mode[n] = "OnDemand", UNCHANGED <<inst, resume>>,
                 flag' = [flag EXCEPT ![n] = @ \ {"BOUND_STOPPED"}]
          PROVE  Effect(m)
        BY <2>4 DEF Effect, BoundMarked, Kept, SameShell, Types, DataOK
    <2>. QED BY <1>2, <2>1, <2>2, <2>3, <2>4, RebindAt
<1>. QED
    BY <1>1, <1>2

\* The tasks.
LEMMA TaskEffect ==
    ASSUME Types, NEW n \in Node, Task(n), NEW m \in Node
    PROVE  Effect(m)
BY DEF Task, Exit, Pause, WaitResume, Park, SetReady, ClearReady, Effect, Tasked, Kept,
       SameShell, Types, DataOK, Has

\* The verbs that leave the holds alone.
LEMMA VerbEffect ==
    ASSUME Types, Verb, NEW m \in Node,
           ~ \E t \in Targets : Deactivate(t) \/ Activate(t)
    PROVE  Effect(m)
<1>1. CASE UNCHANGED <<flag, inst, resume>>
    BY <1>1 DEF Effect, Kept, SameShell
<1>2. CASE ResumePausable
    <2>. DEFINE S == {n \in Node : Mode[n] = "Pause" /\ ~Held(n) /\ HasAckedStop(n)}
    <2>1. Resume(S, {})
        BY <1>2 DEF ResumePausable
    <2>2. S \in SUBSET Node /\ {} \in SUBSET {"BOUND_STOPPED"}
          /\ \A n \in S : Mode[n] = "Pause" /\ HasAckedStop(n)
        OBVIOUS
    <2>. HIDE DEF S
    <2>. QED BY <2>1, <2>2, ResumeEffect
<1>3. ASSUME NEW t \in Targets, StopNode(t) PROVE Effect(m)
    <2>1. flag'[m] = flag[m] \/ flag'[m] = (flag[m] \union {"SHUTDOWN"}) \ {}
        BY <1>3 DEF StopNode, Types, DataOK
    <2>2. SameShell(m)
        BY <1>3 DEF StopNode, SameShell
    <2>. QED BY <2>1, <2>2 DEF Effect, Kept, Stopped
<1>. QED
    BY <1>1, <1>2, <1>3
       DEF Verb, Start, Teardown, RespawnTerminate, LeaveRun, Restart, StartNode

\* Every step, but for those that move the holds.
LEMMA EveryEffect ==
    ASSUME Types, [Next]_vars, ~ \E t \in Targets : Deactivate(t) \/ Activate(t)
    PROVE  \A m \in Node : Effect(m)
<1>. TAKE m \in Node
<1>1. CASE UNCHANGED vars
    BY <1>1 DEF vars, Effect, Kept, SameShell
<1>2. CASE \E d \in Driver : Deadline(d)
    BY <1>2 DEF Deadline, Effect, Kept, SameShell
<1>3. CASE Verb
    BY <1>3, VerbEffect
<1>4. ASSUME NEW d \in Driver, Drive(d) PROVE Effect(m)
    BY <1>4, StopEffect, StartEffect, StartNodeEffect DEF Drive
<1>. QED
    BY <1>1, <1>2, <1>3, <1>4, BindEffect, TaskEffect DEF Next

----------------------------------------------------------------------------
(* The holds.                                                              *)

\* The two latches of a node, which only deactivate and activate move.
SameHold(m) ==
    /\ "DISABLED" \in flag'[m] <=> "DISABLED" \in flag[m]
    /\ "COLLATERAL" \in flag'[m] <=> "COLLATERAL" \in flag[m]

\* Every other effect leaves them alone.
LEMMA HoldsKept ==
    ASSUME NEW m \in Node, Effect(m)
    PROVE  SameHold(m)
BY DEF Effect, Kept, Launched, Resumed, Stopped, BoundMarked, Tasked, SameHold, ResetMask

HoldInv == HoldReachesDependents /\ CollateralHasCause

\* deactivate latches the whole closure of its seed.
LEMMA DeactivateHolds ==
    ASSUME Types, HoldInv, NEW t \in Targets, Deactivate(t)
    PROVE  HoldInv'
<1>. DEFINE seed == Seed(t)
            set == CollectDependents(seed)
<1>1. seed \in SUBSET Node /\ set \in SUBSET Node
    BY VerbSets
<1>2. \A n \in Node :
        flag'[n] = flag[n] \union (IF n \in seed THEN {"DISABLED"}
                          ELSE IF n \in set THEN {"COLLATERAL"} ELSE {})
    BY DEF Deactivate
<1>3. ASSUME NEW n \in Node, "DISABLED" \in flag'[n], NEW m \in CollectDependents({n})
      PROVE  "DISABLED" \in flag'[m] \/ "COLLATERAL" \in flag'[m]
    <2>1. {n} \in SUBSET Node
        OBVIOUS
    <2>2. m \in Node
        BY <2>1, DependentsAreClosure
    <2>3. CASE "DISABLED" \in flag[n]
        BY <1>2, <2>2, <2>3 DEF HoldInv, HoldReachesDependents, Held, Has
    <2>4. CASE n \in seed
        <3>1. {n} \subseteq seed
            BY <2>4
        <3>2. m \in set
            BY <1>1, <2>1, <3>1, DependentsGrow
        <3>. QED BY <1>2, <2>2, <3>2
    <2>. HIDE DEF seed, set
    <2>. QED BY <1>2, <1>3, <2>3, <2>4
<1>4. ASSUME NEW n \in Node, "COLLATERAL" \in flag'[n]
      PROVE  \E m \in CollectDeps({n}) : m # n /\ "DISABLED" \in flag'[m]
    <2>0. {n} \in SUBSET Node
        OBVIOUS
    <2>1. CASE "COLLATERAL" \in flag[n]
        <3>1. PICK m \in CollectDeps({n}) : m # n /\ "DISABLED" \in flag[m]
            BY <2>1 DEF HoldInv, CollateralHasCause, Has
        <3>2. m \in Node
            BY <2>0, DepsNest
        <3>. QED BY <1>2, <3>1, <3>2
    <2>2. CASE n \in set /\ n \notin seed
        <3>. HIDE DEF seed
        <3>1. PICK m \in seed : m \in CollectDeps({n})
            BY <1>1, <2>2, CauseBelow
        <3>. QED BY <1>1, <1>2, <2>2, <3>1
    <2>. HIDE DEF seed, set
    <2>. QED BY <1>2, <1>4, <2>1, <2>2
<1>. QED
    BY <1>3, <1>4 DEF HoldInv, HoldReachesDependents, CollateralHasCause, Held, Has

\* activate lifts the latches of the closure below its seed, and the collateral
\* ones that no other disabled node causes.
LEMMA ActivateHolds ==
    ASSUME Types, HoldInv, NEW t \in Targets, Activate(t)
    PROVE  HoldInv'
<1>. DEFINE seed == Seed(t)
            set == CollectDeps(seed)
            disabled == {n \in Node : Has(n, "DISABLED")} \ set
            below == CollectDependents(disabled)
            blocked == {n \in Node : HasDepIn(n, below)}
<1>1. seed \in SUBSET Node /\ disabled \in SUBSET Node
    BY VerbSets
<1>2. \A n \in Node :
        /\ "DISABLED" \in flag'[n] <=> n \in disabled
        /\ "COLLATERAL" \in flag'[n] <=> Has(n, "COLLATERAL") /\ n \in blocked
    BY DEF Activate, HeldBelow, Has
<1>3. ASSUME NEW n \in Node, "DISABLED" \in flag'[n], NEW m \in CollectDependents({n})
      PROVE  "DISABLED" \in flag'[m] \/ "COLLATERAL" \in flag'[m]
    <2>1. {n} \in SUBSET Node /\ n \in disabled /\ Has(n, "DISABLED") /\ n \notin set
        BY <1>2, <1>3
    <2>2. m \in Node /\ {m} \in SUBSET Node
        BY <2>1, DependentsAreClosure
    <2>3. Held(m)
        BY <2>1 DEF HoldInv, HoldReachesDependents
    <2>4. CASE Has(m, "COLLATERAL") /\ m # n
        <3>1. HasDepIn(m, CollectDependents({n}))
            BY <2>1, <2>4, DependentHasDep
        <3>2. CollectDependents({n}) \subseteq below
            <4>1. {n} \subseteq disabled
                BY <2>1
            <4>. QED BY <1>1, <2>1, <4>1, DependentsGrow
        <3>3. HasDepIn(m, below)
            BY <3>1, <3>2 DEF HasDepIn
        <3>. QED BY <1>2, <2>2, <2>4, <3>3
    <2>5. CASE Has(m, "DISABLED")
        <3>1. n \in CollectDeps({m})
            BY <2>1, CauseBelow
        <3>2. m \notin set
            <4>. SUFFICES ASSUME m \in set PROVE FALSE
                OBVIOUS
            <4>1. CollectDeps({m}) \subseteq set
                BY <1>1, DepsNest
            <4>. QED BY <2>1, <3>1, <4>1
        <3>. QED BY <1>2, <2>2, <2>5, <3>2
    <2>. QED BY <1>2, <2>1, <2>3, <2>4, <2>5 DEF Held
<1>4. ASSUME NEW n \in Node, "COLLATERAL" \in flag'[n]
      PROVE  \E m \in CollectDeps({n}) : m # n /\ "DISABLED" \in flag'[m]
    <2>1. {n} \in SUBSET Node
        OBVIOUS
    <2>2. PICK y \in Deps[n] : y \in below
        BY <1>2, <1>4 DEF HasDepIn
    <2>3. y \in Node /\ {y} \in SUBSET Node
        BY GraphAssumption
    <2>. HIDE DEF disabled
    <2>4. PICK m \in disabled : m \in CollectDeps({y})
        BY <1>1, <2>2, CauseBelow
    <2>5. y \in CollectDeps({n})
        BY <2>1, DepsAreClosure
    <2>6. m \in CollectDeps({n})
        BY <2>1, <2>4, <2>5, DepsNest
    <2>7. m # n
        BY <2>4, NotBelowItself
    <2>. QED BY <1>1, <1>2, <2>4, <2>6, <2>7
<1>. QED
    BY <1>3, <1>4 DEF HoldInv, HoldReachesDependents, CollateralHasCause, Held, Has

\* Both facts about the holds, on every graph.
LEMMA HoldsHold == Spec => [](Types /\ HoldInv)
<1>1. Init => HoldInv
    BY DEF Init, HoldInv, HoldReachesDependents, CollateralHasCause, Has
<1>2. Types /\ HoldInv /\ [Next]_vars => HoldInv'
    <2>. SUFFICES ASSUME Types, HoldInv, [Next]_vars PROVE HoldInv'
        OBVIOUS
    <2>1. CASE \E t \in Targets : Deactivate(t) \/ Activate(t)
        BY <2>1, DeactivateHolds, ActivateHolds
    <2>2. CASE ~ \E t \in Targets : Deactivate(t) \/ Activate(t)
        <3>1. \A m \in Node : SameHold(m)
            BY <2>2, EveryEffect, HoldsKept
        <3>2. \A n \in Node : {n} \in SUBSET Node
            OBVIOUS
        <3>3. \A n \in Node : CollectDeps({n}) \in SUBSET Node /\ CollectDependents({n}) \in SUBSET Node
            BY <3>2, DepsAreClosure, DependentsAreClosure
        <3>. QED BY <3>1, <3>3
             DEF SameHold, HoldInv, HoldReachesDependents, CollateralHasCause, Held, Has
    <2>. QED BY <2>1, <2>2
<1>. QED
    BY <1>1, <1>2, TypesHold, PTL DEF Spec

\* A disabled node holds everything above it, whatever else is in flight.
THEOREM HoldReachesDependentsHolds == Spec => []HoldReachesDependents
<1>1. HoldInv => HoldReachesDependents
    BY DEF HoldInv
<1>. QED BY <1>1, HoldsHold, PTL

\* A collateral hold has a disabled node below it.
THEOREM CollateralHasCauseHolds == Spec => []CollateralHasCause
<1>1. HoldInv => CollateralHasCause
    BY DEF HoldInv
<1>. QED BY <1>1, HoldsHold, PTL

----------------------------------------------------------------------------
(* The instances.                                                          *)

\* The graph binds no Pause node, which apply_bind may resume without an
\* instance (run bind_pause).
NoBoundPause == \A n \in Node : Mode[n] = "Pause" => BoundDeps[n] = {}

\* What the flags of a node say of its shell.
ShellInv(n) ==
    /\ "BOUND_STOPPED" \in flag[n] => BoundDeps[n] # {}
    /\ inst[n] = "unborn" => "RUNNING" \notin flag[n] /\ "DROPPED" \notin flag[n]
    /\ inst[n] = "live" =>
          "RUNNING" \in flag[n] /\ "DROPPED" \notin flag[n] /\ "COMPLETED" \notin flag[n]
    /\ inst[n] = "parked" =>
          /\ "COMPLETED" \notin flag[n]
          /\ "RUNNING" \in flag[n] <=> n \in resume
          /\ "DROPPED" \in flag[n] <=> n \notin resume
    /\ inst[n] \in {"ending", "idle"} => "COMPLETED" \in flag[n] /\ "RUNNING" \notin flag[n]
    /\ n \in resume => inst[n] = "parked"

\* It survives every effect on the node.
LEMMA ShellKept ==
    ASSUME NoBoundPause, NEW n \in Node, inst[n] \in Instance, ShellInv(n), Effect(n)
    PROVE  ShellInv(n)'
<1>1. CASE Kept(n)
    BY <1>1 DEF Kept, SameShell, ShellInv
<1>2. CASE Launched(n)
    BY <1>2 DEF Launched, IsSettled, ShellInv, ResetMask
<1>3. CASE Resumed(n)
    <2>1. inst[n] = "parked" /\ n \in resume' /\ inst'[n] = "parked"
        BY <1>3 DEF Resumed, NoBoundPause, Rebindable, HasAckedStop, Has, ShellInv, Instance
    <2>. QED BY <1>3, <2>1 DEF Resumed, ShellInv, ResetMask
<1>4. CASE Stopped(n)
    BY <1>4 DEF Stopped, SameShell, ShellInv, Has
<1>5. CASE BoundMarked(n)
    BY <1>5 DEF BoundMarked, SameShell, ShellInv
<1>6. CASE Tasked(n)
    BY <1>6 DEF Tasked, SameShell, ShellInv
<1>. QED
    BY <1>1, <1>2, <1>3, <1>4, <1>5, <1>6 DEF Effect

\* Moving the holds does not touch it.
LEMMA ShellHeld ==
    ASSUME Types, NEW t \in Targets, Deactivate(t) \/ Activate(t), NEW n \in Node
    PROVE  /\ inst' = inst /\ resume' = resume
           /\ \A f \in Flag \ {"DISABLED", "COLLATERAL"} : f \in flag'[n] <=> f \in flag[n]
<1>1. CASE Deactivate(t)
    BY <1>1 DEF Deactivate
<1>2. CASE Activate(t)
    BY <1>2 DEF Activate
<1>. QED BY <1>1, <1>2

\* ShellInv holds of every node, always.
LEMMA ShellsHold == NoBoundPause /\ Spec => []\A n \in Node : ShellInv(n)
<1>. SUFFICES ASSUME NoBoundPause PROVE Spec => []\A n \in Node : ShellInv(n)
    OBVIOUS
<1>. DEFINE I == \A n \in Node : ShellInv(n)
<1>1. Init => I
    BY DEF Init, ShellInv
<1>2. Types /\ I /\ [Next]_vars => I'
    <2>. SUFFICES ASSUME Types, I, [Next]_vars, NEW n \in Node PROVE ShellInv(n)'
        OBVIOUS
    <2>1. CASE \E t \in Targets : Deactivate(t) \/ Activate(t)
        BY <2>1, ShellHeld DEF ShellInv, Flag
    <2>2. CASE ~ \E t \in Targets : Deactivate(t) \/ Activate(t)
        BY <2>2, EveryEffect, ShellKept DEF Types, DataOK
    <2>. QED BY <2>1, <2>2
<1>. QED
    BY <1>1, <1>2, TypesHold, PTL DEF Spec

\* On a graph that binds no Pause node, a node that reads as running has an
\* instance, or one about to resume.
THEOREM RunningHasInstanceHolds == NoBoundPause /\ Spec => []RunningHasInstance
<1>1. Types /\ (\A n \in Node : ShellInv(n)) => RunningHasInstance
    BY DEF Types, DataOK, ShellInv, RunningHasInstance, Running, Has, Instance
<1>. QED BY <1>1, TypesHold, ShellsHold, PTL

----------------------------------------------------------------------------
(* No held node is brought up.                                             *)

\* The graph binds no Terminate node, whose rebind goes through start_node and
\* its awaits.
NoBoundTerminate == \A n \in Node : Mode[n] = "Terminate" => BoundDeps[n] = {}

Launching == {"ready", "ready_wait", "settle", "settle_wait"}

\* What the control driver is about to start is not held; the bind driver
\* starts nothing across an await.
LocalOK(d, r) ==
    /\ d = "ctl" =>
          /\ r.verb # "pool"
          /\ r.pc \in {"start", "start_wait"} => \A n \in r.left : ~Held(n)
          /\ r.pc \in Launching => \A n \in r.set : ~Held(n)
    /\ d = "bind" =>
          /\ r.pc \in {"idle", "stop", "stop_wait", "rebind"}
          /\ r.pc \in {"stop", "stop_wait"} => r.verb = "bind"

BoundOnly == \A n \in Node : "BOUND_STOPPED" \in flag[n] => BoundDeps[n] # {}

UnheldInv == BoundOnly /\ \A d \in Driver : LocalOK(d, drv[d])

\* The next record of each driver, under the holds of now.
UnheldNext == \A d \in Driver : LocalOK(d, drv'[d])

\* One driver's record.
LEMMA PutLocal ==
    ASSUME Types, UnheldInv, NEW d \in Driver, NEW r, Put(d, r), LocalOK(d, r)
    PROVE  UnheldNext
BY DEF UnheldInv, UnheldNext, Put, Types, DrvOK

\* An idle driver.
LEMMA IdleLocal == \A d \in Driver : LocalOK(d, Idle)
BY DEF LocalOK, Idle, Launching

\* run() returns.
LEMMA EndLocal ==
    ASSUME EndRun
    PROVE  UnheldNext
BY IdleLocal DEF EndRun, UnheldNext

\* A record that keeps what LocalOK is about.
LEMMA SameLocal ==
    ASSUME NEW d \in Driver, NEW q, NEW r, LocalOK(d, q), r.pc = q.pc, r.verb = q.verb,
           r.left \subseteq q.left, r.set = q.set
    PROVE  LocalOK(d, r)
BY DEF LocalOK

\* The stop waves.
LEMMA StopLocal ==
    ASSUME Types, UnheldInv, NEW d \in Driver, StopRound(d) \/ StopWake(d) \/ AwaitAck(d)
    PROVE  UnheldNext
<1>0. drv[d] \in DriverState /\ LocalOK(d, drv[d]) /\ d \in {"ctl", "bind"}
    BY DEF Types, DrvOK, UnheldInv, Driver
<1>1. ASSUME StopDone(d), drv[d].pc = "stop" PROVE UnheldNext
    <2>. DEFINE S == {n \in drv[d].set : ~Held(n) /\ ~Running(n) /\ Mode[n] # "OnDemand"}
    <2>1. \/ Put(d, StartRec("restart", drv[d].set, S)) /\ drv[d].verb = "restart"
          \/ Put(d, [Idle EXCEPT !.pc = "rebind", !.verb = "bind"])
          \/ Put(d, Idle)
        BY <1>1 DEF StopDone
    <2>2. drv[d].verb = "restart" => LocalOK(d, StartRec("restart", drv[d].set, S))
        BY <1>0, <1>1 DEF LocalOK, StartRec, Idle, Launching
    <2>3. LocalOK(d, [Idle EXCEPT !.pc = "rebind", !.verb = "bind"])
        BY DEF LocalOK, Idle, Launching
    <2>. HIDE DEF S
    <2>. QED BY <2>1, <2>2, <2>3, IdleLocal, PutLocal
<1>2. ASSUME StopFailed(d) PROVE UnheldNext
    BY <1>2, EndLocal, IdleLocal, PutLocal DEF StopFailed
<1>3. CASE StopRound(d)
    <2>. DEFINE r == drv[d]
                sent == r.mark \union {j \in r.left : ~HeldInWave(j, r.left)}
                acked == {j \in r.left : Has(j, "DROPPED")}
                late == IF acked = {} THEN sent \intersect r.due ELSE {}
                left == r.left \ (acked \union late)
                q == [r EXCEPT !.left = left, !.mark = sent \intersect left,
                              !.due = r.due \intersect left,
                              !.pc = IF acked = {} /\ late = {}
                                     THEN "stop_wait" ELSE "stop"]
    <2>2. StopFailed(d) \/ StopDone(d) \/ Put(d, q)
        BY <1>3 DEF StopRound
    <2>3. q.pc \in {"stop", "stop_wait"} /\ q.verb = drv[d].verb
        <3>. HIDE DEF left, sent, late, acked
        <3>. QED BY <1>0 DEF DriverState
    <2>4. LocalOK(d, q)
        <3>. HIDE DEF q
        <3>. QED BY <1>0, <1>3, <2>3 DEF LocalOK, Launching, StopRound
    <2>. HIDE DEF q
    <2>. QED BY <1>1, <1>2, <1>3, <2>2, <2>4, PutLocal DEF StopRound
<1>4. CASE StopWake(d)
    <2>1. Put(d, [drv[d] EXCEPT !.pc = "stop"])
        BY <1>4 DEF StopWake, Put, Types, DrvOK
    <2>2. LocalOK(d, [drv[d] EXCEPT !.pc = "stop"])
        BY <1>0, <1>4 DEF LocalOK, StopWake, DriverState, Launching
    <2>. QED BY <2>1, <2>2, PutLocal
<1>5. CASE AwaitAck(d)
    BY <1>2, <1>5, IdleLocal, PutLocal DEF AwaitAck
<1>. QED
    BY <1>3, <1>4, <1>5

\* The start waves.
LEMMA StartLocal ==
    ASSUME Types, UnheldInv, NEW d \in Driver, StartWave(d)
    PROVE  UnheldNext
<1>0. drv[d] \in DriverState /\ LocalOK(d, drv[d]) /\ d \in {"ctl", "bind"}
    BY DEF Types, DrvOK, UnheldInv, Driver
<1>1. drv[d].pc \in {"start", "start_wait"}
    BY DEF StartWave, VisitDeferred, VisitResumes, VisitSpawns, VisitWaits, VisitParks,
           VisitFaults, Visits, EndRound, StartWake
<1>2. d = "ctl"
    BY <1>0, <1>1 DEF LocalOK
<1>3. ASSUME NEW e, StartDone(d, e) PROVE UnheldNext
    BY <1>3, EndLocal, IdleLocal, PutLocal DEF StartDone
<1>4. ASSUME NEW n, NEW e, Resolve(d, n, e) PROVE UnheldNext
    <2>. DEFINE r == [drv[d] EXCEPT !.left = @ \ {n}, !.mark = @ \ {n}, !.due = @ \ {n},
                          !.err = @ \/ e, !.prog = TRUE, !.k = Cursor(d) + 1]
    <2>1. r.pc = drv[d].pc /\ r.verb = drv[d].verb /\ r.left \subseteq drv[d].left /\ r.set = drv[d].set
        BY <1>0 DEF DriverState
    <2>2. Put(d, r)
        BY <1>4 DEF Resolve
    <2>. HIDE DEF r
    <2>3. LocalOK(d, r)
        BY <1>0, <2>1, SameLocal
    <2>. QED BY <2>2, <2>3, PutLocal
<1>5. CASE VisitDeferred(d)
    <2>. DEFINE r == [drv[d] EXCEPT !.wait = TRUE, !.k = Cursor(d) + 1]
    <2>1. r.pc = drv[d].pc /\ r.verb = drv[d].verb /\ r.left \subseteq drv[d].left /\ r.set = drv[d].set
        BY <1>0 DEF DriverState
    <2>2. Put(d, r)
        BY <1>5 DEF VisitDeferred
    <2>. HIDE DEF r
    <2>. QED BY <1>0, <2>1, <2>2, SameLocal, PutLocal
<1>6. CASE VisitWaits(d)
    <2>0. PICK n \in Node : Put(d, [drv[d] EXCEPT !.mark = @ \union {n}, !.wait = TRUE,
                             !.k = Cursor(d) + 1])
        BY <1>6 DEF VisitWaits
    <2>. DEFINE r == [drv[d] EXCEPT !.mark = @ \union {n}, !.wait = TRUE, !.k = Cursor(d) + 1]
    <2>1. r.pc = drv[d].pc /\ r.verb = drv[d].verb /\ r.left \subseteq drv[d].left /\ r.set = drv[d].set
        BY <1>0 DEF DriverState
    <2>2. Put(d, r)
        BY <2>0
    <2>. HIDE DEF r
    <2>. QED BY <1>0, <2>1, <2>2, SameLocal, PutLocal
<1>7. CASE EndRound(d)
    <2>. DEFINE r == [drv[d] EXCEPT !.pc = IF drv[d].prog THEN "start" ELSE "start_wait",
                                !.k = 1, !.prog = FALSE, !.wait = FALSE]
    <2>1. r.pc \in {"start", "start_wait"} /\ r.verb = drv[d].verb /\ r.left = drv[d].left
        BY <1>0 DEF DriverState
    <2>2. StartDone(d, drv[d].err) \/ Put(d, r)
        BY <1>7 DEF EndRound
    <2>. HIDE DEF r
    <2>3. LocalOK(d, r)
        BY <1>0, <1>1, <1>2, <2>1 DEF LocalOK, Launching
    <2>. QED BY <1>3, <2>2, <2>3, PutLocal
<1>8. CASE StartWake(d)
    <2>1. Put(d, [drv[d] EXCEPT !.pc = "start"])
        BY <1>8 DEF StartWake, Put, Types, DrvOK
    <2>2. LocalOK(d, [drv[d] EXCEPT !.pc = "start"])
        BY <1>0, <1>1, <1>2 DEF LocalOK, DriverState, Launching
    <2>. QED BY <2>1, <2>2, PutLocal
<1>. QED
    BY <1>3, <1>4, <1>5, <1>6, <1>7, <1>8
       DEF StartWave, VisitResumes, VisitSpawns, VisitParks, VisitFaults

\* start_node.
LEMMA StartNodeLocal ==
    ASSUME Types, UnheldInv, NEW d \in Driver, AwaitReadyDep(d) \/ SpawnSettled(d) \/ SettleWake(d)
    PROVE  UnheldNext
<1>0. drv[d] \in DriverState /\ LocalOK(d, drv[d]) /\ d \in {"ctl", "bind"}
    BY DEF Types, DrvOK, UnheldInv, Driver
<1>1. drv[d].pc \in Launching
    BY DEF AwaitReadyDep, SpawnSettled, SettleWake, Starting, Launching
<1>2. d = "ctl"
    BY <1>0, <1>1 DEF LocalOK, Launching
<1>3. ASSUME StartNodeDone(d) PROVE UnheldNext
    BY <1>2, <1>3, IdleLocal, PutLocal DEF StartNodeDone
<1>4. ASSUME NEW r, Put(d, r), r.pc \in Launching, r.verb = drv[d].verb, r.set = drv[d].set
      PROVE  UnheldNext
    <2>1. LocalOK(d, r)
        BY <1>0, <1>1, <1>2, <1>4 DEF LocalOK, Launching
    <2>. QED BY <1>4, <2>1, PutLocal
<1>5. CASE AwaitReadyDep(d)
    <2>. DEFINE first == FirstOf(drv[d].left)
    <2>1. PICK n \in Node :
          \/ Put(d, [drv[d] EXCEPT !.pc = "ready", !.left = @ \ {first}, !.mark = {}, !.due = {}])
          \/ Put(d, [drv[d] EXCEPT !.pc = "ready_wait", !.mark = {n}])
          \/ StartNodeDone(d)
        BY <1>5 DEF AwaitReadyDep
    <2>. HIDE DEF first
    <2>2. LET r == [drv[d] EXCEPT !.pc = "ready", !.left = @ \ {first}, !.mark = {}, !.due = {}]
          IN  r.pc \in Launching /\ r.verb = drv[d].verb /\ r.set = drv[d].set
        BY <1>0 DEF DriverState, Launching
    <2>3. LET r == [drv[d] EXCEPT !.pc = "ready_wait", !.mark = {n}]
          IN  r.pc \in Launching /\ r.verb = drv[d].verb /\ r.set = drv[d].set
        BY <1>0 DEF DriverState, Launching
    <2>. QED BY <1>3, <1>4, <2>1, <2>2, <2>3
<1>6. CASE SpawnSettled(d)
    <2>1. PICK n \in Node :
          \/ Put(d, [drv[d] EXCEPT !.pc = "settle_wait", !.mark = {n}])
          \/ StartNodeDone(d)
        BY <1>6 DEF SpawnSettled
    <2>2. LET r == [drv[d] EXCEPT !.pc = "settle_wait", !.mark = {n}]
          IN  r.pc \in Launching /\ r.verb = drv[d].verb /\ r.set = drv[d].set
        BY <1>0 DEF DriverState, Launching
    <2>. QED BY <1>3, <1>4, <2>1, <2>2
<1>7. CASE SettleWake(d)
    <2>1. Put(d, [drv[d] EXCEPT !.pc = "settle"])
        BY <1>7 DEF SettleWake, Put, Types, DrvOK
    <2>2. LET r == [drv[d] EXCEPT !.pc = "settle"]
          IN  r.pc \in Launching /\ r.verb = drv[d].verb /\ r.set = drv[d].set
        BY <1>0 DEF DriverState, Launching
    <2>. QED BY <1>4, <2>1, <2>2
<1>. QED
    BY <1>5, <1>6, <1>7

\* The bind driver, and the deadlines.
LEMMA BindLocal ==
    ASSUME Types, UnheldInv, NoBoundTerminate, (\E d \in Driver : Deadline(d)) \/ ApplyBind \/ Rebind
    PROVE  UnheldNext
<1>0. "bind" \in Driver /\ drv["bind"] \in DriverState /\ LocalOK("bind", drv["bind"])
    BY DEF Driver, Types, DrvOK, UnheldInv
<1>1. ASSUME NEW d \in Driver, Deadline(d) PROVE UnheldNext
    <2>0. drv[d] \in DriverState /\ LocalOK(d, drv[d])
        BY DEF Types, DrvOK, UnheldInv
    <2>1. PICK n : Put(d, [drv[d] EXCEPT !.due = @ \union {n}])
        BY <1>1 DEF Deadline, Put, Types, DrvOK
    <2>. DEFINE r == [drv[d] EXCEPT !.due = @ \union {n}]
    <2>2. r.pc = drv[d].pc /\ r.verb = drv[d].verb /\ r.left \subseteq drv[d].left /\ r.set = drv[d].set
        BY <2>0 DEF DriverState
    <2>3. Put(d, r)
        BY <2>1
    <2>. HIDE DEF r
    <2>. QED BY <2>0, <2>2, <2>3, SameLocal, PutLocal
<1>2. CASE ApplyBind
    <2>1. LocalOK("bind", StopRec("bind", {}, BoundStopping))
        BY DEF LocalOK, StopRec, Idle, Launching
    <2>. QED BY <1>0, <1>2, <2>1, PutLocal DEF ApplyBind
<1>3. CASE Rebind
    <2>1. CASE Put("bind", Idle)
        BY <1>0, <2>1, IdleLocal, PutLocal
    <2>2. ASSUME NEW i, NEW n \in Node, n \in Rebindable, Mode[n] = "Terminate"
          PROVE  UnheldNext
        BY <2>2 DEF Rebindable, UnheldInv, BoundOnly, NoBoundTerminate, Has
    <2>3. ASSUME NEW i, Put("bind", [drv["bind"] EXCEPT !.k = i + 1])
          PROVE  UnheldNext
        <3>. DEFINE r == [drv["bind"] EXCEPT !.k = i + 1]
        <3>1. r.pc = drv["bind"].pc /\ r.verb = drv["bind"].verb /\ r.left \subseteq drv["bind"].left
              /\ r.set = drv["bind"].set
            BY <1>0 DEF DriverState
        <3>2. Put("bind", r)
            BY <2>3
        <3>. HIDE DEF r
        <3>. QED BY <1>0, <3>1, <3>2, SameLocal, PutLocal
    <2>. QED BY <1>3, <2>1, <2>2, <2>3, RebindAt
<1>. QED
    BY <1>1, <1>2, <1>3

\* The verbs that leave the holds alone.
LEMMA VerbLocal ==
    ASSUME Types, UnheldInv, Verb, ~ \E t \in Targets : Deactivate(t) \/ Activate(t)
    PROVE  UnheldNext
<1>0. "ctl" \in Driver
    BY DEF Driver
<1>1. ASSUME NEW v, v # "pool", NEW S, NEW X, \A n \in S : ~Held(n), Put("ctl", StartRec(v, X, S))
      PROVE  UnheldNext
    <2>1. LocalOK("ctl", StartRec(v, X, S))
        BY <1>1 DEF LocalOK, StartRec, Idle, Launching
    <2>. QED BY <1>0, <1>1, <2>1, PutLocal
<1>2. ASSUME NEW v, v # "pool", NEW S, NEW X, Put("ctl", StopRec(v, X, S))
      PROVE  UnheldNext
    <2>1. LocalOK("ctl", StopRec(v, X, S))
        BY <1>2 DEF LocalOK, StopRec, Idle, Launching
    <2>. QED BY <1>0, <1>2, <2>1, PutLocal
<1>3. CASE Start
    <2>. DEFINE S == {n \in Node : Mode[n] # "OnDemand" /\ ~Held(n) /\ ~Running(n)}
    <2>1. PICK v \in {"start", "run"} : Put("ctl", StartRec(v, {}, S))
        BY <1>3 DEF Start
    <2>2. \A n \in S : ~Held(n)
        OBVIOUS
    <2>. HIDE DEF S
    <2>. QED BY <1>1, <2>1, <2>2
<1>4. CASE RespawnTerminate
    <2>. DEFINE S == {n \in Node : Mode[n] = "Terminate" /\ ~Held(n) /\ ~Running(n)}
    <2>1. Put("ctl", StartRec("respawn_terminate", {}, S))
        BY <1>4 DEF RespawnTerminate
    <2>2. \A n \in S : ~Held(n)
        OBVIOUS
    <2>. HIDE DEF S
    <2>. QED BY <1>1, <2>1, <2>2
<1>5. CASE Teardown
    BY <1>2, <1>5 DEF Teardown
<1>6. CASE ResumePausable
    BY <1>6 DEF ResumePausable, UnheldInv, UnheldNext
<1>7. CASE LeaveRun
    BY <1>7, EndLocal DEF LeaveRun
<1>8. ASSUME NEW t \in Targets, Restart(t) PROVE UnheldNext
    BY <1>2, <1>8 DEF Restart
<1>9. ASSUME NEW t \in Targets, StartNode(t) PROVE UnheldNext
    <2>. DEFINE r == [Idle EXCEPT !.pc = "ready", !.verb = "start_node",
                               !.set = {t}, !.left = ReadyDeps[t]]
    <2>1. LocalOK("ctl", r)
        BY <1>9 DEF LocalOK, Idle, Launching, StartNode
    <2>. QED BY <1>0, <1>9, <2>1, PutLocal DEF StartNode
<1>10. ASSUME NEW t \in Targets, StopNode(t) PROVE UnheldNext
    <2>. DEFINE r == [Idle EXCEPT !.pc = "ack_wait", !.verb = "stop_node",
                               !.left = {t}, !.mark = {t}]
    <2>1. LocalOK("ctl", r)
        BY DEF LocalOK, Idle, Launching
    <2>. QED BY <1>0, <1>10, <2>1, PutLocal DEF StopNode
<1>. QED
    BY <1>3, <1>4, <1>5, <1>6, <1>7, <1>8, <1>9, <1>10 DEF Verb

\* deactivate and activate, which do.
LEMMA HoldLocal ==
    ASSUME Types, UnheldInv, NEW t \in Targets, Deactivate(t) \/ Activate(t)
    PROVE  UnheldInv'
<1>0. drv["bind"] \in DriverState /\ LocalOK("bind", drv["bind"]) /\ Driver = {"ctl", "bind"}
    BY DEF Types, DrvOK, UnheldInv, Driver
<1>1. \A f \in Flag \ {"DISABLED", "COLLATERAL"} : \A n \in Node : f \in flag'[n] <=> f \in flag[n]
    BY ShellHeld
<1>2. BoundOnly'
    BY <1>1 DEF UnheldInv, BoundOnly, Flag
<1>3. LocalOK("ctl", drv["ctl"])'
    <2>1. CASE Deactivate(t)
        <3>1. PICK S : drv'["ctl"] = StopRec("deactivate", {}, S)
            BY <1>0, <2>1 DEF Deactivate, Put, Types, DrvOK
        <3>. QED BY <3>1 DEF LocalOK, StopRec, Idle, Launching
    <2>2. CASE Activate(t)
        <3>. DEFINE set == CollectDeps(Seed(t))
                    disabled == {n \in Node : Has(n, "DISABLED")} \ set
                    blocked == {n \in Node : HasDepIn(n, HeldBelow(disabled))}
                    revive == {n \in Node : Has(n, "COLLATERAL")} \ blocked
                    after(n) == flag[n] \ ((IF n \in set THEN {"DISABLED"} ELSE {})
                          \union (IF n \in revive THEN {"COLLATERAL"} ELSE {}))
                    S == {n \in set \union (revive \ disabled) :
                           ~Running(n) /\ "COLLATERAL" \notin after(n) /\ Mode[n] # "OnDemand"}
        <3>1. drv'["ctl"] = StartRec("activate", {}, S)
            BY <1>0, <2>2 DEF Activate, Put, Types, DrvOK
        <3>2. \A n \in Node : flag'[n] = after(n)
            BY <2>2 DEF Activate
        <3>3. \A n \in S : n \in Node /\ "COLLATERAL" \notin flag'[n] /\ "DISABLED" \notin flag'[n]
            <4>0. set \in SUBSET Node
                BY VerbSets
            <4>. HIDE DEF set, blocked
            <4>. QED BY <3>2, <4>0 DEF Has
        <3>. HIDE DEF S
        <3>4. /\ drv'["ctl"].left = S /\ drv'["ctl"].pc = "start" /\ drv'["ctl"].verb = "activate"
            BY <3>1 DEF StartRec, Idle
        <3>. QED BY <3>3, <3>4 DEF LocalOK, Launching, Held, Has
    <2>. QED BY <2>1, <2>2
<1>4. LocalOK("bind", drv["bind"])'
    <2>1. drv'["bind"] = drv["bind"]
        BY <1>0 DEF Deactivate, Activate, Put, Types, DrvOK
    <2>. QED BY <1>0, <2>1 DEF LocalOK
<1>. QED
    BY <1>0, <1>2, <1>3, <1>4 DEF UnheldInv

\* Every step.
LEMMA UnheldKept ==
    ASSUME Types, UnheldInv, NoBoundTerminate, [Next]_vars
    PROVE  UnheldInv'
<1>1. CASE \E t \in Targets : Deactivate(t) \/ Activate(t)
    BY <1>1, HoldLocal
<1>2. CASE ~ \E t \in Targets : Deactivate(t) \/ Activate(t)
    <2>1. \A m \in Node : Effect(m)
        BY <1>2, EveryEffect
    <2>2. BoundOnly'
        BY <2>1 DEF UnheldInv, BoundOnly, Effect, Kept, Launched, Resumed, Stopped,
                    BoundMarked, Tasked, ResetMask
    <2>3. UnheldNext
        <3>1. CASE UNCHANGED drv
            BY <3>1 DEF UnheldInv, UnheldNext
        <3>2. ASSUME NEW d \in Driver, Drive(d) PROVE UnheldNext
            BY <3>2, StopLocal, StartLocal, StartNodeLocal DEF Drive
        <3>3. ASSUME NEW n \in Node, Task(n) PROVE UNCHANGED drv
            BY <3>3 DEF Task, Exit, Pause, WaitResume, Park, SetReady, ClearReady, TaskStep
        <3>4. UNCHANGED vars => UNCHANGED drv
            BY DEF vars
        <3>. QED BY <1>2, <3>1, <3>2, <3>3, <3>4, BindLocal, VerbLocal DEF Next
    <2>4. \A d \in Driver : drv'[d] \in DriverState
        <3>1. Types'
            BY VerbTypes, StopTypes, StartTypes, StartNodeTypes, BindTypes, TaskTypes
               DEF Next, Drive, vars, Types, DataOK, DrvOK
        <3>. QED BY <3>1 DEF Types, DrvOK
    <2>5. \A n \in Node : Held(n)' <=> Held(n)
        BY <2>1, HoldsKept DEF SameHold, Held, Has
    <2>6. \A d \in Driver : LocalOK(d, drv[d])'
        <3>. TAKE d \in Driver
        <3>1. drv'[d].left \subseteq Node /\ drv'[d].set \subseteq Node
            BY <2>4 DEF DriverState
        <3>. QED BY <2>3, <2>5, <3>1 DEF UnheldNext, LocalOK
    <2>. QED BY <2>2, <2>6 DEF UnheldInv
<1>. QED
    BY <1>1, <1>2

\* What comes up is not held.
LEMMA RaisedIsUnheld ==
    ASSUME Types, UnheldInv, NoBoundTerminate, [Next]_vars, NEW n \in Node,
           ~Running(n), Running(n)'
    PROVE  ~Held(n)'
<1>1. CASE \E t \in Targets : Deactivate(t) \/ Activate(t)
    BY <1>1, ShellHeld DEF Running, Has, Flag
<1>2. CASE ~ \E t \in Targets : Deactivate(t) \/ Activate(t)
    <2>0. Held(n)' <=> Held(n)
        BY <1>2, EveryEffect, HoldsKept DEF SameHold, Held, Has
    <2>1. ASSUME NEW m \in Node, Launch(m), ~Held(m) PROVE ~Held(n)
        BY <2>1 DEF Launch, Running, Has, Types, DataOK
    <2>2. ASSUME NEW S, NEW c, Resume(S, c), \A m \in S : ~Held(m) PROVE ~Held(n)
        BY <2>2 DEF Resume, Running, Has
    <2>3. ASSUME NEW d \in Driver, StartWave(d) PROVE ~Held(n)
        <3>1. ASSUME NEW m \in Node, Visits(d, m) PROVE ~Held(m)
            <4>1. drv[d].pc = "start" /\ LocalOK(d, drv[d]) /\ d \in {"ctl", "bind"}
                BY <3>1 DEF Visits, UnheldInv, Driver
            <4>2. m \in drv[d].left
                BY <3>1, WaveCursor DEF Visits, Types
            <4>. QED BY <4>1, <4>2 DEF LocalOK
        <3>2. CASE VisitResumes(d)
            BY <2>2, <3>1, <3>2 DEF VisitResumes
        <3>3. CASE VisitSpawns(d)
            BY <2>1, <3>1, <3>3 DEF VisitSpawns
        <3>4. CASE VisitParks(d)
            BY <3>4 DEF VisitParks, Running, Has, Types, DataOK
        <3>5. CASE UNCHANGED flag
            BY <3>5 DEF Running, Has
        <3>. QED BY <2>3, <3>2, <3>3, <3>4, <3>5
                 DEF StartWave, VisitDeferred, VisitWaits, VisitFaults, EndRound, StartWake
    <2>4. ASSUME NEW d \in Driver, AwaitReadyDep(d) \/ SpawnSettled(d) \/ SettleWake(d) PROVE ~Held(n)
        <3>1. CASE SpawnSettled(d)
            <4>1. PICK m \in Node : Starting(d, {"ready", "settle"}, m) /\ (Launch(m) \/ UNCHANGED flag)
                BY <3>1 DEF SpawnSettled
            <4>2. drv[d].pc \in Launching /\ m \in drv[d].set /\ LocalOK(d, drv[d]) /\ d \in {"ctl", "bind"}
                BY <4>1 DEF Starting, Launching, UnheldInv, Driver
            <4>3. ~Held(m)
                BY <4>2 DEF LocalOK, Launching
            <4>. QED BY <2>1, <4>1, <4>3 DEF Running, Has
        <3>2. CASE AwaitReadyDep(d)
            BY <3>2 DEF AwaitReadyDep, Running, Has, Types, DataOK
        <3>. QED BY <2>4, <3>1, <3>2 DEF SettleWake, Running, Has
    <2>5. ASSUME NEW d \in Driver, StopRound(d) \/ StopWake(d) \/ AwaitAck(d) PROVE ~Held(n)
        <3>1. Effect(n)
            BY <1>2, EveryEffect
        <3>. QED BY <2>5 DEF StopRound, StopWake, AwaitAck, Running, Has, Types, DataOK
    <2>6. CASE ApplyBind
        BY <2>6 DEF ApplyBind, Running, Has
    <2>7. CASE Rebind
        <3>1. CASE UNCHANGED flag
            BY <3>1 DEF Running, Has
        <3>2. ASSUME NEW m \in Node, m \in Rebindable, Resume({m}, {"BOUND_STOPPED"}) PROVE ~Held(n)
            BY <2>2, <3>2 DEF Rebindable
        <3>3. ASSUME NEW m \in Node, NEW f, flag' = [flag EXCEPT ![m] = @ \ {f}] PROVE ~Held(n)
            BY <3>3 DEF Running, Has, Types, DataOK
        <3>. QED BY <2>0, <2>7, <3>1, <3>2, <3>3, RebindAt
    <2>8. CASE Verb
        <3>1. CASE UNCHANGED flag
            BY <3>1 DEF Running, Has
        <3>2. CASE ResumePausable
            BY <2>0, <2>2, <3>2 DEF ResumePausable
        <3>3. ASSUME NEW t \in Targets, StopNode(t) PROVE ~Held(n)
            BY <3>3 DEF StopNode, Running, Has, Types, DataOK
        <3>. QED BY <1>2, <2>0, <2>8, <3>1, <3>2, <3>3
                 DEF Verb, Start, Teardown, RespawnTerminate, LeaveRun, Restart, StartNode
    <2>9. ASSUME NEW m \in Node, Task(m) PROVE ~Held(n)
        BY <2>9 DEF Task, Exit, Pause, WaitResume, Park, SetReady, ClearReady, Running, Has,
                    Types, DataOK
    <2>10. (UNCHANGED vars \/ \E d \in Driver : Deadline(d)) => UNCHANGED flag
        BY DEF vars, Deadline
    <2>. QED BY <2>0, <2>3, <2>4, <2>5, <2>6, <2>7, <2>8, <2>9, <2>10 DEF Next, Drive, Running, Has
<1>. QED
    BY <1>1, <1>2

\* On a graph that binds no Terminate node, no step brings a held node up.
THEOREM HeldStaysDownHolds == NoBoundTerminate /\ Spec => HeldStaysDown
<1>. SUFFICES ASSUME NoBoundTerminate PROVE Spec => HeldStaysDown
    OBVIOUS
<1>1. Init => UnheldInv
    BY IdleLocal DEF Init, UnheldInv, BoundOnly
<1>2. Types /\ UnheldInv /\ [Next]_vars => UnheldInv'
    BY UnheldKept
<1>3. Types /\ UnheldInv /\ [Next]_vars =>
        [\A n \in Node : Held(n)' /\ Running(n)' => Running(n)]_vars
    BY RaisedIsUnheld
<1>. QED
    BY <1>1, <1>2, <1>3, TypesHold, PTL DEF Spec, HeldStaysDown

----------------------------------------------------------------------------
(* The waves of the control driver.  BackInv is what a restart rests on,   *)
(* and survives the bind driver; StopInv is what a stop wave rests on, and *)
(* holds where no node has a bound dependency and the bind driver          *)
(* therefore stays idle.                                                   *)

Unbound == \A n \in Node : BoundDeps[n] = {}

BindIdle == drv["bind"] = Idle /\ "BIND_REQ" \notin evt

\* The verbs whose stop wave takes the dependents along.
Cascading == {"deactivate", "restart", "teardown"}

\* The control driver is idle between verbs.
CtlOK ==
    /\ drv["ctl"].pc = "idle" => drv["ctl"] = Idle
    /\ drv["ctl"].verb # "pool"

\* A stop wave that waits has seen every ack, or an event will wake it.
AckInv ==
    drv["ctl"].pc = "stop_wait" =>
        \A n \in drv["ctl"].mark : "DROPPED" \in flag[n] => "STOP_EVT" \in evt

\* What a stop wave waits for has been told to stop.
ToldInv ==
    drv["ctl"].pc \in {"stop", "stop_wait"} =>
        \A n \in drv["ctl"].mark : "SHUTDOWN" \in flag[n]

\* The dependents of what a cascading wave has left are left too, or down.
CleanInv ==
    drv["ctl"].verb \in Cascading /\ drv["ctl"].pc \in {"stop", "stop_wait"} =>
        \A n \in drv["ctl"].left, m \in Node \ drv["ctl"].left :
            n \in Deps[m] => "RUNNING" \notin flag[m]

\* A Pause node that stops without an exit leaves no flag that says why.
AsksPause(n) == Mode[n] = "Pause" /\ "RUNNING" \in flag[n] /\ "SHUTDOWN" \in flag[n]

\* The down half of a restart: the Pause nodes it has resolved are down.
DownInv ==
    drv["ctl"].verb = "restart" /\ drv["ctl"].pc \in {"stop", "stop_wait"} =>
        \A n \in drv["ctl"].set :
            Mode[n] = "Pause" => n \in drv["ctl"].left \/ "RUNNING" \notin flag[n]

\* The up half: what it has resolved is up, or its flags say why not, and no
\* Pause node in it that is up is asked to stop.
Stay == {"RUNNING", "DISABLED", "COLLATERAL", "COMPLETED", "BOUND_STOPPED"}

UpInv ==
    drv["ctl"].verb = "restart" /\ drv["ctl"].pc \in {"start", "start_wait"} =>
        \A n \in drv["ctl"].set :
            /\ \/ n \in drv["ctl"].left \/ Mode[n] = "OnDemand"
               \/ flag[n] \intersect Stay # {}
            /\ ~AsksPause(n)

\* A round of a start wave remembers that it passed over a node.
RoundInv ==
    drv["ctl"].pc \in {"start", "start_wait"} =>
        \A i \in 1..Len(Order) :
            i < drv["ctl"].k /\ Order[i] \in drv["ctl"].left => drv["ctl"].wait = TRUE

BackInv == CtlOK /\ DownInv /\ UpInv /\ RoundInv

StopInv == AckInv /\ ToldInv /\ CleanInv

WaveInv == BackInv /\ StopInv

\* Under it, only the control driver drives.
LEMMA OneDriver ==
    ASSUME Types, BindIdle, NEW d \in Driver, Drive(d) \/ Deadline(d)
    PROVE  d = "ctl"
<1>1. d # "ctl" => drv[d].pc = "idle" /\ drv[d].mark = {}
    BY DEF BindIdle, Driver, Idle
<1>2. Deadline(d) => drv[d].mark # {}
    BY DEF Deadline
<1>3. StopRound(d) \/ StopWake(d) \/ AwaitAck(d) => drv[d].pc # "idle"
    BY DEF StopRound, StopWake, AwaitAck
<1>4. StartWave(d) => drv[d].pc # "idle"
    BY DEF StartWave, VisitDeferred, VisitResumes, VisitSpawns, VisitWaits, VisitParks,
           VisitFaults, Visits, EndRound, StartWake
<1>5. AwaitReadyDep(d) \/ SpawnSettled(d) \/ SettleWake(d) => drv[d].pc # "idle"
    BY DEF AwaitReadyDep, SpawnSettled, SettleWake, Starting
<1>. QED
    BY <1>1, <1>2, <1>3, <1>4, <1>5 DEF Drive

\* An idle control driver, or one that is in neither wave.
LEMMA NoWave ==
    ASSUME \/ drv'["ctl"] = Idle
           \/ /\ drv'["ctl"].pc \notin {"idle", "stop", "stop_wait", "start", "start_wait"}
              /\ drv'["ctl"].verb # "pool"
    PROVE  WaveInv'
BY DEF WaveInv, BackInv, StopInv, CtlOK, AckInv, ToldInv, CleanInv, DownInv, UpInv, RoundInv, Idle

SameWave(r, q) ==
    /\ r.pc = q.pc /\ r.verb = q.verb /\ r.left = q.left /\ r.set = q.set
    /\ r.mark = q.mark /\ r.k = q.k /\ r.wait = q.wait

\* What a step of somebody else may do to a node under a restart.
Steady(n) ==
    /\ Mode[n] # "OnDemand" /\ ~AsksPause(n) /\ flag[n] \intersect Stay # {}
          => flag'[n] \intersect Stay # {}
    /\ Mode[n] = "Pause" => /\ "RUNNING" \in flag'[n] => "RUNNING" \in flag[n]
                            /\ "SHUTDOWN" \in flag'[n] => "SHUTDOWN" \in flag[n]

\* Such a step keeps BackInv.
LEMMA SteadyWave ==
    ASSUME Types, BackInv, SameWave(drv'["ctl"], drv["ctl"]), CtlOK',
           \A n \in Node : Steady(n)
    PROVE  BackInv'
<1>. DEFINE r == drv["ctl"]
            q == drv'["ctl"]
<1>0. /\ r.left \subseteq Node /\ r.set \subseteq Node
      /\ q.pc = r.pc /\ q.verb = r.verb /\ q.left = r.left /\ q.set = r.set
      /\ q.k = r.k /\ q.wait = r.wait
    BY DEF Types, DrvOK, DriverState, Driver, SameWave
<1>. HIDE DEF r, q
<1>1. DownInv'
    BY <1>0 DEF BackInv, DownInv, Steady, r, q
<1>2. UpInv'
    <2>. SUFFICES ASSUME q.verb = "restart", q.pc \in {"start", "start_wait"}, NEW n \in q.set
                  PROVE  /\ \/ n \in q.left \/ Mode[n] = "OnDemand"
                            \/ flag'[n] \intersect Stay # {}
                         /\ ~AsksPause(n)'
        BY DEF UpInv, q
    <2>1. n \in Node /\ Steady(n)
        BY <1>0
    <2>2. /\ \/ n \in q.left \/ Mode[n] = "OnDemand"
             \/ flag[n] \intersect Stay # {}
          /\ ~AsksPause(n)
        BY <1>0 DEF BackInv, UpInv, r
    <2>. QED BY <2>1, <2>2 DEF Steady, AsksPause
<1>3. RoundInv'
    BY <1>0 DEF BackInv, RoundInv, r, q
<1>. QED
    BY <1>1, <1>2, <1>3 DEF BackInv

\* What a step that is of no driver may do to a node.
CalmAt(n) ==
    /\ "RUNNING" \in flag'[n] => "RUNNING" \in flag[n]
    /\ "SHUTDOWN" \in flag'[n] <=> "SHUTDOWN" \in flag[n]
    /\ flag[n] \intersect Stay # {} /\ ~AsksPause(n) => flag'[n] \intersect Stay # {}
    /\ "DROPPED" \in flag'[n] => "DROPPED" \in flag[n] \/ "STOP_EVT" \in evt'

\* Such a step keeps BackInv and StopInv.
LEMMA CalmWave ==
    ASSUME Types, BackInv, SameWave(drv'["ctl"], drv["ctl"]), CtlOK',
           \A n \in Node : CalmAt(n), evt \subseteq evt'
    PROVE  BackInv' /\ (StopInv => StopInv')
<1>1. \A n \in Node : Steady(n)
    BY DEF CalmAt, Steady
<1>2. BackInv'
    BY <1>1, SteadyWave
<1>. DEFINE r == drv["ctl"]
            q == drv'["ctl"]
<1>3. /\ r.left \subseteq Node /\ r.mark \subseteq Node
      /\ q.pc = r.pc /\ q.verb = r.verb /\ q.left = r.left /\ q.mark = r.mark
    BY DEF Types, DrvOK, DriverState, Driver, SameWave
<1>. HIDE DEF r, q
<1>4. StopInv => AckInv' /\ ToldInv'
    BY <1>3 DEF StopInv, AckInv, ToldInv, CalmAt, r, q
<1>5. StopInv => CleanInv'
    BY <1>3 DEF StopInv, CleanInv, CalmAt, r, q
<1>. QED
    BY <1>2, <1>4, <1>5 DEF StopInv

\* The tasks are calm.
LEMMA TaskWave ==
    ASSUME Types, BackInv, NEW m \in Node, Task(m)
    PROVE  BackInv' /\ (StopInv => StopInv')
<1>1. UNCHANGED drv /\ evt \subseteq evt'
    BY DEF Task, Exit, Pause, WaitResume, Park, SetReady, ClearReady, TaskStep, Signal
<1>2. \A n \in Node : CalmAt(n)
    BY DEF Task, Exit, Pause, WaitResume, Park, SetReady, ClearReady, Signal, CalmAt, AsksPause,
           Stay, Types, DataOK, Has
<1>3. SameWave(drv'["ctl"], drv["ctl"]) /\ CtlOK'
    BY <1>1 DEF SameWave, BackInv, CtlOK
<1>. QED
    BY <1>1, <1>2, <1>3, CalmWave

\* A deadline, and a step that changes nothing.
LEMMA StillWave ==
    ASSUME Types, BackInv, UNCHANGED vars \/ \E d \in Driver : Deadline(d)
    PROVE  BackInv' /\ (StopInv => StopInv')
<1>0. drv["ctl"] \in DriverState /\ "ctl" \in Driver
    BY DEF Types, DrvOK, Driver
<1>1. UNCHANGED <<flag, evt>>
    BY DEF vars, Deadline
<1>2. \A n \in Node : CalmAt(n)
    BY <1>1 DEF CalmAt
<1>3. SameWave(drv'["ctl"], drv["ctl"]) /\ CtlOK'
    <2>1. CASE UNCHANGED drv
        BY <2>1 DEF SameWave, BackInv, CtlOK
    <2>2. ASSUME NEW d \in Driver, Deadline(d), d # "ctl"
          PROVE  SameWave(drv'["ctl"], drv["ctl"]) /\ CtlOK'
        BY <1>0, <2>2 DEF Deadline, SameWave, BackInv, CtlOK, Types, DrvOK
    <2>3. ASSUME Deadline("ctl") PROVE SameWave(drv'["ctl"], drv["ctl"]) /\ CtlOK'
        <3>1. PICK n \in drv["ctl"].mark : drv' = [drv EXCEPT !["ctl"].due = @ \union {n}]
            BY <2>3 DEF Deadline
        <3>2. drv'["ctl"] = [drv["ctl"] EXCEPT !.due = @ \union {n}]
            BY <1>0, <3>1 DEF Types, DrvOK
        <3>3. SameWave(drv'["ctl"], drv["ctl"])
            BY <1>0, <3>2 DEF SameWave, DriverState
        <3>4. drv["ctl"].pc # "idle"
            BY <3>1 DEF BackInv, CtlOK, Idle
        <3>. QED BY <3>3, <3>4 DEF SameWave, BackInv, CtlOK
    <2>. QED BY <2>1, <2>2, <2>3 DEF vars
<1>. QED
    BY <1>1, <1>2, <1>3, CalmWave

\* An instance that has acked its stop does not read as running.
LEMMA DroppedIsDown ==
    ASSUME Types, NEW n \in Node, ShellInv(n), "DROPPED" \in flag[n]
    PROVE  "RUNNING" \notin flag[n]
BY DEF Types, DataOK, ShellInv, Instance

\* The round of a stop wave.
LEMMA StopRoundWave ==
    ASSUME Types, BackInv, \A n \in Node : ShellInv(n), StopRound("ctl")
    PROVE  BackInv' /\ (StopInv => StopInv')
<1>. DEFINE r == drv["ctl"]
            sent == r.mark \union {j \in r.left : ~HeldInWave(j, r.left)}
            acked == {j \in r.left : Has(j, "DROPPED")}
            late == IF acked = {} THEN sent \intersect r.due ELSE {}
            left == r.left \ (acked \union late)
            abort == late # {} /\ ~KeepsGoing(r.verb)
            q == [r EXCEPT !.left = left, !.mark = sent \intersect left,
                              !.due = r.due \intersect left,
                              !.pc = IF acked = {} /\ late = {}
                                     THEN "stop_wait" ELSE "stop"]
<1>0. r \in DriverState /\ "ctl" \in Driver
    BY DEF Types, DrvOK, Driver
<1>1. r.pc = "stop" /\ r.verb # "pool" /\ r.left \subseteq Node /\ r.set \subseteq Node
    BY <1>0 DEF StopRound, BackInv, CtlOK, DriverState
<1>2. \A n \in Node :
        /\ "RUNNING" \in flag'[n] <=> "RUNNING" \in flag[n] /\ n \notin acked
        /\ \A f \in Flag \ {"RUNNING", "SHUTDOWN"} : f \in flag'[n] <=> f \in flag[n]
    BY DEF StopRound
<1>3. \/ StopFailed("ctl")
      \/ ~abort /\ left = {} /\ StopDone("ctl")
      \/ ~abort /\ left # {} /\ drv'["ctl"] = q
    BY <1>0 DEF StopRound, Put, Types, DrvOK
<1>4. r.verb \in Cascading /\ ~abort => late = {} /\ left = r.left \ acked
    BY DEF KeepsGoing, Cascading
<1>5. CASE StopFailed("ctl")
    BY <1>0, <1>5, NoWave DEF StopFailed, EndRun, Put, Types, DrvOK, WaveInv
<1>6. CASE ~abort /\ left # {} /\ drv'["ctl"] = q
    <2>1. /\ q.verb = r.verb /\ q.set = r.set /\ q.left = left /\ q.mark = sent \intersect left
          /\ q.pc = IF acked = {} /\ late = {} THEN "stop_wait" ELSE "stop"
        <3>. HIDE DEF left, sent, late, acked
        <3>. QED BY <1>0 DEF DriverState
    <2>. HIDE DEF q, late, sent, r
    <2>2. CtlOK' /\ UpInv' /\ RoundInv'
        BY <1>1, <1>6, <2>1 DEF CtlOK, UpInv, RoundInv
    <2>3. AckInv'
        <3>1. \A n \in q.mark : n \in r.left
            BY <2>1
        <3>. QED BY <1>1, <1>2, <1>6, <2>1, <3>1 DEF AckInv, Has, Flag
    <2>6. StopInv => ToldInv'
        <3>1. \A n \in q.mark : n \in Node /\ (n \in r.mark \/ n \in sent \ r.mark)
            BY <1>1, <2>1
        <3>2. \A n \in Node : n \in sent \ r.mark => "SHUTDOWN" \in flag'[n]
            BY DEF StopRound, sent, r
        <3>3. \A n \in Node : "SHUTDOWN" \in flag[n] => "SHUTDOWN" \in flag'[n]
            BY DEF StopRound
        <3>. QED BY <1>1, <1>6, <2>1, <3>1, <3>2, <3>3 DEF StopInv, ToldInv, r
    <2>4. StopInv => CleanInv'
        <3>. SUFFICES ASSUME StopInv, r.verb \in Cascading, NEW n \in left, NEW m \in Node \ left, n \in Deps[m]
                      PROVE  "RUNNING" \notin flag'[m]
            BY <1>6, <2>1 DEF CleanInv
        <3>1. left = r.left \ acked
            BY <1>4, <1>6
        <3>. QED BY <1>1, <1>2, <3>1 DEF StopInv, CleanInv, r
    <2>5. DownInv'
        <3>. SUFFICES ASSUME r.verb = "restart", NEW n \in r.set, Mode[n] = "Pause"
                      PROVE  n \in left \/ "RUNNING" \notin flag'[n]
            BY <1>6, <2>1 DEF DownInv
        <3>1. left = r.left \ acked
            BY <1>4, <1>6 DEF Cascading
        <3>. QED BY <1>1, <1>2, <3>1 DEF BackInv, DownInv, r
    <2>. QED BY <2>2, <2>3, <2>4, <2>5, <2>6 DEF BackInv, StopInv
<1>7. CASE ~abort /\ left = {} /\ StopDone("ctl")
    <2>. DEFINE S == {n \in r.set : ~Held(n) /\ ~Running(n) /\ Mode[n] # "OnDemand"}
    <2>1. \/ r.verb = "restart" /\ drv'["ctl"] = StartRec("restart", r.set, S)
          \/ drv'["ctl"] = [Idle EXCEPT !.pc = "rebind", !.verb = "bind"]
          \/ drv'["ctl"] = Idle
        BY <1>0, <1>7 DEF StopDone, Put, Types, DrvOK
    <2>2. CASE drv'["ctl"] = Idle \/ drv'["ctl"] = [Idle EXCEPT !.pc = "rebind", !.verb = "bind"]
        BY <2>2, NoWave DEF Idle, WaveInv
    <2>3. CASE r.verb = "restart" /\ drv'["ctl"] = StartRec("restart", r.set, S)
        <3>1. r.left \subseteq acked
            BY <1>4, <1>7, <2>3 DEF Cascading
        <3>2. \A n \in r.set :
                 /\ n \in acked => "RUNNING" \notin flag[n]
                 /\ Mode[n] = "Pause" => "RUNNING" \notin flag[n]
            <4>1. \A n \in r.set : n \in acked => "RUNNING" \notin flag[n]
                BY <1>1, DroppedIsDown DEF Has
            <4>. HIDE DEF acked
            <4>. QED BY <1>1, <2>3, <3>1, <4>1 DEF BackInv, DownInv
        <3>3. /\ drv'["ctl"].pc = "start" /\ drv'["ctl"].verb = "restart" /\ drv'["ctl"].set = r.set
              /\ drv'["ctl"].left = S /\ drv'["ctl"].k = 1
            BY <2>3 DEF StartRec, Idle
        <3>4. \A n \in r.set : n \in S \/ Mode[n] = "OnDemand" \/ "DISABLED" \in flag[n]
                               \/ "COLLATERAL" \in flag[n] \/ "RUNNING" \in flag[n]
            BY DEF Held, Running, Has
        <3>. HIDE DEF S, acked, r
        <3>5. UpInv'
            BY <1>1, <1>2, <3>2, <3>3, <3>4 DEF UpInv, Flag, Stay, AsksPause
        <3>6. RoundInv'
            BY <3>3 DEF RoundInv
        <3>. QED BY <3>3, <3>5, <3>6 DEF BackInv, StopInv, CtlOK, AckInv, ToldInv, CleanInv, DownInv
    <2>. QED BY <2>1, <2>2, <2>3
<1>. QED
    BY <1>3, <1>5, <1>6, <1>7

\* A woken stop wave, and stop_node.
LEMMA StopWakeWave ==
    ASSUME Types, BackInv, StopWake("ctl") \/ AwaitAck("ctl")
    PROVE  BackInv' /\ (StopInv => StopInv')
<1>0. drv["ctl"] \in DriverState /\ "ctl" \in Driver
    BY DEF Types, DrvOK, Driver
<1>1. CASE AwaitAck("ctl")
    <2>1. drv'["ctl"] = Idle
        BY <1>0, <1>1 DEF AwaitAck, StopFailed, EndRun, Put, Types, DrvOK
    <2>. QED BY <2>1, NoWave DEF WaveInv
<1>2. CASE StopWake("ctl")
    <2>1. drv'["ctl"] = [drv["ctl"] EXCEPT !.pc = "stop"] /\ flag' = flag /\ drv["ctl"].pc = "stop_wait"
        BY <1>0, <1>2 DEF StopWake, Types, DrvOK
    <2>2. /\ drv'["ctl"].pc = "stop" /\ drv'["ctl"].verb = drv["ctl"].verb
          /\ drv'["ctl"].left = drv["ctl"].left /\ drv'["ctl"].set = drv["ctl"].set
          /\ drv'["ctl"].mark = drv["ctl"].mark
        BY <1>0, <2>1 DEF DriverState
    <2>. QED BY <2>1, <2>2 DEF BackInv, StopInv, CtlOK, AckInv, ToldInv, CleanInv, DownInv, UpInv,
                               RoundInv
<1>. QED
    BY <1>1, <1>2

\* What the up half does to a node it resolves: it is up, or left to apply_bind.
Raised(n) ==
    \/ "RUNNING" \in flag'[n] /\ "SHUTDOWN" \notin flag'[n]
    \/ Mode[n] # "Pause" /\ "BOUND_STOPPED" \in flag'[n]

\* A step inside the up half: what leaves the wave is up, or bound-stopped.
LEMMA UpStep ==
    ASSUME Types, BackInv, drv["ctl"].pc \in {"start", "start_wait"},
           drv'["ctl"].pc \in {"start", "start_wait"},
           drv'["ctl"].verb = drv["ctl"].verb, drv'["ctl"].set = drv["ctl"].set,
           \A m \in Node :
              \/ /\ flag'[m] = flag[m]
                 /\ m \in drv["ctl"].left => m \in drv'["ctl"].left
              \/ Raised(m),
           RoundInv'
    PROVE  WaveInv'
<1>1. drv["ctl"].set \subseteq Node
    BY DEF Types, DrvOK, DriverState, Driver
<1>2. UpInv'
    <2>. SUFFICES ASSUME drv["ctl"].verb = "restart", NEW n \in drv["ctl"].set
                  PROVE  /\ \/ n \in drv'["ctl"].left \/ Mode[n] = "OnDemand"
                            \/ flag'[n] \intersect Stay # {}
                         /\ ~AsksPause(n)'
        BY DEF UpInv
    <2>1. /\ \/ n \in drv["ctl"].left \/ Mode[n] = "OnDemand"
             \/ flag[n] \intersect Stay # {}
          /\ ~AsksPause(n)
        BY DEF BackInv, UpInv
    <2>2. Raised(n) => flag'[n] \intersect Stay # {} /\ ~AsksPause(n)'
        BY DEF Raised, Stay, AsksPause
    <2>. QED BY <1>1, <2>1, <2>2 DEF AsksPause
<1>. QED
    BY <1>2 DEF WaveInv, BackInv, StopInv, CtlOK, AckInv, ToldInv, CleanInv, DownInv

\* A node leaves the wave.
LEMMA ResolveWave ==
    ASSUME Types, BackInv, NEW n \in Node, Visits("ctl", n), Resolve("ctl", n, FALSE),
           \A m \in Node : IF m = n THEN Raised(m) ELSE flag'[m] = flag[m]
    PROVE  WaveInv'
<1>. DEFINE r == drv["ctl"]
            b == r.err \/ FALSE
            q == [r EXCEPT !.left = @ \ {n}, !.mark = @ \ {n}, !.due = @ \ {n},
                          !.err = b, !.prog = TRUE, !.k = Cursor("ctl") + 1]
<1>0. r \in DriverState /\ "ctl" \in Driver /\ Len(Order) \in Nat
    BY OrderIs DEF Types, DrvOK, Driver, Size
<1>1. /\ Cursor("ctl") \in 1..Len(Order) /\ n = Order[Cursor("ctl")]
      /\ \A i \in 1..Len(Order) : r.k <= i /\ Order[i] \in r.left => Cursor("ctl") <= i
    BY <1>0, WaveCursor DEF Visits, Types
<1>2. drv'["ctl"] = q
    BY <1>0 DEF Resolve, Put, Types, DrvOK
<1>. HIDE DEF b
<1>3. /\ q.pc = r.pc /\ q.verb = r.verb /\ q.set = r.set /\ q.left = r.left \ {n}
      /\ q.k = Cursor("ctl") + 1 /\ q.wait = r.wait
    BY <1>0 DEF DriverState
<1>4. r.pc = "start" /\ r.k \in Nat
    BY <1>0 DEF Visits, DriverState
<1>5. RoundInv'
    <2>. SUFFICES ASSUME NEW i \in 1..Len(Order), i < q.k, Order[i] \in q.left PROVE q.wait = TRUE
        BY <1>2 DEF RoundInv
    <2>. HIDE DEF q
    <2>1. i < r.k
        BY <1>0, <1>1, <1>3, <1>4
    <2>. QED BY <1>3, <1>4, <2>1 DEF BackInv, RoundInv
<1>6. \A m \in Node :
          \/ flag'[m] = flag[m] /\ (m \in r.left => m \in q.left)
          \/ Raised(m)
    BY <1>3
<1>. HIDE DEF q
<1>. QED
    BY <1>2, <1>3, <1>4, <1>5, <1>6, UpStep

\* A node is passed over.
LEMMA PassWave ==
    ASSUME Types, BackInv, NEW q, drv'["ctl"] = q, drv["ctl"].pc \in {"start", "start_wait"},
           q.pc \in {"start", "start_wait"}, q.verb = drv["ctl"].verb,
           q.set = drv["ctl"].set, q.left = drv["ctl"].left,
           q.wait = TRUE \/ q.k = 1, flag' = flag
    PROVE  WaveInv'
<1>1. RoundInv'
    BY DEF RoundInv
<1>. QED
    BY <1>1, UpStep

\* The start wave.
LEMMA StartWaveWave ==
    ASSUME Types, BackInv, NoBoundPause, StartWave("ctl")
    PROVE  WaveInv'
<1>0. drv["ctl"] \in DriverState /\ "ctl" \in Driver
    BY DEF Types, DrvOK, Driver
<1>1. ASSUME NEW e, StartDone("ctl", e) PROVE WaveInv'
    <2>1. drv'["ctl"] = Idle
        BY <1>0, <1>1 DEF StartDone, EndRun, Put, Types, DrvOK
    <2>. QED BY <2>1, NoWave
<1>2. CASE VisitDeferred("ctl")
    <2>. DEFINE q == [drv["ctl"] EXCEPT !.wait = TRUE, !.k = Cursor("ctl") + 1]
    <2>1. drv'["ctl"] = q /\ flag' = flag /\ drv["ctl"].pc = "start"
        BY <1>0, <1>2 DEF VisitDeferred, Put, Types, DrvOK
    <2>2. /\ q.pc = drv["ctl"].pc /\ q.verb = drv["ctl"].verb /\ q.set = drv["ctl"].set
          /\ q.left = drv["ctl"].left /\ q.wait = TRUE
        BY <1>0 DEF DriverState
    <2>. HIDE DEF q
    <2>. QED BY <2>1, <2>2, PassWave
<1>3. CASE VisitWaits("ctl")
    <2>0. PICK n \in Node :
            /\ Put("ctl", [drv["ctl"] EXCEPT !.mark = @ \union {n}, !.wait = TRUE,
                                             !.k = Cursor("ctl") + 1])
            /\ flag' = flag /\ drv["ctl"].pc = "start"
        BY <1>3 DEF VisitWaits, Visits
    <2>. DEFINE q == [drv["ctl"] EXCEPT !.mark = @ \union {n}, !.wait = TRUE,
                                        !.k = Cursor("ctl") + 1]
    <2>1. drv'["ctl"] = q
        BY <1>0, <2>0 DEF Put, Types, DrvOK
    <2>2. /\ q.pc = drv["ctl"].pc /\ q.verb = drv["ctl"].verb /\ q.set = drv["ctl"].set
          /\ q.left = drv["ctl"].left /\ q.wait = TRUE
        BY <1>0 DEF DriverState
    <2>. HIDE DEF q
    <2>. QED BY <2>0, <2>1, <2>2, PassWave
<1>4. CASE VisitResumes("ctl")
    <2>1. PICK n \in Node : Visits("ctl", n) /\ Resume({n}, {"BOUND_STOPPED"})
                            /\ Resolve("ctl", n, FALSE)
        BY <1>4 DEF VisitResumes
    <2>2. \A m \in Node : IF m = n THEN Raised(m) ELSE flag'[m] = flag[m]
        BY <2>1 DEF Resume, ResetMask, Raised
    <2>. QED BY <2>1, <2>2, ResolveWave
<1>5. CASE VisitSpawns("ctl")
    <2>1. PICK n \in Node : Visits("ctl", n) /\ Launch(n) /\ Resolve("ctl", n, FALSE)
        BY <1>5 DEF VisitSpawns
    <2>2. \A m \in Node : IF m = n THEN Raised(m) ELSE flag'[m] = flag[m]
        BY <2>1 DEF Launch, ResetMask, Raised, Types, DataOK
    <2>. QED BY <2>1, <2>2, ResolveWave
<1>6. CASE VisitParks("ctl")
    <2>1. PICK n \in Node : /\ Visits("ctl", n) /\ Resolve("ctl", n, FALSE)
                            /\ BoundDeps[n] # {}
                            /\ flag' = [flag EXCEPT ![n] = @ \union {"BOUND_STOPPED"}]
        BY <1>6 DEF VisitParks
    <2>2. \A m \in Node : IF m = n THEN Raised(m) ELSE flag'[m] = flag[m]
        BY <2>1 DEF NoBoundPause, Raised, Types, DataOK
    <2>. QED BY <2>1, <2>2, ResolveWave
<1>7. CASE VisitFaults("ctl")
    <2>1. PICK n \in Node :
            /\ flag' = flag /\ drv["ctl"].pc = "start"
            /\ IF KeepsGoing(drv["ctl"].verb) THEN Visits("ctl", n) /\ Resolve("ctl", n, TRUE)
               ELSE StartDone("ctl", TRUE)
        BY <1>7 DEF VisitFaults, Visits
    <2>2. CASE ~KeepsGoing(drv["ctl"].verb)
        BY <1>1, <2>1, <2>2
    <2>3. CASE KeepsGoing(drv["ctl"].verb)
        <3>. DEFINE r == drv["ctl"]
                    b == r.err \/ TRUE
                    q == [r EXCEPT !.left = @ \ {n}, !.mark = @ \ {n}, !.due = @ \ {n},
                                   !.err = b, !.prog = TRUE, !.k = Cursor("ctl") + 1]
        <3>1. drv'["ctl"] = q
            BY <1>0, <2>1, <2>3 DEF Resolve, Put, Types, DrvOK
        <3>. HIDE DEF b
        <3>2. q.pc = r.pc /\ q.verb = r.verb /\ q.left = r.left \ {n}
              /\ q.k = Cursor("ctl") + 1 /\ q.wait = r.wait
            BY <1>0 DEF DriverState
        <3>3. r.verb # "restart" /\ Len(Order) \in Nat /\ r.k \in Nat
            BY <1>0, <2>3, OrderIs DEF KeepsGoing, Size, DriverState
        <3>4. /\ Cursor("ctl") \in 1..Len(Order) /\ n = Order[Cursor("ctl")]
              /\ \A i \in 1..Len(Order) : r.k <= i /\ Order[i] \in r.left => Cursor("ctl") <= i
            BY <1>0, <2>1, <2>3, WaveCursor DEF Visits, Types
        <3>5. RoundInv'
            <4>. SUFFICES ASSUME NEW i \in 1..Len(Order), i < q.k, Order[i] \in q.left
                          PROVE  q.wait = TRUE
                BY <3>1 DEF RoundInv
            <4>. HIDE DEF q
            <4>1. i < r.k
                BY <3>2, <3>3, <3>4
            <4>. QED BY <2>1, <3>2, <4>1 DEF BackInv, RoundInv
        <3>. HIDE DEF q
        <3>. QED BY <2>1, <3>1, <3>2, <3>3, <3>5
                 DEF WaveInv, BackInv, StopInv, CtlOK, AckInv, ToldInv, CleanInv, DownInv, UpInv
    <2>. QED BY <2>2, <2>3
<1>8. CASE EndRound("ctl")
    <2>. DEFINE q == [drv["ctl"] EXCEPT !.pc = IF drv["ctl"].prog THEN "start" ELSE "start_wait",
                                !.k = 1, !.prog = FALSE, !.wait = FALSE]
    <2>1. StartDone("ctl", drv["ctl"].err) \/ drv'["ctl"] = q
        BY <1>0, <1>8 DEF EndRound, Put, Types, DrvOK
    <2>2. flag' = flag /\ drv["ctl"].pc = "start"
        BY <1>8 DEF EndRound
    <2>3. /\ q.pc \in {"start", "start_wait"} /\ q.verb = drv["ctl"].verb /\ q.set = drv["ctl"].set
          /\ q.left = drv["ctl"].left /\ q.k = 1
        BY <1>0 DEF DriverState
    <2>. HIDE DEF q
    <2>. QED BY <1>1, <2>1, <2>2, <2>3, PassWave
<1>9. CASE StartWake("ctl")
    <2>1. drv'["ctl"] = [drv["ctl"] EXCEPT !.pc = "start"] /\ flag' = flag
          /\ drv["ctl"].pc = "start_wait"
        BY <1>0, <1>9 DEF StartWake, Types, DrvOK
    <2>2. /\ drv'["ctl"].pc = "start" /\ drv'["ctl"].verb = drv["ctl"].verb
          /\ drv'["ctl"].left = drv["ctl"].left /\ drv'["ctl"].set = drv["ctl"].set
          /\ drv'["ctl"].k = drv["ctl"].k /\ drv'["ctl"].wait = drv["ctl"].wait
        BY <1>0, <2>1 DEF DriverState
    <2>3. RoundInv'
        BY <2>1, <2>2 DEF BackInv, RoundInv
    <2>. QED BY <2>1, <2>2, <2>3, UpStep
<1>. QED
    BY <1>2, <1>3, <1>4, <1>5, <1>6, <1>7, <1>8, <1>9 DEF StartWave

\* start_node is no wave.
LEMMA StartNodeWave ==
    ASSUME Types, BackInv, AwaitReadyDep("ctl") \/ SpawnSettled("ctl") \/ SettleWake("ctl")
    PROVE  WaveInv'
<1>0. drv["ctl"] \in DriverState /\ "ctl" \in Driver /\ drv["ctl"].verb # "pool"
    BY DEF Types, DrvOK, Driver, BackInv, CtlOK
<1>. DEFINE Ends == drv'["ctl"] = Idle
            Goes == drv'["ctl"].pc \in Launching /\ drv'["ctl"].verb = drv["ctl"].verb
<1>1. StartNodeDone("ctl") => Ends
    BY <1>0 DEF StartNodeDone, Put, Types, DrvOK
<1>2. ASSUME NEW p \in Launching, NEW a, NEW b, NEW c,
             \/ Put("ctl", [drv["ctl"] EXCEPT !.pc = p, !.left = a, !.mark = b, !.due = c])
             \/ Put("ctl", [drv["ctl"] EXCEPT !.pc = p, !.mark = b])
             \/ Put("ctl", [drv["ctl"] EXCEPT !.pc = p])
      PROVE  Goes
    <2>1. \/ drv'["ctl"] = [drv["ctl"] EXCEPT !.pc = p, !.left = a, !.mark = b, !.due = c]
          \/ drv'["ctl"] = [drv["ctl"] EXCEPT !.pc = p, !.mark = b]
          \/ drv'["ctl"] = [drv["ctl"] EXCEPT !.pc = p]
        BY <1>0, <1>2 DEF Put, Types, DrvOK
    <2>. QED BY <1>0, <2>1 DEF DriverState
<1>3. "ready" \in Launching /\ "ready_wait" \in Launching /\ "settle" \in Launching
      /\ "settle_wait" \in Launching
    BY DEF Launching
<1>. HIDE DEF Ends, Goes
<1>4. CASE AwaitReadyDep("ctl")
    <2>. DEFINE first == FirstOf(drv["ctl"].left)
    <2>1. PICK n \in Node :
          \/ Put("ctl", [drv["ctl"] EXCEPT !.pc = "ready", !.left = @ \ {first}, !.mark = {}, !.due = {}])
          \/ Put("ctl", [drv["ctl"] EXCEPT !.pc = "ready_wait", !.mark = {n}])
          \/ StartNodeDone("ctl")
        BY <1>4 DEF AwaitReadyDep
    <2>. HIDE DEF first
    <2>2. Ends \/ Goes
        BY <1>1, <1>2, <1>3, <2>1
    <2>. QED BY <1>0, <2>2, NoWave DEF Ends, Goes, Launching
<1>5. CASE SpawnSettled("ctl")
    <2>1. PICK n \in Node :
          \/ Put("ctl", [drv["ctl"] EXCEPT !.pc = "settle_wait", !.mark = {n}])
          \/ StartNodeDone("ctl")
        BY <1>5 DEF SpawnSettled
    <2>2. Ends \/ Goes
        BY <1>1, <1>2, <1>3, <2>1
    <2>. QED BY <1>0, <2>2, NoWave DEF Ends, Goes, Launching
<1>6. CASE SettleWake("ctl")
    <2>1. Put("ctl", [drv["ctl"] EXCEPT !.pc = "settle"])
        BY <1>0, <1>6 DEF SettleWake, Put, Types, DrvOK
    <2>2. Goes
        BY <1>2, <1>3, <2>1
    <2>. QED BY <1>0, <2>2, NoWave DEF Goes, Launching
<1>. QED
    BY <1>4, <1>5, <1>6

\* A start wave begins.
LEMMA StartBegins ==
    ASSUME NEW v, v \notin {"pool", "restart"}, NEW X, NEW S, drv'["ctl"] = StartRec(v, X, S)
    PROVE  WaveInv'
<1>1. /\ drv'["ctl"].pc = "start" /\ drv'["ctl"].verb = v /\ drv'["ctl"].k = 1
    BY DEF StartRec, Idle
<1>. QED
    BY <1>1 DEF WaveInv, BackInv, StopInv, CtlOK, AckInv, ToldInv, CleanInv, DownInv, UpInv, RoundInv

\* A stop wave begins, over the running nodes of a set that holds the
\* dependents of its members.
LEMMA StopBegins ==
    ASSUME NEW v, v # "pool", NEW X, NEW C \in SUBSET Node,
           drv'["ctl"] = StopRec(v, X, {n \in C : Running(n)}),
           v \in Cascading => \A m \in Node : Deps[m] \intersect C # {} => m \in C,
           v = "restart" => X = C,
           \A n \in Node : "RUNNING" \in flag'[n] <=> "RUNNING" \in flag[n]
    PROVE  WaveInv'
<1>1. /\ drv'["ctl"].pc = "stop" /\ drv'["ctl"].verb = v /\ drv'["ctl"].set = X
      /\ drv'["ctl"].left = {n \in C : Running(n)}
      /\ drv'["ctl"].mark = {}
    BY DEF StopRec, Idle
<1>2. CleanInv'
    BY <1>1 DEF CleanInv, Running, Has
<1>3. DownInv'
    BY <1>1 DEF DownInv, Running, Has
<1>. QED
    BY <1>1, <1>2, <1>3 DEF WaveInv, BackInv, StopInv, CtlOK, AckInv, ToldInv, UpInv, RoundInv

\* The verbs.
LEMMA VerbWave ==
    ASSUME Types, BackInv, Verb
    PROVE  WaveInv'
<1>0. "ctl" \in Driver /\ \A r : Put("ctl", r) => drv'["ctl"] = r
    BY DEF Types, DrvOK, Driver, Put
<1>1. CASE Start
    BY <1>0, <1>1, StartBegins DEF Start
<1>2. CASE RespawnTerminate
    BY <1>0, <1>2, StartBegins DEF RespawnTerminate
<1>3. CASE Teardown
    <2>1. PICK v \in {"teardown", "teardown_continue"} :
             Put("ctl", StopRec(v, {}, {n \in Node : Running(n)})) /\ flag' = flag
        BY <1>3 DEF Teardown
    <2>2. drv'["ctl"] = StopRec(v, {}, {n \in Node : Running(n)}) /\ Node \in SUBSET Node
        BY <1>0, <2>1
    <2>. QED BY <2>1, <2>2, StopBegins
<1>4. CASE ResumePausable
    <2>1. drv["ctl"] = Idle /\ UNCHANGED drv
        BY <1>4 DEF ResumePausable, Call, BackInv, CtlOK
    <2>. QED BY <2>1, NoWave
<1>5. CASE LeaveRun
    BY <1>0, <1>5, NoWave DEF LeaveRun, EndRun
<1>6. ASSUME NEW t \in Targets, Deactivate(t) PROVE WaveInv'
    <2>. DEFINE C == CollectDependents(Seed(t))
    <2>1. C \in SUBSET Node /\ \A m \in Node : Deps[m] \intersect C # {} => m \in C
        BY VerbSets, DependentsAreClosure
    <2>2. PICK X : drv'["ctl"] = StopRec("deactivate", X, {n \in C : Running(n)})
        BY <1>0, <1>6 DEF Deactivate
    <2>3. \A n \in Node : "RUNNING" \in flag'[n] <=> "RUNNING" \in flag[n]
        BY <1>6, ShellHeld DEF Flag
    <2>4. "deactivate" # "pool" /\ "deactivate" # "restart"
        OBVIOUS
    <2>. HIDE DEF C
    <2>. QED BY <2>1, <2>2, <2>3, <2>4, StopBegins
<1>7. ASSUME NEW t \in Targets, Restart(t) PROVE WaveInv'
    <2>. DEFINE C == CollectDependents(Seed(t))
    <2>1. C \in SUBSET Node /\ \A m \in Node : Deps[m] \intersect C # {} => m \in C
        BY VerbSets, DependentsAreClosure
    <2>2. drv'["ctl"] = StopRec("restart", C, {n \in C : Running(n)}) /\ flag' = flag
        BY <1>0, <1>7 DEF Restart
    <2>. HIDE DEF C
    <2>. QED BY <2>1, <2>2, StopBegins
<1>8. ASSUME NEW t \in Targets, Activate(t) PROVE WaveInv'
    <2>1. PICK S : Put("ctl", StartRec("activate", {}, S))
        BY <1>8 DEF Activate
    <2>. QED BY <1>0, <2>1, StartBegins
<1>9. ASSUME NEW t \in Targets, StartNode(t) \/ StopNode(t) PROVE WaveInv'
    <2>1. drv'["ctl"].pc \in {"ready", "ack_wait"} /\ drv'["ctl"].verb \in {"start_node", "stop_node"}
        BY <1>0, <1>9 DEF StartNode, StopNode, Idle
    <2>. QED BY <2>1, NoWave
<1>. QED
    BY <1>1, <1>2, <1>3, <1>4, <1>5, <1>6, <1>7, <1>8, <1>9 DEF Verb

\* The bind driver stays idle.
LEMMA BindStaysIdle ==
    ASSUME Types, BindIdle, Unbound, [Next]_vars
    PROVE  BindIdle'
<1>0. Driver = {"ctl", "bind"} /\ BindReq = {} /\ ScaleReq \subseteq {"SCALE_REQ"}
    BY SignalsOK DEF Driver, Unbound, BindReq
<1>1. ~ApplyBind /\ ~Rebind
    BY DEF BindIdle, ApplyBind, Rebind, Idle
<1>2. \A r : Put("ctl", r) => drv'["bind"] = drv["bind"]
    BY <1>0 DEF Put, Types, DrvOK
<1>3. EndRun => drv'["bind"] = Idle
    BY <1>0 DEF EndRun
<1>4. CASE UNCHANGED vars
    BY <1>4 DEF vars, BindIdle
<1>5. ASSUME NEW n \in Node, Task(n) PROVE BindIdle'
    BY <1>0, <1>5 DEF Task, Exit, Pause, WaitResume, Park, SetReady, ClearReady, Signal,
                      TaskStep, BindIdle
<1>6. CASE Verb
    BY <1>2, <1>3, <1>6
       DEF Verb, Start, Teardown, RespawnTerminate, ResumePausable, LeaveRun, Deactivate, Activate,
           Restart, StartNode, StopNode, BindIdle
<1>7. ASSUME NEW d \in Driver, Drive(d) \/ Deadline(d) PROVE BindIdle'
    <2>0. d = "ctl"
        BY <1>7, OneDriver
    <2>1. ASSUME Deadline("ctl") PROVE BindIdle'
        BY <1>0, <2>1 DEF Deadline, BindIdle, Types, DrvOK
    <2>2. ASSUME StopRound("ctl") \/ StopWake("ctl") \/ AwaitAck("ctl") PROVE BindIdle'
        <3>1. CASE StopRound("ctl")
            BY <1>2, <1>3, <3>1 DEF StopRound, StopFailed, StopDone, BindIdle
        <3>2. CASE StopWake("ctl")
            BY <1>0, <3>2 DEF StopWake, BindIdle, Types, DrvOK
        <3>3. CASE AwaitAck("ctl")
            BY <1>2, <1>3, <3>3 DEF AwaitAck, StopFailed, BindIdle
        <3>. QED BY <2>2, <3>1, <3>2, <3>3
    <2>3. ASSUME NEW e, StartDone("ctl", e) PROVE BindIdle'
        BY <1>0, <1>2, <1>3, <2>3 DEF StartDone, BindIdle
    <2>4. ASSUME StartWave("ctl") PROVE BindIdle'
        <3>1. CASE VisitDeferred("ctl") \/ VisitResumes("ctl") \/ VisitSpawns("ctl")
                   \/ VisitWaits("ctl") \/ VisitParks("ctl")
            BY <1>2, <3>1 DEF VisitDeferred, VisitResumes, VisitSpawns, VisitWaits, VisitParks,
                              Resolve, BindIdle
        <3>2. CASE VisitFaults("ctl")
            BY <1>2, <2>3, <3>2 DEF VisitFaults, Resolve, BindIdle
        <3>3. CASE EndRound("ctl")
            BY <1>2, <2>3, <3>3 DEF EndRound, BindIdle
        <3>4. CASE StartWake("ctl")
            BY <1>0, <3>4 DEF StartWake, BindIdle, Types, DrvOK
        <3>. QED BY <2>4, <3>1, <3>2, <3>3, <3>4 DEF StartWave
    <2>5. ASSUME AwaitReadyDep("ctl") \/ SpawnSettled("ctl") \/ SettleWake("ctl") PROVE BindIdle'
        <3>1. CASE AwaitReadyDep("ctl")
            BY <1>2, <3>1 DEF AwaitReadyDep, Starting, StartNodeDone, BindIdle
        <3>2. CASE SpawnSettled("ctl")
            BY <1>2, <3>2 DEF SpawnSettled, Starting, StartNodeDone, BindIdle
        <3>3. CASE SettleWake("ctl")
            BY <1>0, <3>3 DEF SettleWake, BindIdle, Types, DrvOK
        <3>. QED BY <2>5, <3>1, <3>2, <3>3
    <2>. QED BY <1>7, <2>0, <2>1, <2>2, <2>4, <2>5 DEF Drive
<1>. QED
    BY <1>1, <1>4, <1>5, <1>6, <1>7 DEF Next

\* The invariant of an unbound graph.
UnboundInv == BindIdle /\ WaveInv /\ \A n \in Node : ShellInv(n)

\* It always holds there.
LEMMA UnboundHold == Unbound /\ Spec => [](Types /\ UnboundInv)
<1>. SUFFICES ASSUME Unbound PROVE Spec => [](Types /\ UnboundInv)
    OBVIOUS
<1>0. NoBoundPause
    BY DEF Unbound, NoBoundPause
<1>. DEFINE J == \A n \in Node : ShellInv(n)
            I == BindIdle /\ WaveInv
<1>1. Init => I
    BY DEF Init, Driver, Idle, BindIdle, WaveInv, BackInv, StopInv, CtlOK, AckInv, ToldInv,
           CleanInv, DownInv, UpInv, RoundInv
<1>2. Types /\ J /\ I /\ [Next]_vars => I'
    <2>. SUFFICES ASSUME Types, J, BindIdle, WaveInv, [Next]_vars PROVE BindIdle' /\ WaveInv'
        OBVIOUS
    <2>1. BindIdle'
        BY BindStaysIdle
    <2>2. ~ApplyBind /\ ~Rebind
        BY DEF BindIdle, ApplyBind, Rebind, Idle
    <2>3. ASSUME NEW d \in Driver, Drive(d) PROVE WaveInv'
        <3>1. d = "ctl"
            BY <2>3, OneDriver
        <3>. QED BY <1>0, <2>3, <3>1, StopRoundWave, StopWakeWave, StartWaveWave, StartNodeWave
                  DEF Drive, WaveInv
    <2>4. WaveInv'
        BY <2>2, <2>3, VerbWave, TaskWave, StillWave DEF Next, WaveInv
    <2>. QED BY <2>1, <2>4
<1>3. Spec => []J
    BY <1>0, ShellsHold, PTL
<1>4. Spec => []I
    BY <1>1, <1>2, <1>3, TypesHold, PTL DEF Spec
<1>. QED
    BY <1>3, <1>4, TypesHold, PTL DEF UnboundInv

----------------------------------------------------------------------------
(* The waves of the control driver next to the bind driver, on a graph     *)
(* that binds no Pause node.                                               *)

\* A step of one driver leaves the other where it is, or run() ends.
LEMMA StepOfOne ==
    ASSUME Types, NEW d \in Driver, NEW e \in Driver, e # d, Drive(d) \/ Deadline(d)
    PROVE  drv'[e] \in {drv[e], Idle}
<1>1. \A r : Put(d, r) => drv'[e] = drv[e]
    BY DEF Put, Types, DrvOK
<1>2. EndRun => drv'[e] = Idle
    BY DEF EndRun
<1>3. \A x : drv' = [drv EXCEPT ![d] = x] => drv'[e] = drv[e]
    BY DEF Types, DrvOK
<1>4. CASE StopRound(d)
    BY <1>1, <1>2, <1>4 DEF StopRound, StopFailed, StopDone
<1>5. CASE StopWake(d) \/ StartWake(d) \/ SettleWake(d) \/ Deadline(d)
    BY <1>3, <1>5 DEF StopWake, StartWake, SettleWake, Deadline
<1>6. CASE AwaitAck(d)
    BY <1>1, <1>2, <1>6 DEF AwaitAck, StopFailed
<1>7. ASSUME NEW x, StartDone(d, x) PROVE drv'[e] \in {drv[e], Idle}
    BY <1>1, <1>2, <1>7 DEF StartDone
<1>8. CASE VisitDeferred(d) \/ VisitResumes(d) \/ VisitSpawns(d) \/ VisitWaits(d) \/ VisitParks(d)
    BY <1>1, <1>8 DEF VisitDeferred, VisitResumes, VisitSpawns, VisitWaits, VisitParks, Resolve
<1>9. CASE VisitFaults(d)
    BY <1>1, <1>7, <1>9 DEF VisitFaults, Resolve
<1>10. CASE EndRound(d)
    BY <1>1, <1>7, <1>10 DEF EndRound
<1>11. CASE AwaitReadyDep(d)
    BY <1>1, <1>11 DEF AwaitReadyDep, StartNodeDone
<1>12. CASE SpawnSettled(d)
    BY <1>1, <1>12 DEF SpawnSettled, StartNodeDone
<1>. QED
    BY <1>4, <1>5, <1>6, <1>8, <1>9, <1>10, <1>11, <1>12 DEF Drive, StartWave

\* The bind driver stops and starts no Pause node.
SparesPause(r) ==
    /\ r.pc \in {"idle", "stop", "stop_wait", "rebind"} \union Launching
    /\ r.pc \in {"stop", "stop_wait"} =>
          r.verb = "bind" /\ \A n \in r.left : Mode[n] # "Pause"
    /\ r.pc \in Launching => \A n \in r.set : Mode[n] # "Pause"

\* Between two of its rounds it is not in a launch.
LEMMA SparesIdle == SparesPause(Idle) /\ SparesPause([Idle EXCEPT !.pc = "rebind", !.verb = "bind"])
BY DEF SparesPause, Idle, Launching

\* The next record of the bind driver.
LEMMA SparesKept ==
    ASSUME Types, NoBoundPause, SparesPause(drv["bind"]), \A n \in Node : ShellInv(n),
           Drive("bind") \/ ApplyBind \/ Rebind
    PROVE  SparesPause(drv'["bind"])
<1>. DEFINE r == drv["bind"]
            S == SparesPause(drv'["bind"])
<1>0. r \in DriverState /\ "bind" \in Driver /\ SparesPause(r)
    BY DEF Types, DrvOK, Driver
<1>1. \A x : Put("bind", x) => drv'["bind"] = x
    BY DEF Put, Types, DrvOK, Driver
<1>2. StopFailed("bind") => S
    BY <1>0, <1>1, SparesIdle DEF StopFailed, EndRun
<1>3. CASE StopRound("bind")
    <2>. DEFINE sent == r.mark \union {j \in r.left : ~HeldInWave(j, r.left)}
                acked == {j \in r.left : Has(j, "DROPPED")}
                late == IF acked = {} THEN sent \intersect r.due ELSE {}
                left == r.left \ (acked \union late)
                q == [r EXCEPT !.left = left, !.mark = sent \intersect left,
                              !.due = r.due \intersect left,
                              !.pc = IF acked = {} /\ late = {}
                                     THEN "stop_wait" ELSE "stop"]
    <2>1. r.pc = "stop" /\ r.verb = "bind"
        BY <1>0, <1>3 DEF StopRound, SparesPause
    <2>2. StopFailed("bind") \/ StopDone("bind") \/ Put("bind", q)
        BY <1>3 DEF StopRound
    <2>3. StopDone("bind") => S
        BY <1>1, <2>1, SparesIdle DEF StopDone
    <2>4. SparesPause(q)
        <3>1. q.pc \in {"stop", "stop_wait"} /\ q.verb = r.verb /\ q.left \subseteq r.left
            <4>. HIDE DEF sent, late, acked
            <4>. QED BY <1>0 DEF DriverState
        <3>. HIDE DEF q, r
        <3>. QED BY <1>0, <2>1, <3>1 DEF SparesPause, Launching
    <2>. HIDE DEF q
    <2>. QED BY <1>1, <1>2, <2>2, <2>3, <2>4
<1>4. CASE StopWake("bind")
    <2>1. drv'["bind"] = [r EXCEPT !.pc = "stop"] /\ r.pc = "stop_wait"
        BY <1>0, <1>4 DEF StopWake, Types, DrvOK
    <2>. QED BY <1>0, <2>1 DEF SparesPause, DriverState, Launching
<1>5. ~AwaitAck("bind") /\ ~StartWave("bind")
    <2>1. r.pc \notin {"ack_wait", "start", "start_wait"}
        BY <1>0 DEF SparesPause, Launching
    <2>. QED BY <2>1 DEF AwaitAck, StartWave, VisitDeferred, VisitResumes, VisitSpawns, VisitWaits,
                         VisitParks, VisitFaults, Visits, EndRound, StartWake
<1>6. StartNodeDone("bind") => S
    <2>1. ASSUME StartNodeDone("bind") PROVE drv'["bind"].pc = "rebind"
        BY <1>1, <2>1 DEF StartNodeDone, Idle
    <2>. QED BY <2>1 DEF SparesPause, Launching
<1>7. ASSUME NEW x, Put("bind", x), r.pc \in Launching, x.pc \in Launching, x.set = r.set PROVE S
    BY <1>0, <1>1, <1>7 DEF SparesPause, Launching
<1>8. AwaitReadyDep("bind") \/ SpawnSettled("bind") \/ SettleWake("bind") => r.pc \in Launching
    BY DEF AwaitReadyDep, SpawnSettled, SettleWake, Starting, Launching
<1>9. CASE AwaitReadyDep("bind")
    <2>. DEFINE first == FirstOf(r.left)
                a == [r EXCEPT !.pc = "ready", !.left = @ \ {first}, !.mark = {}, !.due = {}]
    <2>1. PICK n \in Node : \/ Put("bind", a) \/ Put("bind", [r EXCEPT !.pc = "ready_wait", !.mark = {n}])
                            \/ StartNodeDone("bind")
        BY <1>9 DEF AwaitReadyDep
    <2>. HIDE DEF first
    <2>. DEFINE b == [r EXCEPT !.pc = "ready_wait", !.mark = {n}]
    <2>2. a.pc \in Launching /\ a.set = r.set /\ b.pc \in Launching /\ b.set = r.set
        BY <1>0 DEF DriverState, Launching
    <2>3. Put("bind", a) \/ Put("bind", b) \/ StartNodeDone("bind")
        BY <2>1
    <2>. HIDE DEF a, b, r
    <2>. QED BY <1>6, <1>7, <1>8, <1>9, <2>2, <2>3
<1>10. CASE SpawnSettled("bind")
    <2>1. PICK n \in Node : \/ Put("bind", [r EXCEPT !.pc = "settle_wait", !.mark = {n}])
                            \/ StartNodeDone("bind")
        BY <1>10 DEF SpawnSettled
    <2>. DEFINE b == [r EXCEPT !.pc = "settle_wait", !.mark = {n}]
    <2>2. b.pc \in Launching /\ b.set = r.set
        BY <1>0 DEF DriverState, Launching
    <2>3. Put("bind", b) \/ StartNodeDone("bind")
        BY <2>1
    <2>. HIDE DEF b, r
    <2>. QED BY <1>6, <1>7, <1>8, <1>10, <2>2, <2>3
<1>11. CASE SettleWake("bind")
    <2>. DEFINE b == [r EXCEPT !.pc = "settle"]
    <2>1. Put("bind", b)
        BY <1>0, <1>11 DEF SettleWake, Put, Types, DrvOK
    <2>2. b.pc \in Launching /\ b.set = r.set
        BY <1>0 DEF DriverState, Launching
    <2>. HIDE DEF b, r
    <2>. QED BY <1>7, <1>8, <1>11, <2>1, <2>2
<1>12. CASE ApplyBind
    <2>1. drv'["bind"] = StopRec("bind", {}, BoundStopping)
        BY <1>1, <1>12 DEF ApplyBind
    <2>2. \A n \in BoundStopping : Mode[n] # "Pause"
        BY BoundStoppingIs DEF NoBoundPause
    <2>. QED BY <2>1, <2>2 DEF SparesPause, StopRec, Idle, Launching
<1>13. CASE Rebind
    <2>0. r.pc = "rebind"
        BY <1>13 DEF Rebind
    <2>1. \/ Put("bind", Idle)
          \/ \E i, n : Mode[n] = "Terminate"
                /\ Put("bind", [r EXCEPT !.pc = "ready", !.set = {n}, !.left = ReadyDeps[n], !.k = i + 1])
          \/ \E i : Put("bind", [r EXCEPT !.k = i + 1])
        BY <1>13, RebindAt
    <2>2. CASE Put("bind", Idle)
        BY <1>1, <2>2, SparesIdle
    <2>3. ASSUME NEW i, NEW n, Mode[n] = "Terminate",
                 Put("bind", [r EXCEPT !.pc = "ready", !.set = {n}, !.left = ReadyDeps[n], !.k = i + 1])
          PROVE  S
        <3>1. drv'["bind"].pc = "ready" /\ drv'["bind"].set = {n}
            BY <1>0, <1>1, <2>3 DEF DriverState
        <3>. QED BY <2>3, <3>1 DEF SparesPause, Launching
    <2>4. ASSUME NEW i, Put("bind", [r EXCEPT !.k = i + 1]) PROVE S
        <3>1. drv'["bind"].pc = "rebind"
            BY <1>0, <1>1, <2>0, <2>4 DEF DriverState
        <3>. QED BY <3>1 DEF SparesPause, Launching
    <2>. QED BY <2>1, <2>2, <2>3, <2>4
<1>. QED
    BY <1>3, <1>4, <1>5, <1>9, <1>10, <1>11, <1>12, <1>13 DEF Drive

\* A node that is up, or says why not, goes on to, unless it is a Pause node that
\* was asked to stop.
LEMMA StaysUp ==
    ASSUME Types, NEW n \in Node, ShellInv(n), Effect(n), Mode[n] # "OnDemand", ~AsksPause(n),
           flag[n] \intersect Stay # {}
    PROVE  flag'[n] \intersect Stay # {}
<1>1. flag[n] \subseteq Flag
    BY DEF Types, DataOK
<1>2. CASE Kept(n)
    BY <1>2 DEF Kept
<1>3. CASE Launched(n) \/ Resumed(n)
    BY <1>3 DEF Launched, Resumed, Stay
<1>4. CASE Stopped(n)
    <2>1. PICK a \in SUBSET {"SHUTDOWN"}, b \in SUBSET {"RUNNING"} :
             flag'[n] = (flag[n] \union a) \ b /\ (b # {} => Has(n, "DROPPED"))
        BY <1>4 DEF Stopped
    <2>2. b # {} => "RUNNING" \notin flag[n]
        BY <2>1, DroppedIsDown DEF Has
    <2>. QED BY <2>1, <2>2 DEF Stay
<1>5. CASE BoundMarked(n)
    BY <1>5 DEF BoundMarked, Stay
<1>6. CASE Tasked(n)
    <2>1. CASE flag'[n] = (flag[n] \ {"RUNNING"}) \union {"COMPLETED", "DROPPED"}
        BY <2>1 DEF Stay
    <2>2. CASE AsksPause(n)
        BY <2>2
    <2>3. CASE \/ flag'[n] = flag[n] \/ flag'[n] = flag[n] \union {"READY"}
               \/ flag'[n] = flag[n] \ {"READY"}
        BY <2>3 DEF Stay
    <2>. QED BY <1>6, <2>1, <2>2, <2>3 DEF Tasked, ShellInv, AsksPause
<1>. QED
    BY <1>2, <1>3, <1>4, <1>5, <1>6 DEF Effect

\* The bind driver is steady.
LEMMA BindSteady ==
    ASSUME Types, NoBoundPause, SparesPause(drv["bind"]), \A n \in Node : ShellInv(n),
           Drive("bind") \/ ApplyBind \/ Rebind, NEW n \in Node
    PROVE  Steady(n)
<1>0. "bind" \in Driver
    BY DEF Driver
<1>1. Effect(n)
    BY <1>0, BindEffect, StopEffect, StartEffect, StartNodeEffect DEF Drive
<1>2. ASSUME Mode[n] = "Pause"
      PROVE  /\ "RUNNING" \in flag'[n] => "RUNNING" \in flag[n]
             /\ "SHUTDOWN" \in flag'[n] => "SHUTDOWN" \in flag[n]
    <2>. DEFINE G == /\ "RUNNING" \in flag'[n] => "RUNNING" \in flag[n]
                     /\ "SHUTDOWN" \in flag'[n] => "SHUTDOWN" \in flag[n]
    <2>0. flag \in [Node -> SUBSET Flag]
        BY DEF Types, DataOK
    <2>1. CASE StopRound("bind")
        <3>1. n \notin drv["bind"].left
            BY <1>2, <2>1 DEF SparesPause, StopRound
        <3>. QED BY <2>1, <3>1 DEF StopRound
    <2>2. CASE UNCHANGED flag
        BY <2>2
    <2>3. ASSUME NEW m \in Node, NEW f,
                 \/ flag' = [flag EXCEPT ![m] = @ \ {f}]
                 \/ flag' = [flag EXCEPT ![m] = @ \union {"BOUND_STOPPED"}]
          PROVE  G
        BY <2>0, <2>3
    <2>4. CASE AwaitReadyDep("bind")
        <3>1. PICK m \in Node : \/ UNCHANGED flag
                                \/ flag' = [flag EXCEPT ![m] = @ \union {"BOUND_STOPPED"}]
            BY <2>0, <2>4 DEF AwaitReadyDep
        <3>. QED BY <2>2, <2>3, <3>1
    <2>5. CASE SpawnSettled("bind")
        <3>1. PICK m \in Node : Starting("bind", {"ready", "settle"}, m) /\ (Launch(m) \/ UNCHANGED flag)
            BY <2>5 DEF SpawnSettled
        <3>2. m # n
            BY <1>2, <3>1 DEF Starting, SparesPause, Launching
        <3>. QED BY <2>0, <3>1, <3>2 DEF Launch
    <2>6. ~AwaitAck("bind") /\ ~StartWave("bind")
        <3>1. drv["bind"].pc \notin {"ack_wait", "start", "start_wait"}
            BY DEF SparesPause, Launching
        <3>. QED BY <3>1 DEF AwaitAck, StartWave, VisitDeferred, VisitResumes, VisitSpawns, VisitWaits,
                             VisitParks, VisitFaults, Visits, EndRound, StartWake
    <2>7. CASE ApplyBind
        BY <2>7 DEF ApplyBind
    <2>8. CASE Rebind
        <3>1. ASSUME NEW m \in Node, m \in Rebindable, Mode[m] = "Pause" PROVE FALSE
            BY <3>1 DEF Rebindable, NoBoundPause, ShellInv, Has
        <3>2. \/ UNCHANGED flag
              \/ \E m \in Node : \/ flag' = [flag EXCEPT ![m] = @ \ {"COLLATERAL"}]
                                 \/ flag' = [flag EXCEPT ![m] = @ \ {"BOUND_STOPPED"}]
            BY <2>8, <3>1, RebindAt
        <3>. QED BY <2>2, <2>3, <3>2
    <2>9. StopWake("bind") \/ SettleWake("bind") => UNCHANGED flag
        BY DEF StopWake, SettleWake
    <2>. QED BY <2>1, <2>2, <2>4, <2>5, <2>6, <2>7, <2>8, <2>9 DEF Drive
<1>. QED
    BY <1>1, <1>2, StaysUp DEF Steady

\* What a restart rests on holds on a graph that binds no Pause node.
RestartInv == BackInv /\ SparesPause(drv["bind"])

\* It always holds there.
LEMMA RestartHold ==
    NoBoundPause /\ Spec => [](Types /\ RestartInv)
<1>. SUFFICES ASSUME NoBoundPause PROVE Spec => [](Types /\ RestartInv)
    OBVIOUS
<1>. DEFINE J == \A n \in Node : ShellInv(n)
<1>1. Init => RestartInv
    <2>. SUFFICES ASSUME Init PROVE RestartInv
        OBVIOUS
    <2>1. drv["ctl"] = Idle /\ drv["bind"] = Idle
        BY DEF Init, Driver
    <2>. QED BY <2>1, SparesIdle DEF RestartInv, BackInv, CtlOK, DownInv, UpInv, RoundInv, Idle
<1>2. Types /\ J /\ RestartInv /\ [Next]_vars => RestartInv'
    <2>. SUFFICES ASSUME Types, J, RestartInv, [Next]_vars PROVE RestartInv'
        OBVIOUS
    <2>0. /\ BackInv /\ SparesPause(drv["bind"]) /\ "ctl" \in Driver /\ "bind" \in Driver
          /\ "ctl" # "bind"
        BY DEF RestartInv, Driver
    <2>1. BackInv'
        <3>1. CASE Drive("ctl")
            BY <2>0, <3>1, StopRoundWave, StopWakeWave, StartWaveWave, StartNodeWave DEF Drive, WaveInv
        <3>2. CASE Drive("bind") \/ ApplyBind \/ Rebind
            <4>1. drv'["ctl"] = Idle \/ drv'["ctl"] = drv["ctl"]
                <5>1. Drive("bind") => drv'["ctl"] \in {drv["ctl"], Idle}
                    BY <2>0, StepOfOne
                <5>2. \A x : Put("bind", x) => drv'["ctl"] = drv["ctl"]
                    BY <2>0 DEF Put, Types, DrvOK
                <5>3. ApplyBind => drv'["ctl"] = drv["ctl"]
                    BY <5>2 DEF ApplyBind
                <5>4. Rebind => drv'["ctl"] = drv["ctl"]
                    BY <5>2, RebindAt
                <5>. QED BY <3>2, <5>1, <5>3, <5>4
            <4>2. CASE drv'["ctl"] = Idle
                BY <4>2, NoWave DEF WaveInv
            <4>3. CASE drv'["ctl"] = drv["ctl"]
                <5>1. SameWave(drv'["ctl"], drv["ctl"]) /\ CtlOK'
                    BY <2>0, <4>3 DEF SameWave, BackInv, CtlOK
                <5>. QED BY <2>0, <3>2, <5>1, BindSteady, SteadyWave
            <4>. QED BY <4>1, <4>2, <4>3
        <3>. QED BY <2>0, <3>1, <3>2, VerbWave, TaskWave, StillWave DEF Next, WaveInv, Driver
    <2>2. SparesPause(drv'["bind"])
        <3>1. CASE drv'["bind"] = Idle
            BY <3>1, SparesIdle
        <3>2. CASE drv'["bind"] = drv["bind"]
            BY <2>0, <3>2
        <3>3. CASE Drive("bind") \/ ApplyBind \/ Rebind
            BY <2>0, <3>3, SparesKept
        <3>4. ASSUME NEW d \in Driver, d # "bind", Drive(d) \/ Deadline(d)
              PROVE  drv'["bind"] \in {drv["bind"], Idle}
            BY <2>0, <3>4, StepOfOne
        <3>5. CASE Deadline("bind")
            <4>1. PICK n : drv' = [drv EXCEPT !["bind"].due = @ \union {n}]
                BY <3>5 DEF Deadline
            <4>2. drv["bind"] \in DriverState
                BY <2>0 DEF Types, DrvOK
            <4>3. /\ drv'["bind"].pc = drv["bind"].pc /\ drv'["bind"].verb = drv["bind"].verb
                  /\ drv'["bind"].left = drv["bind"].left /\ drv'["bind"].set = drv["bind"].set
                BY <2>0, <4>1, <4>2 DEF Types, DrvOK, DriverState
            <4>. QED BY <2>0, <4>3 DEF SparesPause
        <3>6. Verb => drv'["bind"] \in {drv["bind"], Idle}
            <4>1. \A x : Put("ctl", x) => drv'["bind"] = drv["bind"]
                BY <2>0 DEF Put, Types, DrvOK
            <4>2. EndRun => drv'["bind"] = Idle
                BY <2>0 DEF EndRun
            <4>. QED BY <4>1, <4>2
                 DEF Verb, Start, Teardown, RespawnTerminate, ResumePausable, LeaveRun, Deactivate,
                     Activate, Restart, StartNode, StopNode
        <3>7. ASSUME NEW n \in Node, Task(n) PROVE drv'["bind"] = drv["bind"]
            BY <3>7 DEF Task, Exit, Pause, WaitResume, Park, SetReady, ClearReady, TaskStep
        <3>8. UNCHANGED vars => drv'["bind"] = drv["bind"]
            BY DEF vars
        <3>. QED BY <3>1, <3>2, <3>3, <3>4, <3>5, <3>6, <3>7, <3>8 DEF Next
    <2>. QED BY <2>1, <2>2 DEF RestartInv
<1>3. Spec => []J
    BY ShellsHold, PTL
<1>. QED
    BY <1>1, <1>2, <1>3, TypesHold, PTL DEF Spec

----------------------------------------------------------------------------
(* The wait of a stop wave, next to a bind driver that may wait too.       *)

\* STOP_EVT is one signal for all stop waves: no two wait for it at once.
OneWaits == \E d \in Driver : drv[d].pc # "stop_wait"

\* It always holds on an unbound graph, whose bind driver stays idle.
LEMMA UnboundOneWaits == Unbound /\ Spec => []OneWaits
<1>1. Types /\ UnboundInv => OneWaits
    BY DEF UnboundInv, BindIdle, OneWaits, Driver, Idle
<1>. QED BY <1>1, UnboundHold, PTL

\* A driver and a verb ack for nobody.
LEMMA NobodyAcks ==
    ASSUME Types, NEW n \in Node, "DROPPED" \in flag'[n],
           Verb \/ ApplyBind \/ Rebind \/ \E d \in Driver : Drive(d) \/ Deadline(d)
    PROVE  "DROPPED" \in flag[n]
<1>0. flag \in [Node -> SUBSET Flag]
    BY DEF Types, DataOK
<1>1. CASE UNCHANGED flag
    BY <1>1
<1>2. ASSUME NEW m \in Node, NEW f,
             \/ flag' = [flag EXCEPT ![m] = @ \ {f}]
             \/ f # "DROPPED" /\ flag' = [flag EXCEPT ![m] = @ \union {f}]
      PROVE  "DROPPED" \in flag[n]
    BY <1>0, <1>2
<1>3. ASSUME NEW m \in Node, Launch(m) PROVE "DROPPED" \in flag[n]
    BY <1>0, <1>3 DEF Launch, ResetMask
<1>4. ASSUME NEW S, NEW c, Resume(S, c) PROVE "DROPPED" \in flag[n]
    BY <1>4 DEF Resume, ResetMask
<1>5. CASE ApplyBind
    BY <1>5 DEF ApplyBind
<1>6. CASE Rebind
    BY <1>1, <1>2, <1>4, <1>6, RebindAt
<1>7. ASSUME NEW d \in Driver, StopRound(d) \/ StopWake(d) \/ AwaitAck(d)
      PROVE  "DROPPED" \in flag[n]
    <2>1. CASE StopRound(d)
        BY <2>1 DEF StopRound
    <2>2. CASE AwaitAck(d)
        <3>0. drv[d].left \subseteq Node
            BY DEF Types, DrvOK, DriverState
        <3>1. \/ UNCHANGED flag
              \/ \E m \in Node : flag' = [flag EXCEPT ![m] = @ \ {"RUNNING"}]
            BY <2>2, <3>0 DEF AwaitAck
        <3>. QED BY <1>1, <1>2, <3>1
    <2>. QED BY <1>1, <1>7, <2>1, <2>2 DEF StopWake
<1>8. ASSUME NEW d \in Driver, StartWave(d) PROVE "DROPPED" \in flag[n]
    <2>1. CASE VisitResumes(d)
        BY <1>4, <2>1 DEF VisitResumes
    <2>2. CASE VisitSpawns(d)
        BY <1>3, <2>2 DEF VisitSpawns
    <2>3. CASE VisitParks(d)
        <3>1. "BOUND_STOPPED" # "DROPPED"
            OBVIOUS
        <3>. QED BY <1>2, <2>3, <3>1 DEF VisitParks
    <2>. QED BY <1>1, <1>8, <2>1, <2>2, <2>3
             DEF StartWave, VisitDeferred, VisitWaits, VisitFaults, EndRound, StartWake
<1>9. ASSUME NEW d \in Driver, AwaitReadyDep(d) \/ SpawnSettled(d) \/ SettleWake(d)
      PROVE  "DROPPED" \in flag[n]
    <2>1. CASE AwaitReadyDep(d)
        <3>1. \/ UNCHANGED flag
              \/ \E m \in Node : flag' = [flag EXCEPT ![m] = @ \union {"BOUND_STOPPED"}]
            BY <1>0, <2>1 DEF AwaitReadyDep
        <3>2. "BOUND_STOPPED" # "DROPPED"
            OBVIOUS
        <3>. QED BY <1>1, <1>2, <3>1, <3>2
    <2>2. CASE SpawnSettled(d)
        <3>1. UNCHANGED flag \/ \E m \in Node : Launch(m)
            BY <2>2 DEF SpawnSettled
        <3>. QED BY <1>1, <1>3, <3>1
    <2>. QED BY <1>1, <1>9, <2>1, <2>2 DEF SettleWake
<1>10. CASE Verb
    <2>1. ASSUME NEW t \in Targets, Deactivate(t) \/ Activate(t) PROVE "DROPPED" \in flag[n]
        BY <2>1, ShellHeld DEF Flag
    <2>2. ASSUME NEW t \in Targets, StopNode(t) PROVE "DROPPED" \in flag[n]
        BY <1>0, <2>2 DEF StopNode
    <2>3. CASE ResumePausable
        BY <1>4, <2>3 DEF ResumePausable
    <2>. QED BY <1>1, <1>10, <2>1, <2>2, <2>3
             DEF Verb, Start, Teardown, RespawnTerminate, LeaveRun, Restart, StartNode
<1>. QED
    BY <1>1, <1>5, <1>6, <1>7, <1>8, <1>9, <1>10 DEF Drive, Deadline

\* A driver comes to wait for a stop by a scan that has found nothing.
LEMMA WaitsAfterScan ==
    ASSUME Types, NEW d \in Driver, Drive(d), drv'[d].pc = "stop_wait",
           NEW n \in drv'[d].mark
    PROVE  "DROPPED" \notin flag'[n]
<1>. DEFINE r == drv[d]
<1>0. r \in DriverState
    BY DEF Types, DrvOK
<1>1. \A x : Put(d, x) => drv'[d] = x
    BY DEF Put, Types, DrvOK
<1>2. Idle.pc # "stop_wait" /\ (EndRun => drv'[d] = Idle)
    BY DEF Idle, EndRun
<1>3. ~StopFailed(d)
    BY <1>1, <1>2 DEF StopFailed
<1>4. CASE StopRound(d)
    <2>. DEFINE sent == r.mark \union {j \in r.left : ~HeldInWave(j, r.left)}
                acked == {j \in r.left : Has(j, "DROPPED")}
                late == IF acked = {} THEN sent \intersect r.due ELSE {}
                left == r.left \ (acked \union late)
                q == [r EXCEPT !.left = left, !.mark = sent \intersect left,
                              !.due = r.due \intersect left,
                              !.pc = IF acked = {} /\ late = {}
                                     THEN "stop_wait" ELSE "stop"]
    <2>1. ASSUME StopDone(d) PROVE drv'[d].pc # "stop_wait"
        <3>1. \A v, X, S : StartRec(v, X, S).pc # "stop_wait"
            BY DEF StartRec, Idle
        <3>2. [Idle EXCEPT !.pc = "rebind", !.verb = "bind"].pc # "stop_wait"
            BY DEF Idle
        <3>3. PICK x : Put(d, x) /\ x.pc # "stop_wait"
            BY <1>2, <2>1, <3>1, <3>2 DEF StopDone
        <3>. QED BY <1>1, <3>3
    <2>2. drv'[d] = q
        BY <1>1, <1>3, <1>4, <2>1 DEF StopRound
    <2>3. n \in left /\ n \in Node
        <3>1. q.mark = sent \intersect left
            <4>. HIDE DEF left, sent, late, acked
            <4>. QED BY <1>0 DEF DriverState
        <3>2. r.left \subseteq Node
            BY <1>0 DEF DriverState
        <3>. QED BY <2>2, <3>1, <3>2
    <2>4. "DROPPED" \notin flag[n]
        BY <2>3 DEF Has
    <2>. QED BY <1>4, <2>3, <2>4, NobodyAcks DEF Drive
<1>5. ~StopWake(d)
    BY <1>0, <1>1 DEF StopWake, Types, DrvOK, DriverState
<1>6. ~AwaitAck(d)
    BY <1>1, <1>2, <1>3 DEF AwaitAck
<1>7. ~StartWave(d)
    <2>1. ASSUME NEW e, StartDone(d, e) PROVE FALSE
        BY <1>1, <1>2, <2>1 DEF StartDone
    <2>2. ASSUME NEW m, NEW e, r.pc = "start", Resolve(d, m, e) PROVE FALSE
        <3>. DEFINE b == r.err \/ e
                    q == [r EXCEPT !.left = @ \ {m}, !.mark = @ \ {m}, !.due = @ \ {m},
                                   !.err = b, !.prog = TRUE, !.k = Cursor(d) + 1]
        <3>1. drv'[d] = q
            BY <1>1, <2>2 DEF Resolve
        <3>. HIDE DEF b
        <3>2. q.pc = "start"
            BY <1>0, <2>2 DEF DriverState
        <3>. QED BY <3>1, <3>2
    <2>3. ASSUME NEW m, r.pc = "start",
                 \/ Put(d, [r EXCEPT !.wait = TRUE, !.k = Cursor(d) + 1])
                 \/ Put(d, [r EXCEPT !.mark = @ \union {m}, !.wait = TRUE, !.k = Cursor(d) + 1])
          PROVE  FALSE
        BY <1>0, <1>1, <2>3 DEF DriverState
    <2>4. ~VisitDeferred(d) /\ ~VisitWaits(d)
        BY <2>3 DEF VisitDeferred, VisitWaits, Visits
    <2>5. ~VisitResumes(d) /\ ~VisitSpawns(d) /\ ~VisitParks(d)
        BY <2>2 DEF VisitResumes, VisitSpawns, VisitParks, Visits
    <2>6. ~VisitFaults(d)
        BY <2>1, <2>2 DEF VisitFaults, Visits
    <2>7. ~EndRound(d)
        <3>. DEFINE q == [r EXCEPT !.pc = IF r.prog THEN "start" ELSE "start_wait",
                                !.k = 1, !.prog = FALSE, !.wait = FALSE]
        <3>1. q.pc # "stop_wait"
            BY <1>0 DEF DriverState
        <3>2. EndRound(d) => drv'[d] = q
            BY <1>1, <2>1 DEF EndRound
        <3>. QED BY <3>1, <3>2
    <2>8. ~StartWake(d)
        BY <1>0 DEF StartWake, Types, DrvOK, DriverState
    <2>. QED BY <2>4, <2>5, <2>6, <2>7, <2>8 DEF StartWave
<1>8. ~StartNodeDone(d)
    <2>1. StartNodeDone(d) => drv'[d].pc # "stop_wait"
        BY <1>1, <1>2 DEF StartNodeDone, Idle
    <2>. QED BY <2>1
<1>9. ~AwaitReadyDep(d)
    <2>. DEFINE first == FirstOf(r.left)
                a == [r EXCEPT !.pc = "ready", !.left = @ \ {first}, !.mark = {}, !.due = {}]
    <2>1. AwaitReadyDep(d) =>
             drv'[d] = a \/ \E m : drv'[d] = [r EXCEPT !.pc = "ready_wait", !.mark = {m}]
        BY <1>1, <1>8 DEF AwaitReadyDep
    <2>. HIDE DEF first
    <2>. QED BY <1>0, <2>1 DEF DriverState
<1>10. ~SpawnSettled(d)
    <2>1. SpawnSettled(d) => \E m : drv'[d] = [r EXCEPT !.pc = "settle_wait", !.mark = {m}]
        BY <1>1, <1>8 DEF SpawnSettled
    <2>. QED BY <1>0, <2>1 DEF DriverState
<1>11. ~SettleWake(d)
    BY <1>0 DEF SettleWake, Types, DrvOK, DriverState
<1>. QED
    BY <1>4, <1>5, <1>6, <1>7, <1>9, <1>10, <1>11 DEF Drive

\* A step takes an ack's signal only for the wave that waits for it.
LEMMA SignalStays ==
    ASSUME Types, [Next]_vars, "STOP_EVT" \in evt, "STOP_EVT" \notin evt'
    PROVE  \E d \in Driver : StopWake(d)
<1>1. ~UNCHANGED evt
    OBVIOUS
<1>2. ASSUME NEW n \in Node, Task(n) PROVE FALSE
    BY <1>2 DEF Task, Exit, Pause, WaitResume, Park, SetReady, ClearReady, Signal
<1>3. ~Verb
    BY DEF Verb, Start, Teardown, RespawnTerminate, ResumePausable, LeaveRun, Deactivate, Activate,
           Restart, StartNode, StopNode
<1>4. ~ApplyBind
    BY DEF ApplyBind
<1>5. ~Rebind
    BY <1>1, RebindAt
<1>6. ASSUME NEW d \in Driver, Drive(d) \/ Deadline(d), ~StopWake(d) PROVE FALSE
    <2>1. ASSUME NEW e, StartDone(d, e) PROVE FALSE
        BY <2>1 DEF StartDone
    <2>2. ~StartWave(d)
        BY <2>1 DEF StartWave, VisitDeferred, VisitResumes, VisitSpawns, VisitWaits, VisitParks,
                    VisitFaults, Visits, EndRound, StartWake
    <2>. QED BY <1>6, <2>2
             DEF Drive, Deadline, StopRound, AwaitAck, AwaitReadyDep, SpawnSettled, SettleWake,
                 Starting
<1>. QED
    BY <1>1, <1>2, <1>3, <1>4, <1>5, <1>6 DEF Next, vars

\* What a wave waits for was not acked at its last scan, and an ack since then
\* has left its signal, which no other wave was there to take.
LEMMA ScanKept ==
    ASSUME Types, OneWaits, ScanOnEachAck, [Next]_vars
    PROVE  ScanOnEachAck'
<1>. SUFFICES ASSUME NEW e \in Driver, drv'[e].pc = "stop_wait", NEW n \in drv'[e].mark,
                     "DROPPED" \in flag'[n]
              PROVE  "STOP_EVT" \in evt'
    BY DEF ScanOnEachAck, Has
<1>0. /\ Idle.pc # "stop_wait" /\ drv[e] \in DriverState /\ drv'[e] # Idle
      /\ \A d \in Driver : d # e => drv[d].pc # "stop_wait" \/ drv[e].pc # "stop_wait"
    BY DEF Idle, Types, DrvOK, OneWaits, Driver
<1>1. ASSUME drv[e].pc = "stop_wait", drv'[e].mark = drv[e].mark,
             "DROPPED" \in flag[n] \/ "STOP_EVT" \in evt', ~StopWake(e)
      PROVE  "STOP_EVT" \in evt'
    <2>. SUFFICES ASSUME "DROPPED" \in flag[n] PROVE "STOP_EVT" \in evt'
        BY <1>1
    <2>1. "STOP_EVT" \in evt
        BY <1>1 DEF ScanOnEachAck, Has
    <2>2. ~ \E d \in Driver : StopWake(d)
        BY <1>0, <1>1 DEF StopWake
    <2>. QED BY <2>1, <2>2, SignalStays
<1>2. ~StopWake(e)
    BY <1>0 DEF StopWake, Types, DrvOK, DriverState
<1>3. ASSUME NEW m \in Node, Task(m) PROVE "STOP_EVT" \in evt'
    <2>1. drv' = drv
        BY <1>3 DEF Task, Exit, Pause, WaitResume, Park, SetReady, ClearReady, TaskStep
    <2>2. n \in Node
        BY <1>0, <2>1 DEF DriverState
    <2>3. "DROPPED" \in flag[n] \/ "STOP_EVT" \in evt'
        BY <1>3, <2>2 DEF Task, Exit, Pause, WaitResume, Park, SetReady, ClearReady, Signal, Types,
                          DataOK
    <2>. QED BY <1>1, <1>2, <2>1, <2>3
<1>4. CASE UNCHANGED vars
    BY <1>1, <1>2, <1>4 DEF vars
<1>5. CASE Drive(e)
    BY <1>5, WaitsAfterScan
<1>. DEFINE Others == Verb \/ ApplyBind \/ Rebind \/ (\E d \in Driver : Drive(d) \/ Deadline(d))
<1>6. ASSUME Others, drv[e].pc = "stop_wait", drv'[e].mark = drv[e].mark
      PROVE  "STOP_EVT" \in evt'
    <2>1. n \in Node
        BY <1>0, <1>6 DEF DriverState
    <2>2. "DROPPED" \in flag[n]
        BY <1>6, <2>1, NobodyAcks
    <2>. QED BY <1>1, <1>2, <1>6, <2>2
<1>7. ASSUME NEW d \in Driver, d # e, Drive(d) \/ Deadline(d) PROVE "STOP_EVT" \in evt'
    <2>1. drv'[e] = drv[e]
        BY <1>0, <1>7, StepOfOne
    <2>. QED BY <1>6, <1>7, <2>1
<1>8. CASE Deadline(e)
    <2>1. PICK m : drv' = [drv EXCEPT ![e].due = @ \union {m}]
        BY <1>8 DEF Deadline
    <2>2. drv'[e].pc = drv[e].pc /\ drv'[e].mark = drv[e].mark
        BY <1>0, <2>1 DEF Types, DrvOK, DriverState
    <2>. QED BY <1>6, <1>8, <2>2
<1>9. CASE drv'[e] = drv[e] /\ (Verb \/ ApplyBind \/ Rebind)
    BY <1>6, <1>9
<1>10. CASE ApplyBind
    <2>1. Put("bind", StopRec("bind", {}, BoundStopping))
        BY <1>10 DEF ApplyBind
    <2>2. drv'[e] = StopRec("bind", {}, BoundStopping) \/ drv'[e] = drv[e]
        BY <2>1 DEF Put, Types, DrvOK
    <2>3. StopRec("bind", {}, BoundStopping).pc # "stop_wait"
        BY DEF StopRec, Idle
    <2>. QED BY <1>9, <1>10, <2>2, <2>3
<1>11. CASE Rebind
    <2>0. drv["bind"].pc = "rebind" /\ drv["bind"] \in DriverState
        BY <1>11 DEF Rebind, Types, DrvOK, Driver
    <2>1. \/ Put("bind", Idle)
          \/ \E i, m : Put("bind", [drv["bind"] EXCEPT !.pc = "ready", !.set = {m},
                                        !.left = ReadyDeps[m], !.k = i + 1])
          \/ \E i : Put("bind", [drv["bind"] EXCEPT !.k = i + 1])
        BY <1>11, RebindAt
    <2>2. ASSUME NEW x, Put("bind", x) PROVE drv'[e] = drv[e] \/ drv'[e] = x
        BY <2>2 DEF Put, Types, DrvOK
    <2>3. \A i, m : [drv["bind"] EXCEPT !.pc = "ready", !.set = {m}, !.left = ReadyDeps[m],
                                        !.k = i + 1].pc = "ready"
        BY <2>0 DEF DriverState
    <2>4. \A i : [drv["bind"] EXCEPT !.k = i + 1].pc = "rebind"
        BY <2>0 DEF DriverState
    <2>5. ASSUME NEW i, NEW m, Put("bind", [drv["bind"] EXCEPT !.pc = "ready", !.set = {m},
                                        !.left = ReadyDeps[m], !.k = i + 1])
          PROVE  drv'[e] = drv[e]
        BY <2>2, <2>3, <2>5
    <2>6. ASSUME NEW i, Put("bind", [drv["bind"] EXCEPT !.k = i + 1]) PROVE drv'[e] = drv[e]
        BY <2>2, <2>4, <2>6
    <2>7. drv'[e] = drv[e]
        BY <1>0, <2>1, <2>2, <2>5, <2>6
    <2>. QED BY <1>9, <1>11, <2>7
<1>12. CASE Verb
    <2>1. ASSUME NEW x, Put("ctl", x) PROVE drv'[e] = drv[e] \/ drv'[e] = x
        BY <2>1 DEF Put, Types, DrvOK
    <2>2. ASSUME NEW v, NEW X, NEW S, Put("ctl", StartRec(v, X, S)) \/ Put("ctl", StopRec(v, X, S))
          PROVE  drv'[e] = drv[e]
        <3>1. StartRec(v, X, S).pc # "stop_wait" /\ StopRec(v, X, S).pc # "stop_wait"
            BY DEF StartRec, StopRec, Idle
        <3>. QED BY <2>1, <2>2, <3>1
    <2>3. ASSUME NEW t, StartNode(t) \/ StopNode(t) PROVE drv'[e] = drv[e]
        <3>. DEFINE a == [Idle EXCEPT !.pc = "ready", !.verb = "start_node",
                               !.set = {t}, !.left = ReadyDeps[t]]
                    b == [Idle EXCEPT !.pc = "ack_wait", !.verb = "stop_node",
                               !.left = {t}, !.mark = {t}]
        <3>1. a.pc = "ready" /\ b.pc = "ack_wait"
            BY DEF Idle
        <3>2. Put("ctl", a) \/ Put("ctl", b)
            BY <2>3 DEF StartNode, StopNode
        <3>. HIDE DEF a, b
        <3>. QED BY <2>1, <3>1, <3>2
    <2>4. ~LeaveRun
        BY <1>0 DEF LeaveRun, EndRun
    <2>5. Start \/ Teardown \/ RespawnTerminate => drv'[e] = drv[e]
        BY <2>2 DEF Start, Teardown, RespawnTerminate
    <2>6. ResumePausable => drv'[e] = drv[e]
        BY DEF ResumePausable
    <2>7. ASSUME NEW t, Deactivate(t) PROVE drv'[e] = drv[e]
        BY <2>2, <2>7 DEF Deactivate
    <2>8. ASSUME NEW t, Activate(t) PROVE drv'[e] = drv[e]
        BY <2>2, <2>8 DEF Activate
    <2>9. ASSUME NEW t, Restart(t) PROVE drv'[e] = drv[e]
        BY <2>2, <2>9 DEF Restart
    <2>10. drv'[e] = drv[e]
        BY <1>12, <2>3, <2>4, <2>5, <2>6, <2>7, <2>8, <2>9 DEF Verb
    <2>. QED BY <1>9, <1>12, <2>10
<1>. QED
    BY <1>3, <1>4, <1>5, <1>7, <1>8, <1>10, <1>11, <1>12 DEF Next

\* On every graph: as long as no two stop waves wait for the one signal at
\* once, a wave that waits has no unseen ack.
THEOREM ScanOnEachAckHolds == Spec /\ []OneWaits => []ScanOnEachAck
<1>1. Init => ScanOnEachAck
    BY DEF Init, Idle, ScanOnEachAck
<1>2. Types /\ OneWaits /\ ScanOnEachAck /\ [Next]_vars => ScanOnEachAck'
    BY ScanKept
<1>. QED BY <1>1, <1>2, TypesHold, PTL DEF Spec

\* On an unbound graph they never do.
THEOREM ScanOnEachAckUnbound == Unbound /\ Spec => []ScanOnEachAck
BY ScanOnEachAckHolds, UnboundOneWaits, PTL

----------------------------------------------------------------------------
(* The waves of an unbound graph, and a restart next to the bind driver.   *)

\* On an unbound graph, a node serves through the cleanup of its dependents.
THEOREM ServesThroughCleanupHolds == Unbound /\ Spec => ServesThroughCleanup
<1>. DEFINE A == \A n \in Node :
                   /\ "SHUTDOWN" \notin flag[n] /\ "SHUTDOWN" \in flag'[n]
                   /\ drv["ctl"].verb \in {"deactivate", "restart", "teardown"}
                   => \A m \in Node : n \in Deps[m] => inst[m] # "live"
<1>1. Types /\ UnboundInv /\ [Next]_vars => [A]_vars
    <2>. SUFFICES ASSUME Types, UnboundInv, [Next]_vars, NEW n \in Node,
                         "SHUTDOWN" \notin flag[n], "SHUTDOWN" \in flag'[n],
                         drv["ctl"].verb \in Cascading, NEW m \in Node, n \in Deps[m]
                  PROVE  inst[m] # "live"
        BY DEF Cascading
    <2>1. CASE StopRound("ctl")
        <3>1. n \in drv["ctl"].left /\ ~HeldInWave(n, drv["ctl"].left) /\ drv["ctl"].pc = "stop"
            BY <2>1 DEF StopRound
        <3>2. m \notin drv["ctl"].left
            BY <3>1 DEF HeldInWave
        <3>3. "RUNNING" \notin flag[m]
            BY <3>1, <3>2 DEF UnboundInv, WaveInv, StopInv, CleanInv
        <3>. QED BY <3>3 DEF UnboundInv, ShellInv
    <2>2. drv["ctl"].pc # "idle"
        BY DEF UnboundInv, WaveInv, BackInv, CtlOK, Idle, Cascading
    <2>3. CASE Verb
        <3>1. \A v : ~Call(v)
            BY <2>2 DEF UnboundInv, WaveInv, BackInv, CtlOK, Call
        <3>. QED BY <2>3, <3>1 DEF Verb, Start, Teardown, RespawnTerminate, ResumePausable, LeaveRun,
                    Deactivate, Activate, Restart, StartNode, StopNode
    <2>4. ~ApplyBind /\ ~Rebind
        BY DEF UnboundInv, BindIdle, ApplyBind, Rebind, Idle
    <2>5. ASSUME NEW k \in Node, Task(k) PROVE FALSE
        BY <2>5 DEF Task, Exit, Pause, WaitResume, Park, SetReady, ClearReady, Types, DataOK
    <2>6. ASSUME NEW d \in Driver, StopWake(d) \/ AwaitAck(d) \/ StartWave(d) \/ AwaitReadyDep(d)
                    \/ SpawnSettled(d) \/ SettleWake(d) \/ Deadline(d)
          PROVE  FALSE
        <3>1. UNCHANGED flag => FALSE
            OBVIOUS
        <3>2. CASE StopWake(d) \/ AwaitAck(d) \/ Deadline(d)
            <4>1. ASSUME NEW k, flag' = [flag EXCEPT ![k] = @ \ {"RUNNING"}] PROVE FALSE
                BY <4>1 DEF Types, DataOK
            <4>. QED BY <3>1, <3>2, <4>1 DEF StopWake, AwaitAck, Deadline
        <3>3. CASE StartWave(d)
            <4>1. ASSUME NEW k \in Node, Launch(k) PROVE FALSE
                BY <4>1 DEF Launch, ResetMask, Types, DataOK
            <4>2. ASSUME NEW k \in Node, NEW c, Resume({k}, c) PROVE FALSE
                BY <4>2 DEF Resume, ResetMask
            <4>3. CASE VisitParks(d)
                BY <4>3 DEF VisitParks, Types, DataOK
            <4>. QED BY <3>1, <3>3, <4>1, <4>2, <4>3
                     DEF StartWave, VisitDeferred, VisitResumes, VisitSpawns, VisitWaits,
                         VisitFaults, EndRound, StartWake
        <3>4. CASE AwaitReadyDep(d) \/ SpawnSettled(d) \/ SettleWake(d)
            <4>1. ASSUME NEW k \in Node, Launch(k) PROVE FALSE
                BY <4>1 DEF Launch, ResetMask, Types, DataOK
            <4>2. CASE AwaitReadyDep(d)
                BY <4>2 DEF AwaitReadyDep, Types, DataOK
            <4>. QED BY <3>1, <3>4, <4>1, <4>2 DEF SpawnSettled, SettleWake
        <3>. QED BY <2>6, <3>2, <3>3, <3>4
    <2>7. ASSUME NEW d \in Driver, StopRound(d) PROVE d = "ctl"
        BY <2>7, OneDriver DEF UnboundInv, Drive
    <2>. QED BY <2>1, <2>3, <2>4, <2>5, <2>6, <2>7 DEF Next, Drive, vars
<1>. QED
    BY <1>1, UnboundHold, PTL DEF Spec, ServesThroughCleanup

\* On a graph that binds no Pause node, a restart that ends without a fault
\* brings everything it cycled back, whatever the bind driver does meanwhile.
THEOREM RestartBringsBackHolds == NoBoundPause /\ Spec => RestartBringsBack
<1>. DEFINE A == (drv["ctl"].verb = "restart" /\ drv["ctl"].pc = "start"
                    /\ Cursor("ctl") > Len(Order) /\ drv'["ctl"].pc = "idle")
                 => \A n \in drv["ctl"].set :
                       \/ Running(n) \/ Held(n) \/ Mode[n] = "OnDemand"
                       \/ Has(n, "COMPLETED") \/ Has(n, "BOUND_STOPPED")
<1>1. Types /\ RestartInv /\ [Next]_vars => [A]_vars
    <2>. SUFFICES ASSUME Types, RestartInv, [Next]_vars,
                         drv["ctl"].verb = "restart", drv["ctl"].pc = "start",
                         Cursor("ctl") > Len(Order), drv'["ctl"].pc = "idle",
                         NEW n \in drv["ctl"].set
                  PROVE  \/ Running(n) \/ Held(n) \/ Mode[n] = "OnDemand"
                         \/ Has(n, "COMPLETED") \/ Has(n, "BOUND_STOPPED")
        OBVIOUS
    <2>0. /\ drv["ctl"] \in DriverState /\ "ctl" \in Driver /\ Len(Order) \in Nat
          /\ drv["ctl"].k \in Nat /\ drv["ctl"].left \subseteq Node
        BY OrderIs DEF Types, DrvOK, Driver, Size, DriverState
    <2>1. ~(Cursor("ctl") <= Len(Order)) /\ drv' # drv
        BY <2>0, WaveCursor DEF Types
    <2>2. drv["ctl"].wait # TRUE
        <3>1. ~Verb
            BY DEF RestartInv, BackInv, CtlOK, Call, Verb, Start, Teardown, RespawnTerminate,
                   ResumePausable, LeaveRun, Deactivate, Activate, Restart, StartNode, StopNode,
                   Await, Driver
        <3>2. ~MayRun("bind")
            BY <2>0 DEF MayRun, Await, Driver
        <3>3. ~ApplyBind /\ ~Rebind /\ ~Drive("bind")
            BY <3>2 DEF ApplyBind, Rebind, Drive, StopRound, StopWake, AwaitAck, StartWave,
                 VisitDeferred, VisitResumes, VisitSpawns, VisitWaits, VisitParks, VisitFaults,
                 Visits, EndRound, StartWake, AwaitReadyDep, SpawnSettled, SettleWake, Starting
        <3>4. ~ \E k \in Node : Task(k)
            BY <2>1 DEF Task, Exit, Pause, WaitResume, Park, SetReady, ClearReady, TaskStep
        <3>5. Drive("ctl")
            <4>1. ~Deadline("ctl")
                BY DEF Deadline, Await
            <4>2. ~Deadline("bind")
                <5>1. ASSUME Deadline("bind") PROVE drv'["ctl"] = drv["ctl"]
                    BY <2>0, <5>1 DEF Deadline, Types, DrvOK, Driver
                <5>. QED BY <5>1
            <4>. QED BY <2>1, <3>1, <3>3, <3>4, <4>1, <4>2 DEF Next, vars, Driver
        <3>6. EndRound("ctl")
            BY <2>1, <3>5 DEF Drive, StopRound, StopWake, AwaitAck, StartWave, VisitDeferred,
                 VisitResumes, VisitSpawns, VisitWaits, VisitParks, VisitFaults, Visits, StartWake,
                 AwaitReadyDep, SpawnSettled, SettleWake, Starting
        <3>7. ASSUME drv["ctl"].wait PROVE FALSE
            <4>. DEFINE q == [drv["ctl"] EXCEPT !.pc = IF drv["ctl"].prog THEN "start" ELSE "start_wait",
                                                !.k = 1, !.prog = FALSE, !.wait = FALSE]
            <4>1. drv'["ctl"] = q
                BY <2>0, <3>6, <3>7 DEF EndRound, Put, Types, DrvOK
            <4>2. q.pc # "idle"
                BY <2>0 DEF DriverState
            <4>. QED BY <4>1, <4>2
        <3>. QED BY <3>7
    <2>3. \A i \in 1..Len(Order) : Order[i] \notin drv["ctl"].left
        <3>1. \A i \in 1..Len(Order) : drv["ctl"].k <= i => Order[i] \notin drv["ctl"].left
            BY <2>0, <2>1, WaveCursor DEF Types
        <3>2. \A i \in 1..Len(Order) : i < drv["ctl"].k => Order[i] \notin drv["ctl"].left
            BY <2>2 DEF RestartInv, BackInv, RoundInv
        <3>. QED BY <2>0, <3>1, <3>2
    <2>4. n \notin drv["ctl"].left
        <3>. SUFFICES ASSUME n \in drv["ctl"].left PROVE FALSE
            OBVIOUS
        <3>1. PICK i \in 1..Len(Order) : Order[i] = n
            BY <2>0, GraphAssumption
        <3>. QED BY <2>3, <3>1
    <2>. QED BY <2>4 DEF RestartInv, BackInv, UpInv, Stay, Running, Held, Has
<1>. QED
    BY <1>1, RestartHold, PTL DEF Spec, RestartBringsBack

\* On an unbound graph, a stop wave's budget for a node runs out only while the
\* request to stop still stands: the two drivers' contention is what it takes to
\* report a node late that never was (run bind_timeout).
THEOREM TimeoutIsGenuineHolds == Unbound /\ Spec => TimeoutIsGenuine
<1>. DEFINE A == \A d \in Driver : drv[d].pc = "stop_wait" =>
                   \A n \in drv'[d].due \ drv[d].due : Has(n, "SHUTDOWN")
<1>1. Types /\ UnboundInv /\ [Next]_vars => [A]_vars
    <2>. SUFFICES ASSUME Types, UnboundInv, [Next]_vars, NEW d \in Driver,
                         drv[d].pc = "stop_wait", NEW n \in drv'[d].due \ drv[d].due
                  PROVE  Has(n, "SHUTDOWN")
        OBVIOUS
    <2>0. d = "ctl" /\ drv["ctl"] \in DriverState /\ "ctl" \in Driver
        BY DEF UnboundInv, BindIdle, Idle, Driver, Types, DrvOK
    <2>1. CASE Deadline("ctl")
        <3>1. PICK k \in drv["ctl"].mark : drv' = [drv EXCEPT !["ctl"].due = @ \union {k}]
            BY <2>1 DEF Deadline
        <3>2. n = k
            BY <2>0, <3>1 DEF Types, DrvOK, DriverState
        <3>. QED BY <2>0, <3>1, <3>2 DEF UnboundInv, WaveInv, StopInv, ToldInv, Has
    <2>2. drv' # drv
        OBVIOUS
    <2>3. ~ \E k \in Node : Task(k)
        BY <2>2 DEF Task, Exit, Pause, WaitResume, Park, SetReady, ClearReady, TaskStep
    <2>4. ~ApplyBind /\ ~Rebind
        BY DEF UnboundInv, BindIdle, ApplyBind, Rebind, Idle
    <2>5. CASE Verb
        <3>1. LeaveRun
            BY <2>0, <2>5 DEF UnboundInv, WaveInv, BackInv, CtlOK, Call, Verb, Start, Teardown,
                 RespawnTerminate, ResumePausable, Deactivate, Activate, Restart, StartNode, StopNode
        <3>2. drv'["ctl"].due = {}
            BY <2>0, <3>1 DEF LeaveRun, EndRun, Idle
        <3>. QED BY <2>0, <3>2
    <2>6. CASE Drive("ctl")
        <3>1. StopWake("ctl")
            BY <2>0, <2>6 DEF Drive, StopRound, AwaitAck, StartWave, VisitDeferred, VisitResumes,
                 VisitSpawns, VisitWaits, VisitParks, VisitFaults, Visits, EndRound, StartWake,
                 AwaitReadyDep, SpawnSettled, SettleWake, Starting
        <3>2. drv'["ctl"].due = drv["ctl"].due
            BY <2>0, <3>1 DEF StopWake, Types, DrvOK, DriverState
        <3>. QED BY <2>0, <3>2
    <2>. QED BY <2>1, <2>2, <2>3, <2>4, <2>5, <2>6, OneDriver DEF UnboundInv, Next, vars
<1>. QED
    BY <1>1, UnboundHold, PTL DEF Spec, TimeoutIsGenuine
=============================================================================
