---------------------------- MODULE JobObjectsProofs ----------------------------
(***************************************************************************)
(* Proofs about the objects that are built from a job's spec (JobObjects): *)
(* that they fit together, whatever the specs, the number of workers, the  *)
(* edits and the calls that fail.                                          *)
(***************************************************************************)
EXTENDS JobObjects, FiniteSetTheorems, WellFoundedInduction, TLAPS

\* Induction over the numbers of a set.
LEMMA Induction ==
    ASSUME NEW S \in SUBSET Nat, 0 \in S, \A n \in S : n + 1 \in S
    PROVE  S = Nat
<1>1. IsWellFoundedOn({ss \in Nat \X Nat : ss[1] < ss[2]}, Nat)
  BY NatLessThanWellFounded DEF OpToRel
<1>2. SUFFICES ASSUME Nat \ S # {} PROVE FALSE
  OBVIOUS
<1>3. \E x \in Nat \ S : \A y \in Nat \ S : ~(<<y, x>> \in {ss \in Nat \X Nat : ss[1] < ss[2]})
  BY <1>1, <1>2, WFMin
<1>4. PICK x \in Nat \ S : \A y \in Nat \ S : ~(y < x)
  BY <1>3
<1>5. x # 0 /\ x - 1 \in Nat
  OBVIOUS
<1>6. x - 1 \in S
  BY <1>4, <1>5
<1> QED
  BY <1>4, <1>5, <1>6

\* g holds the powers of Radix up to the n-th.
Powers(g, n) ==
    /\ g \in [0 .. n -> Nat] /\ g[0] = 1
    /\ \A k \in 0 .. n - 1 : g[k + 1] = Radix * g[k]

\* Two functions that are the powers up to n agree there.
LEMMA PowersAgree ==
    ASSUME NEW g, NEW h, NEW m \in Nat, NEW n \in Nat, Powers(g, m), Powers(h, n), m <= n
    PROVE  \A k \in 0 .. m : g[k] = h[k]
<1> DEFINE S == {k \in Nat : k <= m => g[k] = h[k]}
<1>1. 0 \in S
  BY DEF Powers
<1>2. ASSUME NEW k \in S PROVE k + 1 \in S
  <2>1. CASE k + 1 <= m
    <3>1. k \in 0 .. m - 1 /\ k \in 0 .. n - 1 /\ g[k] = h[k]
      BY <1>2, <2>1
    <3>2. g[k + 1] = Radix * g[k] /\ h[k + 1] = Radix * h[k]
      BY <3>1 DEF Powers
    <3> QED
      BY <3>1, <3>2, <1>2
  <2> QED
    BY <2>1, <1>2
<1> HIDE DEF S
<1>3. S = Nat
  <2>1. S \in SUBSET Nat
    BY DEF S
  <2> QED
    BY <1>1, <1>2, <2>1, Induction
<1> QED
  BY <1>3 DEF S

\* There is one for every n.
LEMMA PowersExist == \A n \in Nat : \E g : Powers(g, n)
<1> DEFINE S == {n \in Nat : \E g : Powers(g, n)}
<1>1. 0 \in S
  <2>1. Powers([k \in 0 .. 0 |-> 1], 0)
    BY DEF Powers
  <2> QED
    BY <2>1
<1>2. ASSUME NEW n \in S PROVE n + 1 \in S
  <2>1. PICK g : Powers(g, n)
    OBVIOUS
  <2> DEFINE h == [k \in 0 .. n + 1 |-> IF k = n + 1 THEN Radix * g[n] ELSE g[k]]
  <2>2. n \in Nat /\ \A k \in 0 .. n : g[k] \in Nat
    BY <2>1 DEF Powers
  <2>3. Radix * g[n] \in Nat
    BY <2>2, RadixAssumption
  <2>4. h \in [0 .. n + 1 -> Nat]
    BY <2>2, <2>3
  <2>5. h[0] = 1
    BY <2>1, <2>2 DEF Powers
  <2>6. ASSUME NEW k \in 0 .. n PROVE h[k + 1] = Radix * h[k]
    <3>1. CASE k = n
      BY <3>1, <2>2
    <3>2. CASE k < n
      BY <3>2, <2>1, <2>2 DEF Powers
    <3> QED
      BY <3>1, <3>2, <2>2
  <2>7. Powers(h, n + 1)
    <3> HIDE DEF h
    <3> QED
      BY <2>2, <2>4, <2>5, <2>6 DEF Powers
  <2> QED
    BY <2>2, <2>7
<1> HIDE DEF S
<1>3. S = Nat
  <2>1. S \in SUBSET Nat
    BY DEF S
  <2> QED
    BY <1>1, <1>2, <2>1, Induction
<1> QED
  BY <1>3 DEF S

\* So the recursive definition of Power defines a function.
LEMMA PowerDefined == Power = [d \in Nat |-> IF d = 0 THEN 1 ELSE Radix * Power[d - 1]]
<1> DEFINE pow(n) == CHOOSE g : Powers(g, n)
           f == [n \in Nat |-> pow(n)[n]]
<1>1. \A n \in Nat : Powers(pow(n), n)
  BY PowersExist
<1>2. ASSUME NEW d \in Nat PROVE f[d] = IF d = 0 THEN 1 ELSE Radix * f[d - 1]
  <2>1. f[d] = pow(d)[d] /\ Powers(pow(d), d)
    BY <1>1
  <2>2. CASE d = 0
    BY <2>1, <2>2 DEF Powers
  <2>3. CASE d # 0
    <3>1. d - 1 \in Nat /\ f[d - 1] = pow(d - 1)[d - 1] /\ Powers(pow(d - 1), d - 1)
      BY <1>1, <2>3
    <3> HIDE DEF f, pow
    <3>2. pow(d - 1)[d - 1] = pow(d)[d - 1]
      BY <2>1, <3>1, PowersAgree
    <3>3. pow(d)[d] = Radix * pow(d)[d - 1]
      <4>1. d - 1 \in 0 .. d - 1 /\ (d - 1) + 1 = d
        BY <3>1
      <4> QED
        BY <2>1, <4>1 DEF Powers
    <3> QED
      BY <2>1, <2>3, <3>1, <3>2, <3>3
  <2> QED
    BY <2>2, <2>3
<1> HIDE DEF f
<1>3. f = [d \in Nat |-> f[d]]
  BY DEF f
<1>4. f = [d \in Nat |-> IF d = 0 THEN 1 ELSE Radix * f[d - 1]]
  BY <1>2, <1>3
<1>5. \E g : g = [d \in Nat |-> IF d = 0 THEN 1 ELSE Radix * g[d - 1]]
  BY <1>4
<1> QED
  BY <1>5 DEF Power

\* Each power is Radix times the one before.
LEMMA PowerStep ==
    /\ Power[0] = 1
    /\ \A d \in Nat : Power[d + 1] = Radix * Power[d]
<1> DEFINE f == [d \in Nat |-> IF d = 0 THEN 1 ELSE Radix * Power[d - 1]]
<1>1. f[0] = 1 /\ \A d \in Nat : f[d + 1] = Radix * Power[(d + 1) - 1]
  OBVIOUS
<1>2. \A d \in Nat : (d + 1) - 1 = d
  OBVIOUS
<1> HIDE DEF f
<1> QED
  BY <1>1, <1>2, PowerDefined DEF f

\* The powers are positive and grow.
LEMMA PowersGrow == \A d \in Nat : Power[d] \in Nat /\ Power[d] > 0 /\ Power[d + 1] > Power[d]
<1> DEFINE S == {d \in Nat : Power[d] \in Nat /\ Power[d] > 0}
<1>1. 0 \in S
  BY PowerStep
<1>2. ASSUME NEW d \in S PROVE d + 1 \in S
  BY <1>2, PowerStep, RadixAssumption
<1> HIDE DEF S
<1>3. S = Nat
  <2>1. S \in SUBSET Nat
    BY DEF S
  <2> QED
    BY <1>1, <1>2, <2>1, Induction
<1>4. ASSUME NEW r \in Nat, NEW p \in Nat, r > 1, p > 0 PROVE r * p > p
  BY <1>4
<1>5. ASSUME NEW d \in Nat PROVE Power[d] \in Nat /\ Power[d] > 0
  BY <1>3 DEF S
<1>6. ASSUME NEW d \in Nat PROVE Power[d + 1] > Power[d]
  BY <1>4, <1>5, PowerStep, RadixAssumption
<1> QED
  BY <1>5, <1>6

\* A lower exponent gives a lower power.
LEMMA PowersOrdered == \A d, e \in Nat : d <= e => Power[d] <= Power[e]
<1> SUFFICES ASSUME NEW d \in Nat PROVE \A e \in Nat : d <= e => Power[d] <= Power[e]
  OBVIOUS
<1> DEFINE S == {e \in Nat : d <= e => Power[d] <= Power[e]}
<1>1. 0 \in S
  BY PowersGrow
<1>2. ASSUME NEW e \in S PROVE e + 1 \in S
  <2>1. CASE d = e + 1
    BY <2>1, PowersGrow
  <2>2. CASE d # e + 1
    BY <1>2, <2>2, PowersGrow
  <2> QED
    BY <2>1, <2>2
<1> HIDE DEF S
<1>3. S = Nat
  <2>1. S \in SUBSET Nat
    BY DEF S
  <2> QED
    BY <1>1, <1>2, <2>1, Induction
<1> QED
  BY <1>3 DEF S

\* Every index has a number of digits.
LEMMA DigitsExist ==
    \A n \in Nat \ {0} : \E d \in 1 .. n : Power[d - 1] <= n /\ n < Power[d]
<1> DEFINE S == {n \in Nat : \E d \in 1 .. n + 1 : Power[d - 1] <= n + 1 /\ n + 1 < Power[d]}
<1>1. 0 \in S
  <2>1. 1 \in 1 .. 0 + 1 /\ Power[1 - 1] = 1 /\ Power[1] = Radix * Power[0]
    BY PowerStep
  <2> QED
    BY <2>1, PowerStep, RadixAssumption
<1>2. ASSUME NEW n \in S PROVE n + 1 \in S
  <2>1. PICK d \in 1 .. n + 1 : Power[d - 1] <= n + 1 /\ n + 1 < Power[d]
    OBVIOUS
  <2>2. n \in Nat /\ d \in Nat /\ Power[d] \in Nat /\ Power[d - 1] \in Nat /\ Power[d + 1] > Power[d]
        /\ Power[d + 1] \in Nat
    BY PowersGrow
  <2>3. CASE n + 2 < Power[d]
    BY <2>1, <2>2, <2>3
  <2>4. CASE n + 2 = Power[d]
    <3>1. (d + 1) - 1 = d /\ d + 1 \in 1 .. (n + 1) + 1
      BY <2>1
    <3>2. Power[(d + 1) - 1] <= (n + 1) + 1 /\ (n + 1) + 1 < Power[d + 1]
      BY <2>2, <2>4, <3>1
    <3> QED
      BY <2>2, <3>1, <3>2
  <2> QED
    BY <2>1, <2>2, <2>3, <2>4
<1> HIDE DEF S
<1>3. S = Nat
  <2>1. S \in SUBSET Nat
    BY DEF S
  <2> QED
    BY <1>1, <1>2, <2>1, Induction
<1>4. ASSUME NEW n \in Nat \ {0} PROVE n - 1 \in Nat /\ (n - 1) + 1 = n
  OBVIOUS
<1> QED
  BY <1>3, <1>4 DEF S

\* A greater index has no fewer digits: the last worker's hostname is the longest.
LEMMA DigitsGrow ==
    ASSUME NEW m \in Nat, NEW n \in Nat, m <= n
    PROVE  Digits(m) \in Nat /\ Digits(m) >= 1 /\ Digits(m) <= Digits(n)
<1>1. ASSUME NEW k \in Nat \ {0}
      PROVE  Digits(k) \in 1 .. k /\ Power[Digits(k) - 1] <= k /\ k < Power[Digits(k)]
  <2>1. Digits(k) = CHOOSE d \in 1 .. k : Power[d - 1] <= k /\ k < Power[d]
    BY DEF Digits
  <2> QED
    BY <2>1, DigitsExist
<1>2. Digits(0) = 1
  BY DEF Digits
<1>3. CASE m = 0
  BY <1>1, <1>2, <1>3
<1>4. CASE m # 0
  <2> DEFINE d == Digits(m)
             e == Digits(n)
  <2>1. d \in Nat /\ e \in Nat /\ d >= 1 /\ d - 1 \in Nat /\ Power[d - 1] <= m /\ n < Power[e]
    BY <1>1, <1>4
  <2> HIDE DEF d, e
  <2>2. SUFFICES ASSUME e < d PROVE FALSE
    BY <2>1 DEF d, e
  <2>3. Power[e] <= Power[d - 1]
    BY <2>1, <2>2, PowersOrdered
  <2>4. Power[e] \in Nat /\ Power[d - 1] \in Nat
    BY <2>1, PowersGrow
  <2> QED
    BY <2>1, <2>3, <2>4
<1> QED
  BY <1>3, <1>4

-----------------------------------------------------------------------------
(* Sums of resources.                                                      *)

\* What starts with start, and goes on by step.
Steps(S) == [Nat -> [S -> S]]
Course(f, S, start, step) ==
    f \in [Nat -> S] /\ f[0] = start /\ \A n \in Nat : f[n + 1] = step[n][f[n]]

\* Steps within a set give a course within it.
LEMMA Recursion ==
    ASSUME NEW S, NEW start \in S, NEW step \in Steps(S)
    PROVE  \E f : Course(f, S, start, step)
<1> USE DEF Steps
<1> DEFINE P(f, n) == /\ f \in [0 .. n -> S] /\ f[0] = start
                      /\ \A k \in 0 .. n - 1 : f[k + 1] = step[k][f[k]]
           N == {n \in Nat : \E f : P(f, n)}
<1>1. ASSUME NEW m \in Nat, NEW n \in Nat, NEW f, NEW g, P(f, m), P(g, n), m <= n
      PROVE  \A k \in 0 .. m : f[k] = g[k]
  <2> DEFINE T == {k \in Nat : k <= m => f[k] = g[k]}
  <2>1. 0 \in T
    BY <1>1
  <2>2. ASSUME NEW k \in T PROVE k + 1 \in T
    <3>1. CASE k + 1 <= m
      <4>1. k \in 0 .. m - 1 /\ k \in 0 .. n - 1 /\ f[k] = g[k]
        BY <1>1, <2>2, <3>1
      <4> QED
        BY <1>1, <2>2, <4>1
    <3> QED
      BY <2>2, <3>1
  <2> HIDE DEF T
  <2>3. T = Nat
    <3>1. T \in SUBSET Nat
      BY DEF T
    <3> QED
      BY <2>1, <2>2, <3>1, Induction
  <2> QED
    BY <2>3 DEF T
<1>2. 0 \in N
  <2>1. P([k \in 0 .. 0 |-> start], 0)
    OBVIOUS
  <2> QED
    BY <2>1
<1>3. ASSUME NEW n \in N PROVE n + 1 \in N
  <2>1. PICK f : P(f, n)
    BY <1>3
  <2>2. f[n] \in S /\ step[n][f[n]] \in S
    BY <1>3, <2>1
  <2> DEFINE g == [k \in 0 .. n + 1 |-> IF k = n + 1 THEN step[n][f[n]] ELSE f[k]]
  <2>3. P(g, n + 1)
    <3>1. g \in [0 .. n + 1 -> S] /\ g[0] = start
      BY <1>3, <2>1, <2>2
    <3>2. ASSUME NEW k \in 0 .. n PROVE g[k + 1] = step[k][g[k]]
      BY <1>3, <2>1, <3>2
    <3>3. (n + 1) - 1 = n
      BY <1>3
    <3> HIDE DEF g
    <3> QED
      BY <3>1, <3>2, <3>3
  <2> HIDE DEF P, g
  <2>4. n + 1 \in Nat
    BY <1>3
  <2> QED
    BY <2>3, <2>4
<1>4. N = Nat
  <2> HIDE DEF P
  <2>1. N \in SUBSET Nat
    OBVIOUS
  <2> HIDE DEF N
  <2> QED
    BY <1>2, <1>3, <2>1, Induction
<1> DEFINE F(n) == CHOOSE f : P(f, n)
           h == [n \in Nat |-> F(n)[n]]
<1>5. \A n \in Nat : P(F(n), n)
  <2> HIDE DEF P
  <2> QED
    BY <1>4
<1> HIDE DEF F
<1>6. h \in [Nat -> S] /\ h[0] = start
  BY <1>5
<1>7. ASSUME NEW n \in Nat PROVE h[n + 1] = step[n][h[n]]
  <2>1. F(n + 1)[n + 1] = step[n][F(n + 1)[n]]
    BY <1>5
  <2>2. F(n + 1)[n] = F(n)[n]
    <3>1. P(F(n), n) /\ P(F(n + 1), n + 1) /\ n <= n + 1 /\ n \in 0 .. n
      BY <1>5
    <3> HIDE DEF P
    <3> QED
      BY <1>1, <3>1
  <2> QED
    BY <2>1, <2>2
<1> QED
  BY <1>6, <1>7 DEF Course

\* All resources, and lists of some of them.
Resources == UNION {DOMAIN list : list \in ResourceLists}
Amounts == UNION {[some -> Int] : some \in SUBSET Resources}
Containers == [requests : ResourceLists, limits : ResourceLists]

\* A list has a quantity of every resource, perhaps none.
LEMMA Quantities ==
    ASSUME NEW a \in Amounts
    PROVE  /\ a = [r \in DOMAIN a |-> a[r]] /\ DOMAIN a \subseteq Resources
           /\ \A r : Quantity(a, r) \in Int
<1>1. PICK some \in SUBSET Resources : a \in [some -> Int]
  BY DEF Amounts
<1> QED
  BY <1>1 DEF Quantity

\* Nothing is a list of resources, and has none of any.
LEMMA NothingIs == NoResources \in Amounts /\ \A r : Quantity(NoResources, r) = 0
<1>1. NoResources \in [{} -> Int] /\ DOMAIN NoResources = {}
  BY DEF NoResources
<1> QED
  BY <1>1 DEF Amounts, Quantity

\* What a container needs is a list of resources.
LEMMA MergedIs ==
    ASSUME NEW c \in Containers
    PROVE  merged(c) \in Amounts
<1>1. /\ c.requests \in ResourceLists /\ c.limits \in ResourceLists
      /\ c.requests \in [DOMAIN c.requests -> Int] /\ c.limits \in [DOMAIN c.limits -> Int]
  BY ResourceListsAssumption DEF Containers
<1> DEFINE some == DOMAIN c.requests \cup DOMAIN c.limits
<1>2. some \in SUBSET Resources
  BY <1>1 DEF Resources
<1>3. merged(c) \in [some -> Int]
  BY <1>1 DEF merged
<1> QED
  BY <1>2, <1>3 DEF Amounts

\* addResources adds the container's quantities, replicas times.
LEMMA ResourcesAdded ==
    ASSUME NEW a \in Amounts, NEW c \in Containers, NEW k \in Int
    PROVE  /\ addResources(a, c, k) \in Amounts
           /\ \A r : Quantity(addResources(a, c, k), r)
                        = Quantity(a, r) + k * Quantity(merged(c), r)
<1> DEFINE m == merged(c)
           some == DOMAIN a \cup DOMAIN m
           sum == addResources(a, c, k)
<1>1. /\ some \in SUBSET Resources
      /\ \A r : Quantity(a, r) \in Int /\ Quantity(m, r) \in Int
  BY MergedIs, Quantities
<1>2. sum = [r \in some |-> Quantity(a, r) + k * Quantity(m, r)]
  BY DEF addResources
<1> HIDE DEF m, sum
<1>3. \A r : Quantity(a, r) + k * Quantity(m, r) \in Int
  BY <1>1
<1>4. sum \in [some -> Int]
  BY <1>2, <1>3
<1>5. sum \in Amounts
  BY <1>1, <1>4 DEF Amounts
<1>6. ASSUME NEW r PROVE Quantity(sum, r) = Quantity(a, r) + k * Quantity(m, r)
  <2>1. CASE r \in some
    BY <1>2, <2>1 DEF Quantity
  <2>2. CASE r \notin some
    <3>1. Quantity(a, r) = 0 /\ Quantity(m, r) = 0 /\ Quantity(sum, r) = 0
      BY <1>2, <2>2 DEF Quantity
    <3> QED
      BY <3>1
  <2> QED
    BY <2>1, <2>2
<1> QED
  BY <1>5, <1>6 DEF m, sum

\* The containers cs, k times each, are added to a.
Adding(f, a, cs, k) ==
    /\ f \in [Nat -> Amounts] /\ f[0] = a /\ addContainers(a, cs, k) = f[Len(cs)]
    /\ \A n \in Nat : n + 1 <= Len(cs) => f[n + 1] = addResources(f[n], cs[n + 1], k)

\* addContainers is what is left after the last one.
LEMMA ContainersAdded ==
    ASSUME NEW a \in Amounts, NEW cs \in Seq(Containers), NEW k \in Int
    PROVE  \E f : Adding(f, a, cs, k)
<1> DEFINE step == [n \in Nat |-> [x \in Amounts |->
                        IF n + 1 <= Len(cs) THEN addResources(x, cs[n + 1], k) ELSE x]]
           E(h) == h = [n \in 0 .. Len(cs) |->
                            IF n = 0 THEN a ELSE addResources(h[n - 1], cs[n], k)]
<1>1. \A n \in Nat : n + 1 <= Len(cs) => cs[n + 1] \in Containers
  OBVIOUS
<1>2. step \in Steps(Amounts)
  BY <1>1, ResourcesAdded DEF Steps
<1> HIDE DEF step
<1>3. PICK f : Course(f, Amounts, a, step)
  BY <1>2, Recursion
<1>4. /\ f \in [Nat -> Amounts] /\ f[0] = a
      /\ \A n \in Nat : n + 1 <= Len(cs) => f[n + 1] = addResources(f[n], cs[n + 1], k)
  BY <1>3 DEF Course, step
<1>5. E([n \in 0 .. Len(cs) |-> f[n]])
  <2>1. ASSUME NEW n \in 1 .. Len(cs) PROVE f[n] = addResources(f[n - 1], cs[n], k)
    <3>1. n - 1 \in Nat /\ (n - 1) + 1 = n /\ n <= Len(cs)
      OBVIOUS
    <3> QED
      BY <1>4, <3>1
  <2>2. \A n \in 0 .. Len(cs) : n # 0 => n \in 1 .. Len(cs) /\ n - 1 \in 0 .. Len(cs)
    OBVIOUS
  <2> QED
    BY <1>4, <2>1, <2>2
<1> DEFINE h == CHOOSE h : E(h)
<1>6. addContainers(a, cs, k) = h[Len(cs)]
  BY DEF addContainers
<1>7. E(h)
  <2> HIDE DEF E
  <2> QED
    BY <1>5
<1> HIDE DEF h
<1> DEFINE T == {n \in Nat : n <= Len(cs) => h[n] = f[n]}
<1>8. 0 \in T
  BY <1>4, <1>7
<1>9. ASSUME NEW n \in T PROVE n + 1 \in T
  <2>1. CASE n + 1 <= Len(cs)
    <3>1. n + 1 \in 0 .. Len(cs) /\ n + 1 # 0 /\ (n + 1) - 1 = n /\ h[n] = f[n] /\ n \in Nat
      BY <1>9, <2>1
    <3>2. h[n + 1] = addResources(h[n], cs[n + 1], k)
      BY <1>7, <3>1
    <3> QED
      BY <1>4, <2>1, <3>1, <3>2
  <2> QED
    BY <1>9, <2>1
<1> HIDE DEF T
<1>10. T = Nat
  <2>1. T \in SUBSET Nat
    BY DEF T
  <2> QED
    BY <1>8, <1>9, <2>1, Induction
<1>11. h[Len(cs)] = f[Len(cs)]
  BY <1>10 DEF T
<1> QED
  BY <1>4, <1>6, <1>11 DEF Adding

\* What a pod with these containers needs of a resource.
Needs(cs, r) == Quantity(addContainers(NoResources, cs, 1), r)

\* The containers of so many pods need so many times what those of one pod need.
LEMMA ContainersNeed ==
    ASSUME NEW a \in Amounts, NEW cs \in Seq(Containers), NEW k \in Int
    PROVE  /\ addContainers(a, cs, k) \in Amounts
           /\ \A r : /\ Needs(cs, r) \in Int
                     /\ Quantity(addContainers(a, cs, k), r) = Quantity(a, r) + k * Needs(cs, r)
<1>1. PICK f : Adding(f, a, cs, k)
  BY ContainersAdded
<1>2. PICK g : Adding(g, NoResources, cs, 1)
  <2>1. NoResources \in Amounts /\ 1 \in Int
    BY NothingIs
  <2> QED
    BY <2>1, ContainersAdded
<1>3. ASSUME NEW r
      PROVE  Quantity(f[Len(cs)], r) = Quantity(a, r) + k * Quantity(g[Len(cs)], r)
  <2> DEFINE T == {n \in Nat : n <= Len(cs) =>
                        Quantity(f[n], r) = Quantity(a, r) + k * Quantity(g[n], r)}
  <2>1. 0 \in T
    <3>1. Quantity(f[0], r) = Quantity(a, r) /\ Quantity(g[0], r) = 0 /\ Quantity(a, r) \in Int
      BY <1>1, <1>2, NothingIs, Quantities DEF Adding
    <3> QED
      BY <3>1
  <2>2. ASSUME NEW n \in T PROVE n + 1 \in T
    <3>1. SUFFICES ASSUME n + 1 <= Len(cs)
                   PROVE  Quantity(f[n + 1], r) = Quantity(a, r) + k * Quantity(g[n + 1], r)
      BY <2>2
    <3> DEFINE m == Quantity(merged(cs[n + 1]), r)
               x == Quantity(a, r)
               y == Quantity(g[n], r)
    <3>2. n \in Nat /\ cs[n + 1] \in Containers
      BY <2>2, <3>1
    <3>3. f[n] \in Amounts /\ g[n] \in Amounts
      BY <1>1, <1>2, <3>2 DEF Adding
    <3>4. m \in Int /\ x \in Int /\ y \in Int
      BY <3>2, <3>3, MergedIs, Quantities
    <3> DEFINE c == cs[n + 1]
               fn == f[n]
               gn == g[n]
    <3>5. Quantity(f[n + 1], r) = Quantity(f[n], r) + k * m
      <4>1. f[n + 1] = addResources(fn, c, k)
        BY <1>1, <3>1, <3>2 DEF Adding
      <4> HIDE DEF c, fn
      <4>2. Quantity(addResources(fn, c, k), r) = Quantity(fn, r) + k * Quantity(merged(c), r)
        <5>1. fn \in Amounts /\ c \in Containers
          BY <3>2, <3>3 DEF c, fn
        <5> QED
          BY <5>1, ResourcesAdded
      <4> QED
        BY <4>1, <4>2 DEF c, fn
    <3>6. Quantity(g[n + 1], r) = y + 1 * m
      <4>1. g[n + 1] = addResources(gn, c, 1)
        BY <1>2, <3>1, <3>2 DEF Adding
      <4> HIDE DEF c, gn
      <4>2. Quantity(addResources(gn, c, 1), r) = Quantity(gn, r) + 1 * Quantity(merged(c), r)
        <5>1. gn \in Amounts /\ c \in Containers /\ 1 \in Int
          BY <3>2, <3>3 DEF c, gn
        <5> QED
          BY <5>1, ResourcesAdded
      <4> QED
        BY <4>1, <4>2 DEF c, gn
    <3>7. Quantity(f[n], r) = x + k * y
      BY <2>2, <3>1, <3>2
    <3> HIDE DEF m, x, y
    <3>8. k * (y + 1 * m) = k * y + k * m
      BY <3>4
    <3>9. k * y \in Int /\ k * m \in Int
      BY <3>4
    <3> QED
      BY <3>4, <3>5, <3>6, <3>7, <3>8, <3>9 DEF x
  <2> HIDE DEF T
  <2>3. T = Nat
    <3>1. T \in SUBSET Nat
      BY DEF T
    <3> QED
      BY <2>1, <2>2, <3>1, Induction
  <2> QED
    BY <2>3 DEF T
<1>4. f[Len(cs)] \in Amounts /\ g[Len(cs)] \in Amounts
  BY <1>1, <1>2 DEF Adding
<1>5. \A r : Needs(cs, r) = Quantity(g[Len(cs)], r)
  BY <1>2 DEF Needs, Adding
<1> QED
  BY <1>1, <1>3, <1>4, <1>5, Quantities DEF Adding

\* A replica spec, or a pod, that is in a gang.
Counts(e) == e.containers \in Seq(Containers) /\ e.replicas \in Int

\* Total is what is left after the last of them.
LEMMA TotalAdded ==
    ASSUME NEW order, Len(order) \in Nat, \A n \in 1 .. Len(order) : Counts(order[n])
    PROVE  \E f \in [Nat -> Amounts] :
                /\ f[0] = NoResources /\ Total(order) = f[Len(order)]
                /\ \A n \in Nat : n + 1 <= Len(order) =>
                        f[n + 1] = addContainers(f[n], order[n + 1].containers, order[n + 1].replicas)
<1> DEFINE step == [n \in Nat |-> [x \in Amounts |->
                        IF n + 1 <= Len(order)
                        THEN addContainers(x, order[n + 1].containers, order[n + 1].replicas) ELSE x]]
           E(h) == h = [n \in 0 .. Len(order) |->
                            IF n = 0 THEN NoResources
                            ELSE addContainers(h[n - 1], order[n].containers, order[n].replicas)]
<1>1. \A n \in Nat : n + 1 <= Len(order) =>
            order[n + 1].containers \in Seq(Containers) /\ order[n + 1].replicas \in Int
  BY DEF Counts
<1>2. step \in Steps(Amounts)
  BY <1>1, ContainersNeed DEF Steps
<1> HIDE DEF step
<1>3. PICK f : Course(f, Amounts, NoResources, step)
  BY <1>2, NothingIs, Recursion
<1>4. /\ f \in [Nat -> Amounts] /\ f[0] = NoResources
      /\ \A n \in Nat : n + 1 <= Len(order) =>
            f[n + 1] = addContainers(f[n], order[n + 1].containers, order[n + 1].replicas)
  BY <1>3 DEF Course, step
<1>5. E([n \in 0 .. Len(order) |-> f[n]])
  <2>1. ASSUME NEW n \in 1 .. Len(order)
        PROVE  f[n] = addContainers(f[n - 1], order[n].containers, order[n].replicas)
    <3>1. n - 1 \in Nat /\ (n - 1) + 1 = n /\ n <= Len(order)
      OBVIOUS
    <3> QED
      BY <1>4, <3>1
  <2>2. \A n \in 0 .. Len(order) : n # 0 => n \in 1 .. Len(order) /\ n - 1 \in 0 .. Len(order)
    OBVIOUS
  <2> QED
    BY <1>4, <2>1, <2>2
<1> DEFINE h == CHOOSE h : E(h)
<1>6. Total(order) = h[Len(order)]
  BY DEF Total
<1>7. E(h)
  <2> HIDE DEF E
  <2> QED
    BY <1>5
<1> HIDE DEF h
<1> DEFINE T == {n \in Nat : n <= Len(order) => h[n] = f[n]}
<1>8. 0 \in T
  BY <1>4, <1>7
<1>9. ASSUME NEW n \in T PROVE n + 1 \in T
  <2>1. CASE n + 1 <= Len(order)
    <3>1. n + 1 \in 0 .. Len(order) /\ n + 1 # 0 /\ (n + 1) - 1 = n /\ h[n] = f[n] /\ n \in Nat
      BY <1>9, <2>1
    <3>2. h[n + 1] = addContainers(h[n], order[n + 1].containers, order[n + 1].replicas)
      BY <1>7, <3>1
    <3> QED
      BY <1>4, <2>1, <3>1, <3>2
  <2> QED
    BY <1>9, <2>1
<1> HIDE DEF T
<1>10. T = Nat
  <2>1. T \in SUBSET Nat
    BY DEF T
  <2> QED
    BY <1>8, <1>9, <2>1, Induction
<1>11. h[Len(order)] = f[Len(order)]
  BY <1>10 DEF T
<1> QED
  BY <1>4, <1>6, <1>11

\* The quantities of one resource after each entry.
Growing(q, order, r) ==
    /\ q \in [Nat -> Int] /\ q[0] = 0 /\ Quantity(Total(order), r) = q[Len(order)]
    /\ \A n \in Nat : n + 1 <= Len(order) =>
            q[n + 1] = q[n] + order[n + 1].replicas * Needs(order[n + 1].containers, r)

\* One entry, and the next.
LEMMA TotalSteps ==
    ASSUME NEW order, Len(order) \in Nat, \A n \in 1 .. Len(order) : Counts(order[n]), NEW r
    PROVE  \E q : Growing(q, order, r)
<1>1. PICK f \in [Nat -> Amounts] :
                /\ f[0] = NoResources /\ Total(order) = f[Len(order)]
                /\ \A n \in Nat : n + 1 <= Len(order) =>
                        f[n + 1] = addContainers(f[n], order[n + 1].containers, order[n + 1].replicas)
  BY TotalAdded
<1> DEFINE q == [n \in Nat |-> Quantity(f[n], r)]
<1>2. q \in [Nat -> Int] /\ q[0] = 0 /\ Quantity(Total(order), r) = q[Len(order)]
  BY <1>1, NothingIs, Quantities
<1>3. ASSUME NEW n \in Nat, n + 1 <= Len(order)
      PROVE  q[n + 1] = q[n] + order[n + 1].replicas * Needs(order[n + 1].containers, r)
  <2> DEFINE a == f[n]
             cs == order[n + 1].containers
             k == order[n + 1].replicas
  <2>1. f[n + 1] = addContainers(a, cs, k)
    BY <1>1, <1>3
  <2>2. a \in Amounts /\ cs \in Seq(Containers) /\ k \in Int
    BY <1>3 DEF Counts
  <2>3. q[n + 1] = Quantity(f[n + 1], r) /\ q[n] = Quantity(a, r)
    OBVIOUS
  <2> HIDE DEF a, cs, k, q
  <2>4. Quantity(addContainers(a, cs, k), r) = Quantity(a, r) + k * Needs(cs, r)
    BY <2>2, ContainersNeed
  <2>5. q[n + 1] = q[n] + k * Needs(cs, r)
    BY <2>1, <2>3, <2>4
  <2> QED
    BY <2>5 DEF cs, k
<1> HIDE DEF q
<1> QED
  BY <1>2, <1>3 DEF Growing

\* The total of a single entry.
LEMMA TotalOfOne ==
    ASSUME NEW order, Len(order) = 1, Counts(order[1]), NEW r
    PROVE  Quantity(Total(order), r) = order[1].replicas * Needs(order[1].containers, r)
<1> DEFINE x == order[1].replicas * Needs(order[1].containers, r)
<1>1. x \in Int
  <2>1. order[1].replicas \in Int /\ Needs(order[1].containers, r) \in Int
    BY ContainersNeed, NothingIs DEF Counts
  <2> QED
    BY <2>1
<1>2. PICK q : Growing(q, order, r)
  <2>1. Len(order) \in Nat /\ \A n \in 1 .. Len(order) : Counts(order[n])
    OBVIOUS
  <2> QED
    BY <2>1, TotalSteps
<1>3. q[0 + 1] = q[0] + order[0 + 1].replicas * Needs(order[0 + 1].containers, r)
  BY <1>2 DEF Growing
<1>4. q[1] = 0 + x
  BY <1>2, <1>3 DEF Growing
<1> QED
  BY <1>1, <1>2, <1>4 DEF Growing

\* The total of two entries: calPGMinResource has at most these.
LEMMA TotalOfTwo ==
    ASSUME NEW order, Len(order) = 2, Counts(order[1]), Counts(order[2]), NEW r
    PROVE  Quantity(Total(order), r) = order[1].replicas * Needs(order[1].containers, r)
                                        + order[2].replicas * Needs(order[2].containers, r)
<1> DEFINE x == order[1].replicas * Needs(order[1].containers, r)
           y == order[2].replicas * Needs(order[2].containers, r)
<1>1. x \in Int /\ y \in Int
  <2>1. /\ order[1].replicas \in Int /\ Needs(order[1].containers, r) \in Int
        /\ order[2].replicas \in Int /\ Needs(order[2].containers, r) \in Int
    BY ContainersNeed, NothingIs DEF Counts
  <2> QED
    BY <2>1
<1>2. PICK q : Growing(q, order, r)
  <2>1. Len(order) \in Nat /\ \A n \in 1 .. Len(order) : Counts(order[n])
    OBVIOUS
  <2> QED
    BY <2>1, TotalSteps
<1>3. /\ q[0 + 1] = q[0] + order[0 + 1].replicas * Needs(order[0 + 1].containers, r)
      /\ q[1 + 1] = q[1] + order[1 + 1].replicas * Needs(order[1 + 1].containers, r)
  BY <1>2 DEF Growing
<1>4. q[1] = 0 + x /\ q[2] = q[1] + y
  BY <1>2, <1>3 DEF Growing
<1> QED
  BY <1>1, <1>2, <1>4 DEF Growing

\* The launcher and the workers of a gang, pod by pod.
LEMMA TotalOfGang ==
    ASSUME NEW seq, NEW lc \in Seq(Containers), NEW wc \in Seq(Containers),
           Len(seq) \in Nat, Len(seq) >= 1,
           seq[1].containers = lc, seq[1].replicas = 1,
           \A n \in 2 .. Len(seq) : seq[n].containers = wc /\ seq[n].replicas = 1,
           NEW r
    PROVE  Quantity(Total(seq), r) = Needs(lc, r) + (Len(seq) - 1) * Needs(wc, r)
<1> DEFINE x == Needs(lc, r)
           y == Needs(wc, r)
           len == Len(seq)
<1>1. x \in Int /\ y \in Int
  BY ContainersNeed, NothingIs
<1>2. \A n \in 1 .. len : Counts(seq[n])
  BY DEF Counts
<1>3. PICK q : Growing(q, seq, r)
  BY <1>2, TotalSteps
<1>4. q[1] = x
  <2>1. q[0 + 1] = q[0] + seq[0 + 1].replicas * Needs(seq[0 + 1].containers, r)
    BY <1>3 DEF Growing
  <2>2. q[1] = 0 + 1 * x
    BY <1>3, <2>1 DEF Growing
  <2> QED
    BY <1>1, <2>2
<1>5. ASSUME NEW n \in Nat, n >= 1, n + 1 <= len PROVE q[n + 1] = q[n] + y
  <2>1. q[n + 1] = q[n] + seq[n + 1].replicas * Needs(seq[n + 1].containers, r)
    BY <1>3, <1>5 DEF Growing
  <2>2. seq[n + 1].containers = wc /\ seq[n + 1].replicas = 1
    BY <1>5
  <2>3. q[n + 1] = q[n] + 1 * y
    BY <2>1, <2>2
  <2> QED
    BY <1>1, <2>3
<1> HIDE DEF x, y, len
<1> DEFINE T == {n \in Nat : n + 1 <= len => q[n + 1] = x + n * y}
<1>6. 0 \in T
  BY <1>1, <1>4
<1>7. ASSUME NEW n \in T PROVE n + 1 \in T
  <2>1. SUFFICES ASSUME (n + 1) + 1 <= len PROVE q[(n + 1) + 1] = x + (n + 1) * y
    BY <1>7
  <2>2. n \in Nat /\ n + 1 \in Nat /\ len \in Nat
    BY <1>7 DEF len
  <2>3. q[n + 1] = x + n * y
    BY <1>7, <2>1, <2>2
  <2>4. q[(n + 1) + 1] = q[n + 1] + y
    BY <1>5, <2>1, <2>2
  <2>5. (n + 1) * y = n * y + y /\ n * y \in Int
    BY <1>1, <2>2
  <2> QED
    BY <1>1, <2>3, <2>4, <2>5
<1> HIDE DEF T
<1>8. T = Nat
  <2>1. T \in SUBSET Nat
    BY DEF T
  <2> QED
    BY <1>6, <1>7, <2>1, Induction
<1>9. q[len] = x + (len - 1) * y
  <2> DEFINE n == len - 1
  <2>1. n \in Nat /\ n + 1 = len /\ n + 1 <= len
    BY DEF len
  <2> HIDE DEF n
  <2>2. q[n + 1] = x + n * y
    BY <1>8, <2>1 DEF T
  <2> QED
    BY <2>1, <2>2 DEF n
<1> QED
  BY <1>3, <1>9 DEF x, y, len, Growing
-----------------------------------------------------------------------------
(* Specs, their defaults and their validation.                             *)

\* Absent is no object: neither a function, as records are, nor a set of keys.
AbsentApart ==
    /\ Absent # [x \in DOMAIN Absent |-> Absent[x]]
    /\ Absent # newSSHAuthSecret

\* A spec, of whose texts nothing is said: the provers do not take a literal
\* for a STRING.
Texts == Values(STRING) \cup {"None", "AtStartup", "OpenMPI", "Intel", "/root/.ssh"}

Shape ==
    [length : Nat,
     launcher : Values(ReplicaSpecType), worker : Values(ReplicaSpecType),
     slotsPerWorker : Values(Int),
     runLauncherAsWorker : BOOLEAN,
     sshAuthMountPath : Texts, mpiImplementation : Texts, launcherCreationPolicy : Texts,
     cleanPodPolicy : Texts,
     limits : [Limits -> Values(Int)],
     managedBy : Values(STRING),
     minAvailable : Values(Int),
     minResources : Values(ResourceLists),
     policyPriorityClass : Values(STRING)]

\* What users submit is of that shape.
LEMMA SpecsShaped == SpecType \subseteq Shape
BY DEF SpecType, Shape, Texts

\* The defaults of a replica spec.
LEMMA ReplicasDefaults ==
    ASSUME AbsentApart, NEW r \in ReplicaSpecType, NEW policy \in {"OnFailure", "Never"},
           NEW n \in Int
    PROVE  LET d == setDefaultsReplicas(r, policy, n) IN
           /\ d \in ReplicaSpecType /\ d # Absent
           /\ d.replicas = OrElse(r.replicas, n)
           /\ d.restartPolicy = OrElse(r.restartPolicy, policy)
           /\ d.containers = r.containers /\ d.priorityClass = r.priorityClass
<1>1. r # Absent
  BY DEF AbsentApart, ReplicaSpecType
<1> DEFINE d == [r EXCEPT !.restartPolicy = OrElse(@, policy), !.replicas = OrElse(@, n)]
<1>2. setDefaultsReplicas(r, policy, n) = d
  BY <1>1 DEF setDefaultsReplicas
<1>3. /\ d.replicas = OrElse(r.replicas, n)
      /\ d.restartPolicy = OrElse(r.restartPolicy, policy)
      /\ d.containers = r.containers /\ d.priorityClass = r.priorityClass
  BY DEF ReplicaSpecType
<1>4. d \in ReplicaSpecType
  BY DEF ReplicaSpecType, OrElse, Values
<1>5. d # Absent
  BY DEF AbsentApart
<1> QED
  BY <1>2, <1>3, <1>4, <1>5

\* The fields that SetDefaults sets keep the shape of a spec.
LEMMA ShapeWith ==
    ASSUME NEW s \in Shape, NEW a \in Texts, NEW n \in Values(Int), NEW b \in Texts,
           NEW c \in Texts, NEW e \in Texts, NEW r \in Values(ReplicaSpecType),
           NEW w \in Values(ReplicaSpecType)
    PROVE  [s EXCEPT !.cleanPodPolicy = a, !.slotsPerWorker = n, !.sshAuthMountPath = b,
                     !.mpiImplementation = c, !.launcherCreationPolicy = e,
                     !.launcher = r, !.worker = w] \in Shape
BY DEF Shape

\* What SetDefaults leaves a spec with.
LEMMA Defaults ==
    ASSUME AbsentApart, NEW s \in Shape
    PROVE  LET d == SetDefaults(s) IN
           /\ d \in Shape /\ d # Absent
           /\ d.length = s.length /\ d.limits = s.limits /\ d.managedBy = s.managedBy
           /\ d.runLauncherAsWorker = s.runLauncherAsWorker
           /\ d.minAvailable = s.minAvailable
           /\ d.launcher = setDefaultsTypeLauncher(s.launcher)
           /\ d.worker = setDefaultsTypeWorker(s.worker)
           /\ d.cleanPodPolicy = OrElse(s.cleanPodPolicy, "None")
           /\ d.slotsPerWorker = OrElse(s.slotsPerWorker, 1)
           /\ d.sshAuthMountPath = OrElse(s.sshAuthMountPath, "/root/.ssh")
           /\ d.mpiImplementation = OrElse(s.mpiImplementation, "OpenMPI")
<1>1. /\ setDefaultsTypeLauncher(s.launcher) \in Values(ReplicaSpecType)
      /\ setDefaultsTypeWorker(s.worker) \in Values(ReplicaSpecType)
  <2>1. s.launcher \in Values(ReplicaSpecType) /\ s.worker \in Values(ReplicaSpecType)
    BY DEF Shape
  <2>2. \A policy, n : setDefaultsReplicas(Absent, policy, n) = Absent
    BY DEF setDefaultsReplicas
  <2>3. \A r \in ReplicaSpecType :
            setDefaultsReplicas(r, "OnFailure", 1) \in ReplicaSpecType
            /\ setDefaultsReplicas(r, "Never", 0) \in ReplicaSpecType
    BY ReplicasDefaults
  <2> QED
    BY <2>1, <2>2, <2>3 DEF Values, setDefaultsTypeLauncher, setDefaultsTypeWorker
<1>2. /\ OrElse(s.cleanPodPolicy, "None") \in Texts
      /\ OrElse(s.sshAuthMountPath, "/root/.ssh") \in Texts
      /\ OrElse(s.mpiImplementation, "OpenMPI") \in Texts
      /\ OrElse(s.launcherCreationPolicy, "AtStartup") \in Texts
  <2>1. \A v \in Texts, x \in {"None", "AtStartup", "OpenMPI", "/root/.ssh"} :
            OrElse(v, x) \in Texts
    BY DEF OrElse, Texts
  <2> QED
    BY <2>1 DEF Shape
<1>3. OrElse(s.slotsPerWorker, 1) \in Values(Int)
  BY DEF Shape, OrElse, Values
<1> DEFINE d == [s EXCEPT !.cleanPodPolicy = OrElse(s.cleanPodPolicy, "None"),
                          !.slotsPerWorker = OrElse(s.slotsPerWorker, 1),
                          !.sshAuthMountPath = OrElse(s.sshAuthMountPath, "/root/.ssh"),
                          !.mpiImplementation = OrElse(s.mpiImplementation, "OpenMPI"),
                          !.launcherCreationPolicy = OrElse(s.launcherCreationPolicy, "AtStartup"),
                          !.launcher = setDefaultsTypeLauncher(s.launcher),
                          !.worker = setDefaultsTypeWorker(s.worker)]
<1>4. SetDefaults(s) = d
  BY DEF SetDefaults
<1>5. d \in Shape
  BY <1>1, <1>2, <1>3, ShapeWith
<1>6. d # Absent
  BY DEF AbsentApart
<1>7. /\ d.length = s.length /\ d.limits = s.limits /\ d.managedBy = s.managedBy
      /\ d.runLauncherAsWorker = s.runLauncherAsWorker
      /\ d.minAvailable = s.minAvailable
      /\ d.launcher = setDefaultsTypeLauncher(s.launcher)
      /\ d.worker = setDefaultsTypeWorker(s.worker)
      /\ d.cleanPodPolicy = OrElse(s.cleanPodPolicy, "None")
      /\ d.slotsPerWorker = OrElse(s.slotsPerWorker, 1)
      /\ d.sshAuthMountPath = OrElse(s.sshAuthMountPath, "/root/.ssh")
      /\ d.mpiImplementation = OrElse(s.mpiImplementation, "OpenMPI")
  BY DEF Shape
<1> HIDE DEF d
<1> QED
  BY <1>4, <1>5, <1>6, <1>7

\* What a spec that passes the validation is like.
LEMMA Accepted ==
    ASSUME NEW s \in Shape, ValidateGroupJob(s) = {}
    PROVE  /\ s.launcher # Absent /\ s.launcher \in ReplicaSpecType
           /\ s.launcher.restartPolicy \in {"Never", "OnFailure"}
           /\ s.worker # Absent =>
                 /\ s.worker \in ReplicaSpecType
                 /\ s.worker.replicas \in Nat /\ s.worker.replicas > 0
                 /\ s.worker.restartPolicy \in {"Never", "OnFailure"}
           /\ workerReplicas(s) \in Nat
           /\ s.worker # Absent => workerReplicas(s) = s.worker.replicas
           /\ s.mpiImplementation \in MPIImplementations
           /\ ~(NameLength(s.length, maximumPodHostname(s)) > MaxLabel)
<1> USE DEF ValidateGroupJob, If
<1>1. s.launcher # Absent /\ s.launcher.restartPolicy \in {"Never", "OnFailure"}
  BY DEF validateLauncherReplicaSpec, validateReplicaSpec
<1>2. s.launcher \in ReplicaSpecType
  BY <1>1 DEF Shape, Values
<1>3. ASSUME s.worker # Absent
      PROVE  /\ s.worker \in ReplicaSpecType
             /\ s.worker.replicas \in Nat /\ s.worker.replicas > 0
             /\ s.worker.restartPolicy \in {"Never", "OnFailure"}
             /\ workerReplicas(s) = s.worker.replicas
  <2>1. s.worker \in ReplicaSpecType
    BY <1>3 DEF Shape, Values
  <2>2. /\ s.worker.replicas # Absent /\ ~(s.worker.replicas <= 0)
        /\ s.worker.restartPolicy \in {"Never", "OnFailure"}
    BY <1>3 DEF validateWorkerReplicaSpec, validateReplicaSpec
  <2>3. s.worker.replicas \in Int
    BY <2>1, <2>2 DEF ReplicaSpecType, Values
  <2> QED
    BY <1>3, <2>1, <2>2, <2>3 DEF workerReplicas, OrElse
<1>4. workerReplicas(s) \in Nat
  BY <1>3 DEF workerReplicas
<1>5. s.mpiImplementation \in MPIImplementations
  OBVIOUS
<1>6. ~(NameLength(s.length, maximumPodHostname(s)) > MaxLabel)
  BY DEF validateGroupJobName
<1> QED
  BY <1>1, <1>2, <1>3, <1>4, <1>5, <1>6

\* Filling in what is filled in changes nothing.
LEMMA FilledOnce == \A v, d : OrElse(OrElse(v, d), d) = OrElse(v, d)
BY DEF OrElse

\* A copy of a half-defaulted replica spec gets the defaults of the whole one.
LEMMA ReplicaCopies ==
    ASSUME AbsentApart, NEW r \in Values(ReplicaSpecType), NEW policy \in {"OnFailure", "Never"},
           NEW n \in Int,
           NEW copy \in ReplicaSpecCopies(r, setDefaultsReplicas(r, policy, n))
    PROVE  setDefaultsReplicas(copy, policy, n) = setDefaultsReplicas(r, policy, n)
<1>1. CASE r = Absent
  BY <1>1 DEF ReplicaSpecCopies, setDefaultsReplicas
<1>2. CASE r # Absent
  <2>1. r \in ReplicaSpecType
    BY <1>2 DEF Values
  <2> DEFINE d == setDefaultsReplicas(r, policy, n)
  <2>2. /\ d.replicas = OrElse(r.replicas, n)
        /\ d.restartPolicy = OrElse(r.restartPolicy, policy)
    BY <2>1, ReplicasDefaults
  <2>3. PICK m \in {r.replicas, d.replicas}, p \in {r.restartPolicy, d.restartPolicy} :
            copy = [r EXCEPT !.replicas = m, !.restartPolicy = p]
    BY <1>2 DEF ReplicaSpecCopies
  <2>4. OrElse(m, n) = d.replicas /\ OrElse(p, policy) = d.restartPolicy
    BY <2>2, <2>3, FilledOnce
  <2>5. copy # Absent
    BY <2>3 DEF AbsentApart
  <2>6. d = [r EXCEPT !.restartPolicy = d.restartPolicy, !.replicas = d.replicas]
    BY <1>2, <2>2 DEF setDefaultsReplicas
  <2>7. setDefaultsReplicas(copy, policy, n)
          = [copy EXCEPT !.restartPolicy = OrElse(copy.restartPolicy, policy),
                         !.replicas = OrElse(copy.replicas, n)]
    BY <2>5 DEF setDefaultsReplicas
  <2>8. copy.restartPolicy = p /\ copy.replicas = m
    BY <2>1, <2>3 DEF ReplicaSpecType
  <2>9. [copy EXCEPT !.restartPolicy = d.restartPolicy, !.replicas = d.replicas]
          = [r EXCEPT !.restartPolicy = d.restartPolicy, !.replicas = d.replicas]
    <3> HIDE DEF d
    <3> QED
      BY <2>1, <2>3 DEF ReplicaSpecType
  <2> HIDE DEF d
  <2> QED
    BY <2>4, <2>6, <2>7, <2>8, <2>9 DEF d
<1> QED
  BY <1>1, <1>2

\* Whatever addGroupJob has set when syncHandler copies the cached spec, the
\* defaults of the copy are those of the spec (zz_generated.deepcopy.go).
LEMMA SpecCopies ==
    ASSUME AbsentApart, NEW s \in Shape, NEW c \in GroupJobSpecCopies(s)
    PROVE  SetDefaults(c) = SetDefaults(s)
<1> DEFINE d == SetDefaults(s)
<1>1. PICK runPolicy \in RunPolicyCopies(s, d),
           done \in SUBSET {"slotsPerWorker", "sshAuthMountPath", "mpiImplementation",
                            "launcherCreationPolicy"},
           l \in ReplicaSpecCopies(s.launcher, d.launcher),
           w \in ReplicaSpecCopies(s.worker, d.worker) :
        c = SpecCopy(runPolicy, d, done, l, w)
  BY DEF GroupJobSpecCopies
<1>2. PICK clean \in {s.cleanPodPolicy, d.cleanPodPolicy} :
        runPolicy = [s EXCEPT !.cleanPodPolicy = clean]
  BY DEF RunPolicyCopies
<1>3. /\ d.launcher = setDefaultsTypeLauncher(s.launcher)
      /\ d.worker = setDefaultsTypeWorker(s.worker)
      /\ d.cleanPodPolicy = OrElse(s.cleanPodPolicy, "None")
      /\ d.slotsPerWorker = OrElse(s.slotsPerWorker, 1)
      /\ d.sshAuthMountPath = OrElse(s.sshAuthMountPath, "/root/.ssh")
      /\ d.mpiImplementation = OrElse(s.mpiImplementation, "OpenMPI")
      /\ d.launcherCreationPolicy = OrElse(s.launcherCreationPolicy, "AtStartup")
  BY DEF SetDefaults, Shape
<1>4. /\ setDefaultsTypeLauncher(l) = d.launcher
      /\ setDefaultsTypeWorker(w) = d.worker
  <2>1. s.launcher \in Values(ReplicaSpecType) /\ s.worker \in Values(ReplicaSpecType)
    BY DEF Shape
  <2> QED
    BY <1>3, <2>1, ReplicaCopies DEF setDefaultsTypeLauncher, setDefaultsTypeWorker
<1> HIDE DEF d
<1>5. /\ c.launcher = l /\ c.worker = w
      /\ c.cleanPodPolicy \in {s.cleanPodPolicy, d.cleanPodPolicy}
      /\ c.slotsPerWorker \in {s.slotsPerWorker, d.slotsPerWorker}
      /\ c.sshAuthMountPath \in {s.sshAuthMountPath, d.sshAuthMountPath}
      /\ c.mpiImplementation \in {s.mpiImplementation, d.mpiImplementation}
      /\ c.launcherCreationPolicy \in {s.launcherCreationPolicy, d.launcherCreationPolicy}
  BY <1>1, <1>2 DEF Shape, SpecCopy
<1>6. /\ OrElse(c.cleanPodPolicy, "None") = d.cleanPodPolicy
      /\ OrElse(c.slotsPerWorker, 1) = d.slotsPerWorker
      /\ OrElse(c.sshAuthMountPath, "/root/.ssh") = d.sshAuthMountPath
      /\ OrElse(c.mpiImplementation, "OpenMPI") = d.mpiImplementation
      /\ OrElse(c.launcherCreationPolicy, "AtStartup") = d.launcherCreationPolicy
  BY <1>3, <1>5, FilledOnce
<1>7. \A e : LET With(r) == [r EXCEPT !.cleanPodPolicy = e.cleanPodPolicy,
                                      !.slotsPerWorker = e.slotsPerWorker,
                                      !.sshAuthMountPath = e.sshAuthMountPath,
                                      !.mpiImplementation = e.mpiImplementation,
                                      !.launcherCreationPolicy = e.launcherCreationPolicy,
                                      !.launcher = e.launcher, !.worker = e.worker]
             IN  With(c) = With(s)
  BY <1>1, <1>2 DEF Shape, SpecCopy
<1> DEFINE With(r) == [r EXCEPT !.cleanPodPolicy = d.cleanPodPolicy,
                                !.slotsPerWorker = d.slotsPerWorker,
                                !.sshAuthMountPath = d.sshAuthMountPath,
                                !.mpiImplementation = d.mpiImplementation,
                                !.launcherCreationPolicy = d.launcherCreationPolicy,
                                !.launcher = d.launcher, !.worker = d.worker]
<1>8. SetDefaults(c) = With(c)
  BY <1>4, <1>5, <1>6 DEF SetDefaults
<1>9. d = With(s)
  <2>1. \A e : e = SetDefaults(s) =>
            e = [s EXCEPT !.cleanPodPolicy = OrElse(s.cleanPodPolicy, "None"),
                          !.slotsPerWorker = OrElse(s.slotsPerWorker, 1),
                          !.sshAuthMountPath = OrElse(s.sshAuthMountPath, "/root/.ssh"),
                          !.mpiImplementation = OrElse(s.mpiImplementation, "OpenMPI"),
                          !.launcherCreationPolicy = OrElse(s.launcherCreationPolicy, "AtStartup"),
                          !.launcher = setDefaultsTypeLauncher(s.launcher),
                          !.worker = setDefaultsTypeWorker(s.worker)]
    BY DEF SetDefaults
  <2> QED
    BY <1>3, <2>1 DEF d
<1> QED
  BY <1>7, <1>8, <1>9 DEF d

-----------------------------------------------------------------------------
(* Pods and the launcher's template, whoever made them from whatever spec. *)

Member(t, gang, role) ==
    /\ t.subdomain = serviceName /\ t.labels.role = role
    /\ t.restartPolicy \in {"Never", "OnFailure"}
    /\ gang = Absent => t.podGroup = Absent
    /\ gang # Absent =>
          t.schedulerName = gang /\ \A key \in DOMAIN t.podGroup : t.podGroup[key] = podGroupName

WorkerPod(t, gang, asWorker, i) ==
    /\ Member(t, gang, "worker")
    /\ t.hostname = workerName(i)
    /\ t.labels.index = IF asWorker THEN i + 1 ELSE i
    /\ \A mount \in t.mounts : mount.volume = sshVolume
    /\ \A v \in t.env : Len(v) # 3

LauncherPod(t, gang, asWorker) ==
    /\ Member(t, gang, "launcher")
    /\ t.hostname = launcherName
    /\ t.labels.index = IF asWorker THEN 0 ELSE NoIndex
    /\ \A mount \in t.mounts : mount.volume \in {sshVolume, configVolume}
    /\ \A v \in t.env : Len(v) = 3 => v[2] = configMountPath /\ v[3] = hostfileName
    /\ Mount(configVolume, configMountPath) \in t.mounts

Plain(h, l, r, e, m) ==
    [hostname |-> h, subdomain |-> serviceName, labels |-> l, restartPolicy |-> r,
     schedulerName |-> Absent, podGroup |-> Absent, env |-> e, mounts |-> m]

\* The scheduler's marks change nothing else of a template.
LEMMA Decorated ==
    ASSUME NEW gang, NEW h, NEW l, NEW r, NEW e, NEW m, NEW t,
           t = decoratePodTemplateSpec(gang, Plain(h, l, r, e, m))
    PROVE  /\ t.hostname = h /\ t.subdomain = serviceName /\ t.labels = l
           /\ t.restartPolicy = r /\ t.env = e /\ t.mounts = m
           /\ gang = Absent => t.podGroup = Absent
           /\ gang # Absent => t.schedulerName = gang
           /\ gang # Absent => \A key \in DOMAIN t.podGroup : t.podGroup[key] = podGroupName
BY DEF decoratePodTemplateSpec, decorateForVolcano, decorateForSchedulerPlugins, Plain

\* newWorker makes worker pods.
LEMMA WorkersMade ==
    ASSUME NEW gang, NEW s, NEW i, s.worker.restartPolicy \in {"Never", "OnFailure"}
    PROVE  WorkerPod(newWorker(gang, s, i), gang, s.runLauncherAsWorker, i)
<1> DEFINE labels == [defaultLabels("worker") EXCEPT !.index = workerReplicaIndexLabel(s, i)]
           env == {roleEnv("worker")}
           mounts == {setupSSHOnPod(s)}
<1>1. labels.role = "worker" /\ labels.index = workerReplicaIndexLabel(s, i)
  BY DEF defaultLabels
<1>2. \A v \in env : Len(v) # 3
  BY DEF roleEnv
<1>3. \A mount \in mounts : mount.volume = sshVolume
  BY DEF setupSSHOnPod, Mount
<1>4. setRestartPolicy(s.worker) = s.worker.restartPolicy
  BY DEF setRestartPolicy
<1> HIDE DEF labels, env, mounts
<1> DEFINE host == workerName(i)
           policy == setRestartPolicy(s.worker)
           t == decoratePodTemplateSpec(gang, Plain(host, labels, policy, env, mounts))
<1>5. newWorker(gang, s, i) = t
  BY DEF newWorker, Plain, labels, env, mounts
<1> HIDE DEF host, policy, t
<1>6. /\ t.hostname = host /\ t.subdomain = serviceName /\ t.labels = labels
      /\ t.restartPolicy = policy /\ t.env = env /\ t.mounts = mounts
      /\ gang = Absent => t.podGroup = Absent
      /\ gang # Absent => t.schedulerName = gang
      /\ gang # Absent => \A key \in DOMAIN t.podGroup : t.podGroup[key] = podGroupName
  BY Decorated DEF t
<1> QED
  BY <1>1, <1>2, <1>3, <1>4, <1>5, <1>6 DEF WorkerPod, Member, host, policy, workerReplicaIndexLabel

\* newLauncherPodTemplate makes launchers.
LEMMA LaunchersMade ==
    ASSUME NEW gang, NEW s, s.launcher.restartPolicy \in {"Never", "OnFailure"},
           s.mpiImplementation \in MPIImplementations
    PROVE  LauncherPod(newLauncherPodTemplate(gang, s), gang, s.runLauncherAsWorker)
<1> DEFINE labels == [defaultLabels("launcher") EXCEPT
                        !.index = IF s.runLauncherAsWorker THEN 0 ELSE NoIndex]
           env == launcherEnvVars(s)
           mounts == {setupSSHOnPod(s), Mount(configVolume, configMountPath)}
<1>1. /\ labels.role = "launcher"
      /\ labels.index = IF s.runLauncherAsWorker THEN 0 ELSE NoIndex
  BY DEF defaultLabels
<1>2. \A v \in env : Len(v) = 3 => v[2] = configMountPath /\ v[3] = hostfileName
  BY DEF launcherEnvVars, roleEnv, MPIImplementations
<1>3. /\ \A mount \in mounts : mount.volume \in {sshVolume, configVolume}
      /\ Mount(configVolume, configMountPath) \in mounts
  BY DEF setupSSHOnPod, Mount
<1>4. setRestartPolicy(s.launcher) = s.launcher.restartPolicy
  BY DEF setRestartPolicy
<1> HIDE DEF labels, env, mounts
<1> DEFINE host == launcherName
           policy == setRestartPolicy(s.launcher)
           t == decoratePodTemplateSpec(gang, Plain(host, labels, policy, env, mounts))
<1>5. newLauncherPodTemplate(gang, s) = t
  BY DEF newLauncherPodTemplate, Plain, labels, env, mounts
<1> HIDE DEF host, policy, t
<1>6. /\ t.hostname = host /\ t.subdomain = serviceName /\ t.labels = labels
      /\ t.restartPolicy = policy /\ t.env = env /\ t.mounts = mounts
      /\ gang = Absent => t.podGroup = Absent
      /\ gang # Absent => t.schedulerName = gang
      /\ gang # Absent => \A key \in DOMAIN t.podGroup : t.podGroup[key] = podGroupName
  BY Decorated DEF t
<1> QED
  BY <1>1, <1>2, <1>3, <1>4, <1>5, <1>6 DEF LauncherPod, Member, host, policy

-----------------------------------------------------------------------------
(* The invariant.                                                          *)

\* A job that passed the validation; its name is that of every version of it.
Valid(s) ==
    /\ s \in Shape /\ ValidateGroupJob(s) = {}
    /\ workerReplicas(s) \in 0 .. MaxWorkers
    /\ s.length = spec.length

Types ==
    /\ scheduler \in {Absent, "volcano", "scheduler-plugins"}
    /\ spec \in Shape /\ workerReplicas(spec) \in Int /\ workerReplicas(spec) <= MaxWorkers
    /\ pc \in Stages /\ scaling \in BOOLEAN /\ edits \in 0 .. MaxEdits
    /\ pods = [i \in Index |-> pods[i]] /\ running \subseteq created
    /\ service \in {Absent, newJobService} /\ secret \in {Absent, newSSHAuthSecret}
    /\ configMap # Absent => DOMAIN configMap = {"hostfile", "discoverHosts"}
    /\ podGroup # Absent => podGroup.minMember \in Int

\* The copy of a sync, and that of one that has got to its end.
JobInv ==
    /\ pc = "idle" => job = Absent
    /\ pc # "idle" =>
          /\ job # Absent /\ Valid(job) /\ settled = Absent
          /\ job.runLauncherAsWorker = spec.runLauncherAsWorker
    /\ settled # Absent => Valid(settled)

\* Pods of all syncs are alike in what matters to others, and have short names.
PodsInv ==
    /\ \A i \in Index : pods[i] # Absent =>
          /\ WorkerPod(pods[i], scheduler, spec.runLauncherAsWorker, i)
          /\ spec.length + 8 + Digits(i) <= MaxLabel
    /\ launcher # Absent => LauncherPod(launcher, scheduler, spec.runLauncherAsWorker)

HostsOf(s) ==
    \A line \in configMap.hostfile :
        \/ line.host = Host(launcherName)
        \/ \E i \in 0 .. workerReplicas(s) - 1 : line.host = Host(workerName(i))

MembersOf(s) ==
    scheduler # Absent =>
        /\ podGroup # Absent
        /\ s.minAvailable = Absent => podGroup.minMember = workerReplicas(s) + 1

WorkersOf(s) == \A i \in 0 .. workerReplicas(s) - 1 : pods[i] # Absent

\* The order of the calls: what there is at each stage.
StageInv ==
    /\ pc \notin {"idle", "Service"} => service = newJobService
    /\ pc \notin {"idle", "Service", "ConfigMap"} => configMap # Absent /\ HostsOf(job)
    /\ pc \notin {"idle", "Service", "ConfigMap", "Secret"} => secret = newSSHAuthSecret
    /\ pc = "PodGroup" => scheduler # Absent
    /\ pc \in {"ScaleDown", "Workers", "Launcher"} => MembersOf(job)
    /\ pc = "Launcher" => WorkersOf(job)
    /\ settled # Absent =>
          /\ service = newJobService /\ configMap # Absent /\ secret = newSSHAuthSecret
          /\ HostsOf(settled) /\ MembersOf(settled) /\ WorkersOf(settled)

\* What pods need stays once it was there.
NeedsInv ==
    /\ scheduler = Absent => podGroup = Absent
    /\ (\E i \in Index : pods[i] # Absent) \/ launcher # Absent =>
          /\ service = newJobService /\ configMap # Absent /\ secret = newSSHAuthSecret
          /\ scheduler # Absent => podGroup # Absent
    /\ \/ pc # "idle" \/ service # Absent \/ configMap # Absent \/ secret # Absent
       \/ launcher # Absent
       => spec.length + 9 <= MaxLabel

ObjectsInv == Types /\ JobInv /\ PodsInv /\ StageInv /\ NeedsInv

\* Names are short enough for all that a valid job gets.
LEMMA NamesFit ==
    ASSUME NEW s \in Shape, ValidateGroupJob(s) = {}
    PROVE  /\ s.length + 9 <= MaxLabel
           /\ \A i \in Nat : i < workerReplicas(s) => s.length + 8 + Digits(i) <= MaxLabel
<1>1. /\ workerReplicas(s) \in Nat
      /\ s.worker # Absent => s.worker.replicas > 0 /\ workerReplicas(s) = s.worker.replicas
      /\ s.worker # Absent => s.worker.replicas \in Nat
      /\ ~(NameLength(s.length, maximumPodHostname(s)) > MaxLabel)
  BY Accepted
<1> DEFINE last == (IF workerReplicas(s) > 0 THEN workerReplicas(s) ELSE 1) - 1
<1>2. maximumPodHostname(s) = workerName(last)
  <2>1. CASE s.worker = Absent
    BY <2>1 DEF maximumPodHostname, workerReplicas
  <2>2. CASE s.worker # Absent
    <3>1. OrElse(s.worker.replicas, 1) = s.worker.replicas
      BY <1>1, <2>2, AbsentAssumption DEF OrElse
    <3> QED
      BY <1>1, <2>2, <3>1 DEF maximumPodHostname
  <2> QED
    BY <2>1, <2>2
<1>3. last \in Nat
  BY <1>1
<1> HIDE DEF last
<1>4. NameLength(s.length, workerName(last)) = s.length + 8 + Digits(last)
  BY DEF NameLength, workerName, Name, SuffixLengths
<1>5. s.length \in Nat /\ Digits(last) \in Nat /\ Digits(last) >= 1
  BY <1>3, DigitsGrow DEF Shape
<1>6. s.length + 8 + Digits(last) <= MaxLabel
  BY <1>1, <1>2, <1>4, <1>5 DEF MaxLabel
<1>7. ASSUME NEW i \in Nat, i < workerReplicas(s) PROVE Digits(i) \in Nat /\ Digits(i) <= Digits(last)
  BY <1>1, <1>3, <1>7, DigitsGrow DEF last
<1> QED
  BY <1>5, <1>6, <1>7 DEF MaxLabel

\* The defaults do not change the number of workers.
LEMMA DefaultsScale ==
    ASSUME AbsentApart, NEW s \in Shape
    PROVE  workerReplicas(SetDefaults(s)) = workerReplicas(s)
<1>1. SetDefaults(s).worker = setDefaultsTypeWorker(s.worker)
  BY Defaults
<1>2. CASE s.worker = Absent
  BY <1>1, <1>2 DEF workerReplicas, setDefaultsTypeWorker, setDefaultsReplicas
<1>3. CASE s.worker # Absent
  <2>1. s.worker \in ReplicaSpecType
    BY <1>3 DEF Shape, Values
  <2>2. /\ setDefaultsTypeWorker(s.worker).replicas = OrElse(s.worker.replicas, 0)
        /\ setDefaultsTypeWorker(s.worker) # Absent
    BY <2>1, ReplicasDefaults DEF setDefaultsTypeWorker
  <2> QED
    BY <1>1, <1>3, <2>2, FilledOnce DEF workerReplicas
<1> QED
  BY <1>2, <1>3

\* The number of workers is a number.
LEMMA Counted == ASSUME NEW s \in Shape PROVE workerReplicas(s) \in Int
BY DEF Shape, ReplicaSpecType, workerReplicas, OrElse, Values

\* newPodGroup of either scheduler.
LEMMA GroupsMade ==
    ASSUME AbsentApart, NEW gang, NEW s \in Shape, NEW g \in newPodGroups(gang, s)
    PROVE  /\ g # Absent /\ g.minMember \in Int
           /\ s.minAvailable = Absent => g.minMember = workerReplicas(s) + 1
<1>1. \A class : g \in PodGroups(s, class) =>
            \E order : g = [minMember |-> calculateMinAvailable(s), priorityClass |-> class,
                            minResources |->
                                calculatePGMinResources(calculateMinAvailable(s), s, order)]
  BY DEF PodGroups
<1>2. \E class : g \in PodGroups(s, class)
  BY DEF newPodGroups, newVolcanoPodGroups, newSchedulerPluginsPodGroups
<1>3. PICK class, resources :
        g = [minMember |-> calculateMinAvailable(s), priorityClass |-> class,
             minResources |-> resources]
  BY <1>1, <1>2
<1>4. g # Absent /\ g.minMember = calculateMinAvailable(s)
  BY <1>3 DEF AbsentApart
<1>5. s.minAvailable \in Values(Int) /\ workerReplicas(s) \in Int
  BY Counted DEF Shape
<1> QED
  BY <1>4, <1>5 DEF calculateMinAvailable, OrElse, Values

-----------------------------------------------------------------------------
(* Initially, and in every step.                                           *)

\* There is nothing yet.
LEMMA InitObjects ==
    ASSUME AbsentApart, Init
    PROVE  ObjectsInv
<1>1. PICK s \in Submissions : scheduler = s.scheduler /\ spec = s.spec
  BY DEF Init
<1>2. /\ s.scheduler \in {Absent, "volcano", "scheduler-plugins"} /\ s.spec \in Shape
      /\ workerReplicas(s.spec) <= MaxWorkers
  BY EditsAssumption, SpecsShaped
<1>3. Types
  <2>1. spec \in Shape /\ workerReplicas(spec) \in Int /\ workerReplicas(spec) <= MaxWorkers
    BY <1>1, <1>2, Counted
  <2>2. edits \in 0 .. MaxEdits
    BY EditsAssumption DEF Init
  <2>3. pods = [i \in Index |-> pods[i]] /\ running \subseteq created
    BY DEF Init
  <2> QED
    BY <1>1, <1>2, <2>1, <2>2, <2>3 DEF Init, Types, Stages
<1> QED
  BY <1>3 DEF Init, ObjectsInv, JobInv, PodsInv, StageInv, NeedsInv

\* Whatever the spec is turned into is what the next sync may find.
LEMMA SyncStartObjects ==
    ASSUME AbsentApart, ObjectsInv, SyncStart
    PROVE  ObjectsInv'
<1> USE DEF ObjectsInv
<1> DEFINE copy == SetDefaults(spec)
<1>1. spec \in Shape /\ pc = "idle" /\ job = Absent
  BY DEF SyncStart, Types, JobInv
<1>2. /\ copy \in Shape /\ copy # Absent /\ copy.length = spec.length
      /\ copy.runLauncherAsWorker = spec.runLauncherAsWorker
      /\ workerReplicas(copy) = workerReplicas(spec)
  BY <1>1, Defaults, DefaultsScale
<1>3. /\ UNCHANGED <<scheduler, spec, scaling, objects, podVars, edits>> /\ settled' = Absent
      /\ \/ pc' = "Service" /\ job' = copy /\ ValidateGroupJob(copy) = {}
         \/ UNCHANGED <<pc, job>>
  BY DEF SyncStart, accepted
<1> HIDE DEF copy
<1> USE <1>3 DEF objects, podVars
<1>4. Types'
  BY DEF Types, Stages, created
<1>5. JobInv'
  <2>1. CASE pc' = "Service" /\ job' = copy /\ ValidateGroupJob(copy) = {}
    <3>1. workerReplicas(copy) \in 0 .. MaxWorkers
      BY <1>2, <2>1, Accepted DEF Types
    <3> QED
      BY <1>2, <2>1, <3>1 DEF JobInv, Valid
  <2>2. CASE UNCHANGED <<pc, job>>
    BY <1>1, <2>2 DEF JobInv
  <2> QED
    BY <2>1, <2>2
<1>6. PodsInv'
  BY DEF PodsInv
<1>7. StageInv'
  BY <1>1 DEF StageInv
<1>8. NeedsInv'
  <2>1. CASE pc' = "Service" /\ job' = copy /\ ValidateGroupJob(copy) = {}
    BY <1>2, <2>1, NamesFit DEF NeedsInv
  <2>2. CASE UNCHANGED <<pc, job>>
    BY <2>2 DEF NeedsInv
  <2> QED
    BY <2>1, <2>2
<1> QED
  BY <1>4, <1>5, <1>6, <1>7, <1>8

\* Each call leaves what the next ones count on.
LEMMA CallObjects ==
    ASSUME AbsentApart, ObjectsInv, Call
    PROVE  ObjectsInv'
<1> USE DEF ObjectsInv
<1>1. /\ UNCHANGED <<scheduler, spec, job, scaling, settled, launcher, pods, running, edits>>
      /\ job # Absent /\ Valid(job) /\ settled = Absent /\ pc # "idle"
      /\ job.runLauncherAsWorker = spec.runLauncherAsWorker
  BY DEF Call, podVars, JobInv
<1>2. job \in Shape /\ spec.length + 9 <= MaxLabel
  BY <1>1 DEF Valid, NeedsInv
<1> USE <1>1
<1>3. CASE pc = "Service"
  <2>1. /\ service' = newJobService /\ pc' = "ConfigMap"
        /\ UNCHANGED <<configMap, secret, podGroup>>
    BY <1>3 DEF Call, Successor
  <2>2. Types'
    BY <2>1 DEF Types, Stages, created
  <2>3. JobInv' /\ PodsInv' /\ StageInv' /\ NeedsInv'
    BY <1>2, <2>1, <1>3 DEF JobInv, Valid, PodsInv, StageInv, NeedsInv
  <2> QED
    BY <2>2, <2>3
<1>4. CASE pc = "ConfigMap"
  <2>1. /\ configMap' = newConfigMap(job, running) /\ pc' = "Secret"
        /\ UNCHANGED <<service, secret, podGroup>>
    BY <1>4 DEF Call, Successor
  <2>2. configMap' # Absent /\ DOMAIN configMap' = {"hostfile", "discoverHosts"}
    BY <2>1 DEF newConfigMap, AbsentApart
  <2>3. HostsOf(job)'
    <3>1. \A name : Line(job, name).host = Host(name)
      BY DEF Line
    <3>2. configMap'.hostfile = {Line(job, name) : name \in launcherHosts(job) \cup
                                    {workerName(i) : i \in 0 .. workerReplicas(job) - 1}}
      BY <2>1 DEF newConfigMap
    <3>3. launcherHosts(job) \subseteq {launcherName}
      BY DEF launcherHosts
    <3> QED
      BY <3>1, <3>2, <3>3 DEF HostsOf
  <2>4. Types'
    BY <2>1, <2>2 DEF Types, Stages, created
  <2>5. JobInv' /\ PodsInv' /\ StageInv' /\ NeedsInv'
    BY <1>2, <2>1, <2>2, <2>3, <1>4 DEF JobInv, Valid, PodsInv, StageInv, NeedsInv
  <2> QED
    BY <2>4, <2>5
<1>5. CASE pc = "Secret"
  <2>1. /\ secret' = newSSHAuthSecret
        /\ pc' = IF scheduler = Absent THEN "ScaleDown" ELSE "PodGroup"
        /\ UNCHANGED <<service, configMap, podGroup>>
    BY <1>5 DEF Call, Successor
  <2>2. Types'
    BY <2>1 DEF Types, Stages, created
  <2>3. StageInv'
    BY <1>5, <2>1 DEF StageInv, HostsOf, MembersOf
  <2>4. JobInv' /\ PodsInv' /\ NeedsInv'
    BY <1>2, <2>1, <1>5 DEF JobInv, Valid, PodsInv, NeedsInv
  <2> QED
    BY <2>2, <2>3, <2>4
<1>6. CASE pc = "PodGroup"
  <2>1. /\ podGroup' \in newPodGroups(scheduler, job) /\ pc' = "ScaleDown"
        /\ UNCHANGED <<service, configMap, secret>>
    BY <1>6 DEF Call, Successor
  <2>2. /\ podGroup' # Absent /\ podGroup'.minMember \in Int
        /\ job.minAvailable = Absent => podGroup'.minMember = workerReplicas(job) + 1
    BY <1>2, <2>1, GroupsMade
  <2>3. scheduler # Absent
    BY <1>6 DEF StageInv
  <2>4. Types'
    BY <2>1, <2>2 DEF Types, Stages, created
  <2>5. StageInv'
    BY <1>6, <2>1, <2>2 DEF StageInv, HostsOf, MembersOf
  <2>6. JobInv' /\ PodsInv' /\ NeedsInv'
    BY <1>2, <2>1, <2>2, <2>3, <1>6 DEF JobInv, Valid, PodsInv, NeedsInv
  <2> QED
    BY <2>4, <2>5, <2>6
<1> QED
  BY <1>3, <1>4, <1>5, <1>6 DEF Call

\* A set of numbers has a least one.
LEMMA Least ==
    ASSUME NEW S \in SUBSET Nat, S # {}
    PROVE  \E i \in S : \A j \in S : i <= j
<1> DEFINE T == {n \in Nat : \A j \in S : n <= j}
<1>1. SUFFICES ASSUME \A i \in S : i \notin T PROVE FALSE
  OBVIOUS
<1>2. 0 \in T
  OBVIOUS
<1>3. ASSUME NEW n \in T PROVE n + 1 \in T
  BY <1>1, <1>3
<1> HIDE DEF T
<1>4. T = Nat
  <2>1. T \in SUBSET Nat
    BY DEF T
  <2> QED
    BY <1>2, <1>3, <2>1, Induction
<1> QED
  BY <1>1, <1>4

\* Pods go one by one, and no later stage counts on surplus ones.
LEMMA ScaleDownObjects ==
    ASSUME ObjectsInv, ScaleDown
    PROVE  ObjectsInv'
<1> USE DEF ObjectsInv
<1>1. /\ UNCHANGED <<scheduler, spec, job, settled, service, configMap, secret, podGroup,
                     launcher, edits>>
      /\ job # Absent /\ Valid(job) /\ settled = Absent /\ pc = "ScaleDown"
      /\ job.runLauncherAsWorker = spec.runLauncherAsWorker
  BY DEF ScaleDown, objects, JobInv
<1> USE <1>1
<1>2. CASE pc' = Successor(pc) /\ scaling' = FALSE /\ UNCHANGED podVars
  <2>1. pc' = "Workers"
    BY <1>2 DEF Successor
  <2>2. Types'
    BY <1>2, <2>1 DEF Types, Stages, created, podVars
  <2>3. StageInv'
    BY <1>2, <2>1 DEF StageInv, HostsOf, MembersOf
  <2>4. JobInv' /\ PodsInv' /\ NeedsInv'
    BY <1>2, <2>1 DEF JobInv, Valid, PodsInv, NeedsInv, podVars
  <2> QED
    BY <2>2, <2>3, <2>4
<1>3. ASSUME NEW i \in surplus,
             pods' = [pods EXCEPT ![i] = Absent], running' = running \ {i}, scaling' = TRUE,
             UNCHANGED pc
      PROVE  ObjectsInv'
  <2>1. /\ i \in Index
        /\ \A j \in Index : pods'[j] = IF j = i THEN Absent ELSE pods[j]
        /\ pods' = [j \in Index |-> pods'[j]]
    BY <1>3 DEF surplus, created, Types
  <2>2. running' \subseteq created'
    BY <1>3, <2>1 DEF Types, created
  <2>3. Types'
    BY <1>3, <2>1, <2>2 DEF Types
  <2>4. StageInv'
    BY <1>3 DEF StageInv, HostsOf, MembersOf
  <2>5. JobInv' /\ PodsInv' /\ NeedsInv'
    BY <1>3, <2>1 DEF JobInv, Valid, PodsInv, NeedsInv
  <2> QED
    BY <2>3, <2>4, <2>5
<1> QED
  BY <1>2, <1>3 DEF ScaleDown

\* Pods come one by one; when none is missing, the workers are complete.
LEMMA GetOrCreateWorkerObjects ==
    ASSUME ObjectsInv, GetOrCreateWorker
    PROVE  ObjectsInv'
<1> USE DEF ObjectsInv
<1>1. /\ UNCHANGED <<scheduler, spec, job, settled, scaling, service, configMap, secret, podGroup,
                     launcher, edits, running>>
      /\ job # Absent /\ Valid(job) /\ settled = Absent /\ pc = "Workers"
      /\ job.runLauncherAsWorker = spec.runLauncherAsWorker
  BY DEF GetOrCreateWorker, objects, JobInv
<1>2. workerReplicas(job) \in 0 .. MaxWorkers /\ missing \subseteq Nat /\ missing \subseteq Index
  BY <1>1, EditsAssumption DEF Valid, missing, Index
<1> USE <1>1
<1>3. CASE missing = {} /\ pc' = Successor(pc) /\ UNCHANGED pods
  <2>1. pc' = "Launcher"
    BY <1>3 DEF Successor
  <2>2. WorkersOf(job)
    BY <1>3 DEF WorkersOf, missing
  <2>3. Types'
    BY <1>3, <2>1 DEF Types, Stages, created
  <2>4. StageInv'
    BY <1>3, <2>1, <2>2 DEF StageInv, HostsOf, MembersOf, WorkersOf
  <2>5. JobInv' /\ PodsInv' /\ NeedsInv'
    BY <1>3, <2>1 DEF JobInv, Valid, PodsInv, NeedsInv
  <2> QED
    BY <2>3, <2>4, <2>5
<1>4. CASE missing # {} /\ UNCHANGED pc
  <2> DEFINE i == CHOOSE i \in missing : \A j \in missing : i <= j
  <2>1. i \in missing
    BY <1>2, <1>4, Least
  <2>2. pods' = [pods EXCEPT ![i] = newWorker(scheduler, job, i)]
    BY <1>4 DEF GetOrCreateWorker
  <2> HIDE DEF i
  <2>3. i \in Index /\ i \in Nat /\ i < workerReplicas(job)
    BY <1>2, <2>1 DEF missing
  <2>4. /\ \A j \in Index : pods'[j] = IF j = i THEN newWorker(scheduler, job, i) ELSE pods[j]
        /\ pods' = [j \in Index |-> pods'[j]]
        /\ pods[i] = Absent
    BY <2>1, <2>2, <2>3 DEF Types, missing
  <2>5. /\ WorkerPod(newWorker(scheduler, job, i), scheduler, spec.runLauncherAsWorker, i)
        /\ spec.length + 8 + Digits(i) <= MaxLabel
    <3>1. job.worker # Absent
      BY <1>2, <2>3 DEF workerReplicas
    <3>2. job.worker.restartPolicy \in {"Never", "OnFailure"}
      BY <3>1, Accepted DEF Valid
    <3> QED
      BY <2>3, <3>2, WorkersMade, NamesFit DEF Valid
  <2>6. running' \subseteq created'
    BY <2>4 DEF Types, created
  <2>7. Types'
    BY <1>4, <2>4, <2>6 DEF Types
  <2>8. PodsInv'
    BY <2>4, <2>5 DEF PodsInv
  <2>9. StageInv'
    BY <1>4 DEF StageInv, HostsOf, MembersOf
  <2>10. JobInv' /\ NeedsInv'
    BY <1>4 DEF JobInv, Valid, NeedsInv, StageInv, MembersOf
  <2> QED
    BY <2>7, <2>8, <2>9, <2>10
<1> QED
  BY <1>3, <1>4 DEF GetOrCreateWorker

\* The end of a sync that succeeds.
LEMMA CreateLauncherObjects ==
    ASSUME ObjectsInv, CreateLauncher
    PROVE  ObjectsInv'
<1> USE DEF ObjectsInv
<1>1. /\ UNCHANGED <<scheduler, spec, scaling, service, configMap, secret, podGroup, pods,
                     running, edits>>
      /\ job # Absent /\ Valid(job) /\ settled = Absent /\ pc = "Launcher"
      /\ job.runLauncherAsWorker = spec.runLauncherAsWorker
      /\ pc' = "idle" /\ job' = Absent /\ settled' = job
      /\ launcher' \in {launcher, newLauncherPodTemplate(scheduler, job)}
  BY DEF CreateLauncher, podVars, JobInv
<1> USE <1>1
<1>2. LauncherPod(newLauncherPodTemplate(scheduler, job), scheduler, spec.runLauncherAsWorker)
  BY Accepted, LaunchersMade DEF Valid
<1>3. Types'
  BY DEF Types, Stages, created
<1>4. JobInv'
  BY DEF JobInv, Valid
<1>5. PodsInv'
  BY <1>2 DEF PodsInv
<1>6. StageInv'
  BY DEF StageInv, HostsOf, MembersOf, WorkersOf
<1>7. NeedsInv'
  BY DEF NeedsInv, StageInv, MembersOf
<1> QED
  BY <1>3, <1>4, <1>5, <1>6, <1>7

\* A sync that ends early leaves what it has created.
LEMMA SyncFailsObjects ==
    ASSUME ObjectsInv, SyncFails
    PROVE  ObjectsInv'
<1> USE DEF ObjectsInv
<1>1. /\ UNCHANGED <<scheduler, spec, settled, service, configMap, secret, podGroup, launcher,
                     pods, running, edits>>
      /\ pc # "idle" /\ settled = Absent
      /\ pc' = "idle" /\ job' = Absent /\ scaling' = FALSE
  BY DEF SyncFails, objects, podVars, JobInv
<1> USE <1>1
<1>2. Types'
  BY DEF Types, Stages, created
<1>3. StageInv'
  BY DEF StageInv
<1>4. JobInv' /\ PodsInv' /\ NeedsInv'
  BY DEF JobInv, PodsInv, NeedsInv
<1> QED
  BY <1>2, <1>3, <1>4

\* An edit of one field leaves a spec, of a job of the same name.
LEMMA EditsShaped ==
    ASSUME NEW s \in Shape
    PROVE  /\ \A n \in Int :
                 LET t == [s EXCEPT !.worker.replicas = n] IN
                 s.worker # Absent =>
                    /\ t \in Shape /\ t.length = s.length
                    /\ t.runLauncherAsWorker = s.runLauncherAsWorker
                    /\ t.worker = [s.worker EXCEPT !.replicas = n]
           /\ \A n \in {Absent, 1} :
                 LET t == [s EXCEPT !.minAvailable = n] IN
                    /\ t \in Shape /\ t.length = s.length
                    /\ t.runLauncherAsWorker = s.runLauncherAsWorker /\ t.worker = s.worker
           /\ LET t == [s EXCEPT !.runLauncherAsWorker = ~ @] IN
                 t \in Shape /\ t.length = s.length /\ t.worker = s.worker
           /\ \A implementation \in {"OpenMPI", "Intel"} :
                 LET t == [s EXCEPT !.mpiImplementation = implementation] IN
                    /\ t \in Shape /\ t.length = s.length
                    /\ t.runLauncherAsWorker = s.runLauncherAsWorker /\ t.worker = s.worker
<1>1. ASSUME NEW n \in Int, s.worker # Absent
      PROVE  LET t == [s EXCEPT !.worker.replicas = n] IN
                    /\ t \in Shape /\ t.length = s.length
                    /\ t.runLauncherAsWorker = s.runLauncherAsWorker
                    /\ t.worker = [s.worker EXCEPT !.replicas = n]
  <2>1. s.worker \in ReplicaSpecType
    BY <1>1 DEF Shape, Values
  <2> DEFINE w == [s.worker EXCEPT !.replicas = n]
  <2>2. w \in ReplicaSpecType
    BY <2>1 DEF ReplicaSpecType, Values
  <2>3. [s EXCEPT !.worker.replicas = n] = [s EXCEPT !.worker = w]
    OBVIOUS
  <2> HIDE DEF w
  <2>4. w \in Values(ReplicaSpecType)
    BY <2>2 DEF Values
  <2>5. [s EXCEPT !.worker = w] \in Shape
    BY <2>4 DEF Shape
  <2>6. /\ [s EXCEPT !.worker = w].length = s.length
        /\ [s EXCEPT !.worker = w].runLauncherAsWorker = s.runLauncherAsWorker
        /\ [s EXCEPT !.worker = w].worker = w
    BY DEF Shape
  <2> QED
    BY <2>3, <2>5, <2>6 DEF w
<1>2. ASSUME NEW n \in {Absent, 1}
      PROVE  LET t == [s EXCEPT !.minAvailable = n] IN
                    /\ t \in Shape /\ t.length = s.length
                    /\ t.runLauncherAsWorker = s.runLauncherAsWorker /\ t.worker = s.worker
  <2>1. n \in Values(Int)
    BY DEF Values
  <2> QED
    BY <2>1 DEF Shape
<1>3. LET t == [s EXCEPT !.runLauncherAsWorker = ~ @] IN
        t \in Shape /\ t.length = s.length /\ t.worker = s.worker
  <2>1. \A b \in BOOLEAN : LET t == [s EXCEPT !.runLauncherAsWorker = b] IN
        t \in Shape /\ t.length = s.length /\ t.worker = s.worker
    BY DEF Shape
  <2>2. (~ s.runLauncherAsWorker) \in BOOLEAN
    BY DEF Shape
  <2> QED
    BY <2>1, <2>2
<1>4. ASSUME NEW implementation \in {"OpenMPI", "Intel"}
      PROVE  LET t == [s EXCEPT !.mpiImplementation = implementation] IN
                    /\ t \in Shape /\ t.length = s.length
                    /\ t.runLauncherAsWorker = s.runLauncherAsWorker /\ t.worker = s.worker
  BY DEF Shape, Texts
<1> QED
  BY <1>1, <1>2, <1>3, <1>4

\* The job of the sync, and the pods, stay as they were.
LEMMA EditObjects ==
    ASSUME ObjectsInv, Edit
    PROVE  ObjectsInv'
<1> USE DEF ObjectsInv
<1>1. UNCHANGED <<scheduler, pc, job, scaling, settled, service, configMap, secret, podGroup,
                  launcher, pods, running>>
  BY DEF Edit, Edited, objects, podVars
<1>2. edits' \in 0 .. MaxEdits
  BY EditsAssumption DEF Edit, Edited, Types
<1> USE <1>1
<1>3. SUFFICES ASSUME spec' \in Shape, spec'.length = spec.length,
                      workerReplicas(spec') \in Int, workerReplicas(spec') <= MaxWorkers,
                      \/ spec'.runLauncherAsWorker = spec.runLauncherAsWorker
                      \/ pc = "idle" /\ made = {}
               PROVE  ObjectsInv'
  <2>1. spec \in Shape /\ workerReplicas(spec) \in Int /\ workerReplicas(spec) <= MaxWorkers
    BY DEF Types
  <2>2. \A s : s.worker = spec.worker => workerReplicas(s) = workerReplicas(spec)
    BY DEF workerReplicas
  <2>3. CASE spec.worker # Absent
             /\ \E n \in ReplicaEdits : Edited("replicas", [spec EXCEPT !.worker.replicas = n])
    <3>1. PICK n \in ReplicaEdits : spec' = [spec EXCEPT !.worker.replicas = n]
      BY <2>3 DEF Edited
    <3>2. n \in Int /\ n <= MaxWorkers /\ n # Absent
      BY <3>1, EditsAssumption, AbsentAssumption
    <3>3. /\ spec' \in Shape /\ spec'.length = spec.length
          /\ spec'.runLauncherAsWorker = spec.runLauncherAsWorker
          /\ spec'.worker = [spec.worker EXCEPT !.replicas = n]
      BY <2>1, <2>3, <3>1, <3>2, EditsShaped
    <3>4. workerReplicas(spec') \in {0, n}
      <4>1. spec.worker \in ReplicaSpecType
        BY <2>1, <2>3 DEF Shape, Values
      <4>2. spec'.worker.replicas = n
        BY <3>3, <4>1 DEF ReplicaSpecType
      <4> QED
        BY <3>2, <4>2 DEF workerReplicas, OrElse
    <3> QED
      BY <1>3, <3>2, <3>3, <3>4, EditsAssumption
  <2>4. CASE \E n \in {Absent, 1} : Edited("minAvailable", [spec EXCEPT !.minAvailable = n])
    <3>1. PICK n \in {Absent, 1} : spec' = [spec EXCEPT !.minAvailable = n]
      BY <2>4 DEF Edited
    <3>2. /\ spec' \in Shape /\ spec'.length = spec.length
          /\ spec'.runLauncherAsWorker = spec.runLauncherAsWorker /\ spec'.worker = spec.worker
      BY <2>1, <3>1, EditsShaped
    <3>3. workerReplicas(spec') = workerReplicas(spec)
      BY <2>2, <3>2
    <3> QED
      BY <1>3, <2>1, <3>2, <3>3
  <2>5. CASE pc = "idle" /\ made = {}
             /\ Edited("asWorker", [spec EXCEPT !.runLauncherAsWorker = ~ @])
    BY <1>3, <2>1, <2>2, <2>5, EditsShaped DEF Edited
  <2>6. CASE \E implementation \in {"OpenMPI", "Intel"} :
                Edited("implementation", [spec EXCEPT !.mpiImplementation = implementation])
    <3>1. PICK implementation \in {"OpenMPI", "Intel"} :
            spec' = [spec EXCEPT !.mpiImplementation = implementation]
      BY <2>6 DEF Edited
    <3>2. /\ spec' \in Shape /\ spec'.length = spec.length
          /\ spec'.runLauncherAsWorker = spec.runLauncherAsWorker /\ spec'.worker = spec.worker
      BY <2>1, <3>1, EditsShaped
    <3>3. workerReplicas(spec') = workerReplicas(spec)
      BY <2>2, <3>2
    <3> QED
      BY <1>3, <2>1, <3>2, <3>3
  <2> QED
    BY <2>3, <2>4, <2>5, <2>6 DEF Edit
<1>4. Types'
  BY <1>2, <1>3 DEF Types, created
<1>5. JobInv'
  BY <1>3 DEF JobInv, Valid
<1>6. PodsInv'
  <2>1. CASE spec'.runLauncherAsWorker = spec.runLauncherAsWorker
    BY <1>3, <2>1 DEF PodsInv
  <2>2. CASE made = {}
    <3>1. launcher = Absent /\ \A i \in Index : pods[i] = Absent
      BY <2>2 DEF made, created
    <3> QED
      BY <3>1 DEF PodsInv
  <2> QED
    BY <1>3, <2>1, <2>2
<1>7. StageInv'
  BY DEF StageInv, HostsOf, MembersOf, WorkersOf
<1>8. NeedsInv'
  BY <1>3 DEF NeedsInv
<1> QED
  BY <1>4, <1>5, <1>6, <1>7, <1>8

\* The kubelet only adds to the running pods.
LEMMA PodRunsObjects ==
    ASSUME ObjectsInv, PodRuns
    PROVE  ObjectsInv'
<1>1. /\ UNCHANGED <<scheduler, spec, pc, job, scaling, settled, service, configMap, secret,
                     podGroup, launcher, pods, edits>>
      /\ running' \subseteq running \cup created
  BY DEF PodRuns, objects
<1> USE <1>1 DEF ObjectsInv
<1>2. Types'
  BY DEF Types, created
<1>3. StageInv'
  BY DEF StageInv, HostsOf, MembersOf, WorkersOf
<1>4. JobInv' /\ PodsInv' /\ NeedsInv'
  BY DEF JobInv, Valid, PodsInv, NeedsInv
<1> QED
  BY <1>2, <1>3, <1>4

\* A step of something else.
LEMMA StutterObjects ==
    ASSUME ObjectsInv, UNCHANGED vars
    PROVE  ObjectsInv'
<1>1. UNCHANGED <<scheduler, spec, pc, job, scaling, settled, service, configMap, secret,
                  podGroup, launcher, pods, running, edits>>
  BY DEF vars, objects, podVars
<1> USE <1>1 DEF ObjectsInv
<1>2. Types'
  BY DEF Types, created
<1>3. StageInv'
  BY DEF StageInv, HostsOf, MembersOf, WorkersOf
<1>4. JobInv' /\ PodsInv' /\ NeedsInv'
  BY DEF JobInv, Valid, PodsInv, NeedsInv
<1> QED
  BY <1>2, <1>3, <1>4

\* ObjectsInv holds in every state: what a sync needs of the earlier calls is
\* there at each of them (syncHandler of pkg/controller/mpi_job_controller.go).
THEOREM ObjectsInvariant == ASSUME AbsentApart PROVE Spec => []ObjectsInv
<1>1. Init => ObjectsInv
  BY InitObjects
<1>2. ObjectsInv /\ [Next]_vars => ObjectsInv'
  BY SyncStartObjects, CallObjects, ScaleDownObjects, GetOrCreateWorkerObjects,
     CreateLauncherObjects, SyncFailsObjects, EditObjects, PodRunsObjects, StutterObjects
     DEF Next
<1> QED
  BY <1>1, <1>2, PTL DEF Spec

-----------------------------------------------------------------------------
(* The properties.                                                         *)

\* The worker pods and the launcher, in whatever state.
LEMMA MadeOf ==
    ASSUME ObjectsInv, NEW t \in made
    PROVE  \/ \E i \in Index : /\ t = pods[i] /\ pods[i] # Absent
                               /\ WorkerPod(t, scheduler, spec.runLauncherAsWorker, i)
                               /\ spec.length + 8 + Digits(i) <= MaxLabel
           \/ /\ t = launcher /\ launcher # Absent
              /\ LauncherPod(t, scheduler, spec.runLauncherAsWorker)
BY DEF made, created, ObjectsInv, PodsInv

\* What pods of both kinds have in common.
LEMMA MadeMembers ==
    ASSUME ObjectsInv, NEW t \in made
    PROVE  /\ \E role \in ReplicaTypes : Member(t, scheduler, role)
           /\ service = newJobService /\ configMap # Absent /\ secret = newSSHAuthSecret
           /\ scheduler # Absent => podGroup # Absent
           /\ spec.length + 9 <= MaxLabel
<1>1. \E role \in ReplicaTypes : Member(t, scheduler, role)
  BY MadeOf DEF WorkerPod, LauncherPod, ReplicaTypes
<1>2. (\E i \in Index : pods[i] # Absent) \/ launcher # Absent
  BY MadeOf
<1>3. configMap # Absent
  BY <1>2 DEF ObjectsInv, NeedsInv
<1> QED
  BY <1>1, <1>2, <1>3 DEF ObjectsInv, NeedsInv

\* The invariant implies each of the properties.
LEMMA TypesGive == ObjectsInv => TypeOK
<1> SUFFICES ASSUME ObjectsInv PROVE TypeOK
  OBVIOUS
<1> USE DEF ObjectsInv
<1>1. job # Absent => ValidateGroupJob(job) = {} /\ job.launcher # Absent
  BY Accepted DEF JobInv, Valid
<1>2. pc = "idle" <=> job = Absent
  BY DEF JobInv
<1>3. \A i \in Index : pods[i] # Absent => pods[i].hostname = workerName(i)
  BY DEF PodsInv, WorkerPod
<1> QED
  BY <1>1, <1>2, <1>3 DEF TypeOK, Types

\* The longest names are the last worker's, which was checked, and the launcher's.
LEMMA NamesGive == ObjectsInv => AcceptedByServer
<1> SUFFICES ASSUME ObjectsInv PROVE AcceptedByServer
  OBVIOUS
<1>1. spec.length \in Nat
  BY DEF ObjectsInv, Types, Shape
<1>2. /\ NameLength(spec.length, serviceName) = spec.length
      /\ NameLength(spec.length, configName) = spec.length + 7
      /\ NameLength(spec.length, sshName) = spec.length + 4
      /\ NameLength(spec.length, launcherName) = spec.length + 9
      /\ \A i : NameLength(spec.length, workerName(i)) = spec.length + 8 + Digits(i)
  BY <1>1 DEF NameLength, SuffixLengths, Name, serviceName, configName, sshName, launcherName,
              workerName
<1>3. ASSUME NEW t \in made PROVE NameLength(spec.length, t.hostname) <= MaxLabel
  BY <1>2, MadeOf, MadeMembers DEF WorkerPod, LauncherPod
<1>4. service # Absent \/ configMap # Absent \/ secret # Absent => spec.length + 9 <= MaxLabel
  BY DEF ObjectsInv, NeedsInv
<1>5. ASSUME NEW name \in {t.hostname : t \in made}
                    \cup (IF service = Absent THEN {} ELSE {serviceName})
                    \cup (IF configMap = Absent THEN {} ELSE {configName})
                    \cup (IF secret = Absent THEN {} ELSE {sshName})
      PROVE  NameLength(spec.length, name) <= MaxLabel
  BY <1>1, <1>2, <1>3, <1>4, <1>5 DEF MaxLabel
<1>6. \A t \in made : t.restartPolicy \in {"Never", "OnFailure"}
  BY MadeMembers DEF Member
<1> QED
  BY <1>5, <1>6 DEF AcceptedByServer

\* The lines of the hostfile are those of the settled job, whose workers are there.
LEMMA HostsGive == ObjectsInv => HostsMatchPods
<1> SUFFICES ASSUME ObjectsInv, settled # Absent PROVE
        /\ \A line \in configMap.hostfile :
            \/ \E t \in made : line.host = Host(t.hostname)
            \/ line.host = Host(launcherName) /\ launcher = Absent
        /\ \A t \in made : Host(t.hostname).subdomain = t.subdomain
                           /\ t.labels.role \in service.roles
  BY DEF HostsMatchPods
<1>1. /\ service = newJobService /\ HostsOf(settled) /\ WorkersOf(settled)
      /\ workerReplicas(settled) \in 0 .. MaxWorkers
  BY DEF ObjectsInv, StageInv, JobInv, Valid
<1>2. ASSUME NEW i \in 0 .. workerReplicas(settled) - 1
      PROVE  pods[i] \in made /\ pods[i].hostname = workerName(i)
  <2>1. i \in Index /\ pods[i] # Absent
    BY <1>1, <1>2, EditsAssumption DEF WorkersOf, Index
  <2>2. pods[i].hostname = workerName(i)
    BY <2>1 DEF ObjectsInv, PodsInv, WorkerPod
  <2> QED
    BY <2>1, <2>2 DEF made, created
<1>3. launcher # Absent => launcher \in made /\ launcher.hostname = launcherName
  BY DEF made, ObjectsInv, PodsInv, LauncherPod
<1>4. \A line \in configMap.hostfile :
            \/ \E t \in made : line.host = Host(t.hostname)
            \/ line.host = Host(launcherName) /\ launcher = Absent
  BY <1>1, <1>2, <1>3 DEF HostsOf
<1>5. \A name : Host(name).subdomain = serviceName
  BY DEF Host
<1>6. service.roles = ReplicaTypes
  BY <1>1 DEF newJobService
<1>7. ASSUME NEW t \in made PROVE t.subdomain = serviceName /\ t.labels.role \in ReplicaTypes
  BY MadeMembers DEF Member
<1> QED
  BY <1>4, <1>5, <1>6, <1>7

\* The Secret and the ConfigMap were there before any pod.
LEMMA MountsGive == AbsentApart => (ObjectsInv => MountsPresent)
<1> SUFFICES ASSUME AbsentApart, ObjectsInv, NEW t \in made PROVE
        /\ \A mount \in t.mounts :
            \/ mount.volume.source = sshName /\ secret # Absent
               /\ mount.volume.keys \subseteq secret
            \/ mount.volume.source = configName /\ configMap # Absent
               /\ mount.volume.keys \subseteq configKeys
        /\ \A v \in t.env : Len(v) = 3 =>
            \E mount \in t.mounts : mount.path = v[2] /\ v[3] \in mount.volume.files
  BY DEF MountsPresent
<1>1. /\ secret = newSSHAuthSecret /\ configMap # Absent
  BY MadeMembers
<1>2. /\ sshVolume.source = sshName /\ sshVolume.keys = newSSHAuthSecret
      /\ configVolume.source = configName /\ configVolume.keys = configKeys
      /\ configVolume.files = configKeys /\ hostfileName \in configKeys
  BY DEF sshVolume, configVolume, newSSHAuthSecret, configKeys
<1>3. \A mount \in t.mounts : mount.volume \in {sshVolume, configVolume}
  BY MadeOf DEF WorkerPod, LauncherPod
<1>4. ASSUME NEW v \in t.env, Len(v) = 3
      PROVE  \E mount \in t.mounts : mount.path = v[2] /\ v[3] \in mount.volume.files
  <2>1. LauncherPod(t, scheduler, spec.runLauncherAsWorker)
    BY <1>4, MadeOf DEF WorkerPod
  <2>2. /\ Mount(configVolume, configMountPath) \in t.mounts
        /\ v[2] = configMountPath /\ v[3] = hostfileName
    BY <1>4, <2>1 DEF LauncherPod
  <2>3. \A volume, path : Mount(volume, path).path = path /\ Mount(volume, path).volume = volume
    BY DEF Mount
  <2> QED
    BY <1>2, <2>2, <2>3
<1>5. secret # Absent
  BY <1>1 DEF AbsentApart
<1> QED
  BY <1>1, <1>2, <1>3, <1>4, <1>5

\* A worker's index follows from its place, and the launcher's is below.
LEMMA IndicesGive == ObjectsInv => IndexUnique
<1> SUFFICES ASSUME ObjectsInv, NEW t \in made, NEW u \in made,
                    t # u, t.labels.index = u.labels.index
             PROVE  t.labels.index = NoIndex
  BY DEF IndexUnique
<1> DEFINE asWorker == spec.runLauncherAsWorker
<1>1. \A i \in Index : i \in Int /\ i >= 0
  BY EditsAssumption DEF Index
<1>2. CASE t = launcher \/ u = launcher
  BY <1>1, <1>2, MadeOf DEF WorkerPod, LauncherPod, NoIndex
<1>3. CASE t # launcher /\ u # launcher
  <2>1. PICK i \in Index : t = pods[i] /\ t.labels.index = IF asWorker THEN i + 1 ELSE i
    BY <1>3, MadeOf DEF WorkerPod
  <2>2. PICK j \in Index : u = pods[j] /\ u.labels.index = IF asWorker THEN j + 1 ELSE j
    BY <1>3, MadeOf DEF WorkerPod
  <2> QED
    BY <1>1, <2>1, <2>2
<1> QED
  BY <1>2, <1>3

\* All workers of a settled job are there, and the gang asks for one pod more.
LEMMA GangGives == ObjectsInv => GangMembers
<1> SUFFICES ASSUME ObjectsInv PROVE GangMembers
  OBVIOUS
<1>1. ASSUME NEW t \in made
      PROVE  /\ scheduler = Absent => t.podGroup = Absent
             /\ scheduler # Absent =>
                   /\ podGroup # Absent /\ t.schedulerName = scheduler
                   /\ \A key \in DOMAIN t.podGroup : t.podGroup[key] = podGroupName
  BY MadeMembers DEF Member
<1>2. ASSUME settled # Absent, podGroup # Absent, settled.minAvailable = Absent
      PROVE  podGroup.minMember <= Cardinality(created) + 1
  <2> DEFINE n == workerReplicas(settled)
             hosts == 0 .. n - 1
  <2>1. n \in Nat /\ n <= MaxWorkers
    BY <1>2, EditsAssumption DEF ObjectsInv, JobInv, Valid
  <2>2. podGroup.minMember = n + 1
    BY <1>2 DEF ObjectsInv, StageInv, MembersOf, NeedsInv
  <2>3. hosts \subseteq created
    BY <1>2, <2>1, EditsAssumption DEF ObjectsInv, StageInv, WorkersOf, created, Index
  <2>4. IsFiniteSet(created)
    <3>1. IsFiniteSet(Index) /\ created \subseteq Index
      BY EditsAssumption, FS_Interval DEF Index, created
    <3> QED
      BY <3>1, FS_Subset
  <2> HIDE DEF n
  <2>5. Cardinality(hosts) = n
    <3>1. Cardinality(0 .. n - 1) = IF 0 > n - 1 THEN 0 ELSE (n - 1) - 0 + 1
      BY <2>1, FS_Interval
    <3> QED
      BY <2>1, <3>1
  <2> HIDE DEF hosts
  <2>6. Cardinality(hosts) <= Cardinality(created)
    BY <2>3, <2>4, FS_Subset
  <2>7. Cardinality(created) \in Nat
    BY <2>4, FS_CardinalityType
  <2> QED
    BY <2>1, <2>2, <2>5, <2>6, <2>7
<1> QED
  BY <1>1, <1>2 DEF GangMembers

\* A replica spec that has its defaults is at fault only in fields that were given.
LEMMA ReplicasGiven ==
    ASSUME AbsentApart, NEW r \in ReplicaSpecType, NEW policy \in {"OnFailure", "Never"},
           NEW n \in Int, NEW path,
           NEW field \in validateReplicaSpec(setDefaultsReplicas(r, policy, n), path)
    PROVE  \/ field = <<path, "containers">>
           \/ field = <<path, "restartPolicy">> /\ r.restartPolicy # Absent
<1> DEFINE d == setDefaultsReplicas(r, policy, n)
<1>1. /\ d.replicas = OrElse(r.replicas, n)
      /\ d.restartPolicy = OrElse(r.restartPolicy, policy)
  BY ReplicasDefaults
<1> HIDE DEF d
<1>2. \/ field = <<path, "replicas">> /\ d.replicas = Absent
      \/ field = <<path, "restartPolicy">> /\ d.restartPolicy \notin {"Never", "OnFailure"}
      \/ field = <<path, "containers">>
  BY DEF validateReplicaSpec, If, d
<1>3. d.replicas # Absent
  BY <1>1, AbsentAssumption DEF OrElse
<1> QED
  BY <1>1, <1>2, <1>3 DEF OrElse

\* With its defaults, a spec is at fault in given fields alone.
LEMMA DefaultsGive == AbsentApart => (ObjectsInv => DefaultsAccepted)
<1> SUFFICES ASSUME AbsentApart, ObjectsInv PROVE DefaultsAccepted
  OBVIOUS
<1> DEFINE d == SetDefaults(spec)
<1>1. spec \in Shape
  BY DEF ObjectsInv, Types
<1>2. \A copy \in GroupJobSpecCopies(spec) : SetDefaults(copy) = SetDefaults(spec)
  BY <1>1, SpecCopies
<1>3. /\ d.launcher = setDefaultsTypeLauncher(spec.launcher)
      /\ d.worker = setDefaultsTypeWorker(spec.worker)
      /\ d.cleanPodPolicy = OrElse(spec.cleanPodPolicy, "None")
      /\ d.slotsPerWorker = OrElse(spec.slotsPerWorker, 1)
      /\ d.sshAuthMountPath = OrElse(spec.sshAuthMountPath, "/root/.ssh")
      /\ d.mpiImplementation = OrElse(spec.mpiImplementation, "OpenMPI")
      /\ d.managedBy = spec.managedBy
  BY <1>1, Defaults
<1> HIDE DEF d
<1>4. ASSUME NEW field \in ValidateGroupJob(d)
      PROVE  Given(field) \/ field = <<"worker", "replicas">>
  <2>1. CASE field \in validateGroupJobName(d)
    BY <2>1 DEF validateGroupJobName, If, Given
  <2>2. CASE field \in validateLauncherReplicaSpec(d.launcher)
    <3>1. CASE spec.launcher = Absent
      <4>1. d.launcher = Absent
        BY <1>3, <3>1 DEF setDefaultsTypeLauncher, setDefaultsReplicas
      <4> QED
        BY <2>2, <4>1 DEF validateLauncherReplicaSpec, Given
    <3>2. CASE spec.launcher # Absent
      <4>1. spec.launcher \in ReplicaSpecType
        BY <1>1, <3>2 DEF Shape, Values
      <4>2. d.launcher = setDefaultsReplicas(spec.launcher, "OnFailure", 1)
        BY <1>3 DEF setDefaultsTypeLauncher
      <4>3. d.launcher # Absent /\ d.launcher.replicas = OrElse(spec.launcher.replicas, 1)
        BY <4>1, <4>2, ReplicasDefaults
      <4>4. \/ field \in validateReplicaSpec(d.launcher, "launcher")
            \/ field = <<"launcher", "replicas">> /\ d.launcher.replicas # 1
        BY <2>2, <4>3 DEF validateLauncherReplicaSpec, If
      <4>5. \/ field = <<"launcher", "containers">>
            \/ field = <<"launcher", "restartPolicy">> /\ spec.launcher.restartPolicy # Absent
            \/ field = <<"launcher", "replicas">> /\ spec.launcher.replicas # Absent
        BY <4>1, <4>2, <4>3, <4>4, ReplicasGiven DEF OrElse
      <4> QED
        BY <4>5 DEF Given
    <3> QED
      BY <3>1, <3>2
  <2>3. CASE field \in validateWorkerReplicaSpec(d.worker)
    <3>1. spec.worker # Absent
      BY <1>3, <2>3 DEF setDefaultsTypeWorker, setDefaultsReplicas, validateWorkerReplicaSpec
    <3>2. spec.worker \in ReplicaSpecType
      BY <1>1, <3>1 DEF Shape, Values
    <3>3. d.worker = setDefaultsReplicas(spec.worker, "Never", 0)
      BY <1>3 DEF setDefaultsTypeWorker
    <3>4. \/ field \in validateReplicaSpec(d.worker, "worker")
          \/ field = <<"worker", "replicas">>
      BY <2>3 DEF validateWorkerReplicaSpec, If
    <3>5. \/ field = <<"worker", "containers">>
          \/ field = <<"worker", "restartPolicy">> /\ spec.worker.restartPolicy # Absent
          \/ field = <<"worker", "replicas">>
      BY <3>2, <3>3, <3>4, ReplicasGiven
    <3> QED
      BY <3>5 DEF Given
  <2>4. CASE field = <<"slotsPerWorker">> /\ (d.slotsPerWorker = Absent \/ Negative(d.slotsPerWorker))
    <3>1. spec.slotsPerWorker # Absent
      BY <1>3, <2>4, AbsentAssumption DEF OrElse, Negative
    <3> QED
      BY <2>4, <3>1 DEF Given
  <2>5. CASE field \in validateRunPolicy(d)
    <3>1. CASE field = <<"cleanPodPolicy">> /\ d.cleanPodPolicy \notin CleanPodPolicies
      BY <1>3, <3>1 DEF OrElse, CleanPodPolicies, Given
    <3>2. CASE \E limit \in Limits : field = <<limit>>
      BY <3>2 DEF Given
    <3>3. CASE field = <<"managedBy">> /\ d.managedBy \notin Values(Managers)
      BY <1>3, <3>3 DEF Values, Given
    <3> QED
      BY <2>5, <3>1, <3>2, <3>3 DEF validateRunPolicy, If
  <2>6. CASE field = <<"sshAuthMountPath">> /\ d.sshAuthMountPath = Absent
    BY <1>3, <2>6, AbsentAssumption DEF OrElse, Given
  <2>7. CASE field = <<"mpiImplementation">> /\ d.mpiImplementation \notin MPIImplementations
    BY <1>3, <2>7 DEF OrElse, MPIImplementations, Given
  <2> QED
    BY <1>4, <2>1, <2>2, <2>3, <2>4, <2>5, <2>6, <2>7 DEF ValidateGroupJob, If
<1> QED
  BY <1>2, <1>4 DEF DefaultsAccepted, d

\* Every variable has its type, and the job of a sync in progress has passed the
\* validation (syncHandler).
THEOREM TypeCorrect == ASSUME AbsentApart PROVE Spec => []TypeOK
BY ObjectsInvariant, TypesGive, PTL

\* The API server accepts all that a validated job is turned into, also after
\* it was scaled (validateGroupJobName, newWorker, newLauncherPodTemplate).
THEOREM Accepting == ASSUME AbsentApart PROVE Spec => []AcceptedByServer
BY ObjectsInvariant, NamesGive, PTL

\* After a sync the hostfile names pods that are there and that the Service
\* selects (newConfigMap, newJobService, newWorker).
THEOREM HostsFound == ASSUME AbsentApart PROVE Spec => []HostsMatchPods
BY ObjectsInvariant, HostsGive, PTL

\* What a pod mounts is there before the pod (the order of the calls of
\* syncHandler).
THEOREM MountsFound == ASSUME AbsentApart PROVE Spec => []MountsPresent
BY ObjectsInvariant, MountsGive, PTL

\* No two pods take part in the computation under the same index
\* (workerReplicaIndexLabel), however often syncs fail and the job is scaled.
THEOREM IndicesUnique == ASSUME AbsentApart PROVE Spec => []IndexUnique
BY ObjectsInvariant, IndicesGive, PTL

\* Every pod of a gang waits for the PodGroup, which does not ask for more pods
\* than there are (decoratePodTemplateSpec, calculateMinAvailable).
THEOREM GangsComplete == ASSUME AbsentApart PROVE Spec => []GangMembers
BY ObjectsInvariant, GangGives, PTL

\* No spec is refused for what was left to the defaults, and a sync that copies
\* the cached spec while addGroupJob writes its defaults works on all of them
\* (SetDefaults_GroupJob, ValidateGroupJob).
THEOREM DefaultsSuffice == ASSUME AbsentApart PROVE Spec => []DefaultsAccepted
BY ObjectsInvariant, DefaultsGive, PTL

\* Setting the defaults of what has them changes nothing: it does not matter
\* whether addGroupJob came before syncHandler (SetDefaults_GroupJob).
THEOREM DefaultsIdempotent ==
    ASSUME AbsentApart, NEW s \in Shape
    PROVE  SetDefaults(SetDefaults(s)) = SetDefaults(s)
<1> DEFINE d == SetDefaults(s)
<1>1. /\ d \in Shape
      /\ d.launcher = setDefaultsTypeLauncher(s.launcher)
      /\ d.worker = setDefaultsTypeWorker(s.worker)
      /\ d.cleanPodPolicy = OrElse(s.cleanPodPolicy, "None")
      /\ d.slotsPerWorker = OrElse(s.slotsPerWorker, 1)
      /\ d.sshAuthMountPath = OrElse(s.sshAuthMountPath, "/root/.ssh")
      /\ d.mpiImplementation = OrElse(s.mpiImplementation, "OpenMPI")
  BY Defaults
<1>2. d.launcherCreationPolicy = OrElse(s.launcherCreationPolicy, "AtStartup")
  BY DEF SetDefaults, Shape
<1> HIDE DEF d
<1>3. ASSUME NEW r \in Values(ReplicaSpecType), NEW policy \in {"OnFailure", "Never"}, NEW n \in Int
      PROVE  LET e == setDefaultsReplicas(r, policy, n) IN
             setDefaultsReplicas(e, policy, n) = e
  <2> DEFINE e == setDefaultsReplicas(r, policy, n)
  <2>1. CASE r = Absent
    BY <2>1 DEF setDefaultsReplicas
  <2>2. CASE r # Absent
    <3>1. r \in ReplicaSpecType
      BY <2>2 DEF Values
    <3>2. /\ e \in ReplicaSpecType /\ e # Absent
          /\ e.replicas = OrElse(r.replicas, n) /\ e.restartPolicy = OrElse(r.restartPolicy, policy)
      BY <3>1, ReplicasDefaults
    <3> HIDE DEF e
    <3>3. OrElse(e.replicas, n) = e.replicas /\ OrElse(e.restartPolicy, policy) = e.restartPolicy
      BY <3>2, FilledOnce
    <3>4. setDefaultsReplicas(e, policy, n)
            = [e EXCEPT !.restartPolicy = e.restartPolicy, !.replicas = e.replicas]
      BY <3>2, <3>3 DEF setDefaultsReplicas
    <3>5. setDefaultsReplicas(e, policy, n) = e
      BY <3>2, <3>4 DEF ReplicaSpecType
    <3> QED
      BY <3>5 DEF e
  <2> QED
    BY <2>1, <2>2
<1>4. setDefaultsTypeLauncher(d.launcher) = d.launcher /\ setDefaultsTypeWorker(d.worker) = d.worker
  <2>1. s.launcher \in Values(ReplicaSpecType) /\ s.worker \in Values(ReplicaSpecType)
    BY DEF Shape
  <2> QED
    BY <1>1, <1>3, <2>1 DEF setDefaultsTypeLauncher, setDefaultsTypeWorker
<1>5. /\ OrElse(d.cleanPodPolicy, "None") = d.cleanPodPolicy
      /\ OrElse(d.slotsPerWorker, 1) = d.slotsPerWorker
      /\ OrElse(d.sshAuthMountPath, "/root/.ssh") = d.sshAuthMountPath
      /\ OrElse(d.mpiImplementation, "OpenMPI") = d.mpiImplementation
      /\ OrElse(d.launcherCreationPolicy, "AtStartup") = d.launcherCreationPolicy
  BY <1>1, <1>2, FilledOnce
<1>6. SetDefaults(d) = [d EXCEPT !.cleanPodPolicy = d.cleanPodPolicy,
                                 !.slotsPerWorker = d.slotsPerWorker,
                                 !.sshAuthMountPath = d.sshAuthMountPath,
                                 !.mpiImplementation = d.mpiImplementation,
                                 !.launcherCreationPolicy = d.launcherCreationPolicy,
                                 !.launcher = d.launcher, !.worker = d.worker]
  BY <1>4, <1>5 DEF SetDefaults
<1>7. SetDefaults(d) = d
  BY <1>1, <1>6 DEF Shape
<1> QED
  BY <1>7 DEF d

-----------------------------------------------------------------------------
(* The resources of a gang.                                                *)

\* An entry of the order has the fields of its replica spec, and some priority.
LEMMA PrioritiesGiven ==
    ASSUME NEW type, NEW r
    PROVE  LET p == replicaPriority(type, r) IN
           /\ p.type = type /\ p.priority \in Int
           /\ p.replicas = r.replicas /\ p.containers = r.containers
BY PriorityClassesAssumption DEF replicaPriority

\* A valid job has one launcher.
LEMMA OneLauncher ==
    ASSUME NEW s \in Shape, ValidateGroupJob(s) = {}
    PROVE  /\ s.launcher.replicas = 1 /\ s.launcher.containers \in Seq(Containers)
           /\ s.worker # Absent => s.worker.containers \in Seq(Containers)
<1>1. s.launcher # Absent /\ s.launcher \in ReplicaSpecType
  BY Accepted
<1>2. s.worker # Absent => s.worker \in ReplicaSpecType
  BY Accepted
<1>3. validateLauncherReplicaSpec(s.launcher) = {}
  BY DEF ValidateGroupJob
<1>4. s.launcher.replicas # Absent /\ s.launcher.replicas \in {Absent, 1}
  BY <1>1, <1>3 DEF validateLauncherReplicaSpec, validateReplicaSpec, If
<1> QED
  BY <1>1, <1>2, <1>4 DEF ReplicaSpecType, Containers

\* The first pods of the gang.
LEMMA GangNeeds ==
    ASSUME NEW s \in Shape, ValidateGroupJob(s) = {}, NEW n \in Nat, n >= 1,
           n <= workerReplicas(s) + 1, NEW r
    PROVE  /\ Len(Gang(s)) = workerReplicas(s) + 1
           /\ Quantity(Total(SubSeq(Gang(s), 1, n)), r)
                = Needs(s.launcher.containers, r)
                    + (n - 1) * IF s.worker = Absent THEN 0 ELSE Needs(s.worker.containers, r)
<1> DEFINE l == [replicaPriority("launcher", s.launcher) EXCEPT !.replicas = 1]
           w == [replicaPriority("worker", s.worker) EXCEPT !.replicas = 1]
           lc == s.launcher.containers
           wc == s.worker.containers
           seq == SubSeq(Gang(s), 1, n)
<1>1. workerReplicas(s) \in Nat /\ lc \in Seq(Containers) /\ Needs(lc, r) \in Int
  BY Accepted, OneLauncher, ContainersNeed, NothingIs
<1>2. l.containers = lc /\ l.replicas = 1 /\ w.containers = wc /\ w.replicas = 1
  BY DEF replicaPriority
<1>3. CASE s.worker = Absent
  <2>1. Gang(s) = <<l>> \o <<>>
    BY <1>3 DEF Gang
  <2>2. workerReplicas(s) = 0 /\ n = 1
    BY <1>3 DEF workerReplicas
  <2> HIDE DEF l
  <2>3. Len(Gang(s)) = 1 /\ Gang(s)[1] = l
    <3>1. <<l>> \in Seq({l}) /\ <<>> \in Seq({l}) /\ Len(<<l>>) = 1 /\ Len(<<>>) = 0
      OBVIOUS
    <3> QED
      BY <2>1, <3>1
  <2>4. Len(seq) = 1 /\ seq[1] = l
    <3>1. Len(seq) = n /\ \A k \in 1 .. n : seq[k] = Gang(s)[k]
      BY <2>2
    <3> QED
      BY <2>2, <2>3, <3>1
  <2>5. Counts(seq[1])
    BY <1>1, <1>2, <2>4 DEF Counts
  <2> HIDE DEF seq
  <2>6. Quantity(Total(seq), r) = seq[1].replicas * Needs(seq[1].containers, r)
    BY <2>4, <2>5, TotalOfOne
  <2>7. Quantity(Total(seq), r) = 1 * Needs(lc, r)
    BY <1>2, <2>4, <2>6
  <2> HIDE DEF lc
  <2>8. Quantity(Total(seq), r) = Needs(lc, r) + (n - 1) * 0
    BY <1>1, <2>2, <2>7
  <2> QED
    BY <1>3, <2>2, <2>3, <2>8 DEF lc, seq
<1>4. CASE s.worker # Absent
  <2> DEFINE W == workerReplicas(s)
  <2>1. Gang(s) = <<l>> \o [k \in 1 .. W |-> w]
    BY <1>4 DEF Gang
  <2>2. wc \in Seq(Containers) /\ Needs(wc, r) \in Int
    BY <1>4, OneLauncher, ContainersNeed, NothingIs
  <2> HIDE DEF l, w, W
  <2>3. W \in Nat /\ n <= W + 1
    BY <1>1 DEF W
  <2>4. /\ Len(Gang(s)) = W + 1
        /\ Gang(s)[1] = l /\ \A k \in 2 .. W + 1 : Gang(s)[k] = w
    <3> DEFINE ws == [k \in 1 .. W |-> w]
    <3>1. Len(ws) = W /\ \A k \in 1 .. W : ws[k] = w
      BY <2>3
    <3>2. ws \in Seq({w}) /\ <<l>> \in Seq({l}) /\ Len(<<l>>) = 1
      BY <2>3
    <3> HIDE DEF ws
    <3>3. Gang(s) = <<l>> \o ws
      BY <2>1 DEF ws
    <3> QED
      BY <2>3, <3>1, <3>2, <3>3
  <2>5. /\ Len(seq) = n /\ seq[1] = l
        /\ \A k \in 2 .. n : seq[k] = w
    <3>1. Len(seq) = n /\ \A k \in 1 .. n : seq[k] = Gang(s)[k]
      OBVIOUS
    <3> QED
      BY <2>3, <2>4, <3>1
  <2> HIDE DEF seq, lc, wc
  <2>6. /\ Len(seq) \in Nat /\ Len(seq) >= 1
        /\ seq[1].containers = lc /\ seq[1].replicas = 1
        /\ \A k \in 2 .. Len(seq) : seq[k].containers = wc /\ seq[k].replicas = 1
    BY <1>2, <2>5
  <2>7. Quantity(Total(seq), r) = Needs(lc, r) + (Len(seq) - 1) * Needs(wc, r)
    BY <1>1, <2>2, <2>6, TotalOfGang
  <2> QED
    BY <1>4, <2>4, <2>5, <2>7 DEF seq, lc, wc, W
<1> QED
  BY <1>3, <1>4

\* calPGMinResource multiplies where the gang counts pod by pod, whichever way
\* the replica specs of equal priority come.
LEMMA GangOrdered ==
    ASSUME NEW s \in Shape, ValidateGroupJob(s) = {}, LauncherFirst(s), s.worker # Absent,
           NEW m \in Nat, m >= 1, NEW order \in replicasOrders(s)
    PROVE  \E k, l, w, t :
                /\ k \in Nat /\ k = (IF m < workerReplicas(s) + 1 THEN m ELSE workerReplicas(s) + 1) - 1
                /\ l.containers = s.launcher.containers /\ l.replicas = 1
                /\ w.containers = s.worker.containers /\ w.replicas = k
                /\ t \in {<<l, w>>, <<w, l>>}
                /\ calPGMinResource(m, order) = Total(t)
<1> DEFINE l == replicaPriority("launcher", s.launcher)
           w == replicaPriority("worker", s.worker)
           W == workerReplicas(s)
           v == [w EXCEPT !.replicas = m - 1]
<1>1. /\ l.type = "launcher" /\ l.priority \in Int /\ l.replicas = 1
      /\ l.containers = s.launcher.containers
      /\ w.type = "worker" /\ w.priority \in Int /\ w.replicas = W
      /\ w.containers = s.worker.containers
      /\ v.replicas = m - 1 /\ v.containers = s.worker.containers
      /\ W \in Nat
  <2>1. l.replicas = 1 /\ w.replicas = W /\ W \in Nat
    BY PrioritiesGiven, OneLauncher, Accepted
  <2>2. v.replicas = m - 1 /\ v.containers = s.worker.containers
    BY DEF replicaPriority
  <2> QED
    BY <2>1, <2>2, PrioritiesGiven
<1>2. l.priority >= w.priority
  BY DEF LauncherFirst
<1>3. /\ order \in {<<l, w>>, <<w, l>>} /\ order[1].priority >= order[2].priority
  BY DEF replicasOrders
<1>4. [w EXCEPT !.replicas = m - 1] = v
  OBVIOUS
<1> HIDE DEF l, w, v, W
<1>5. CASE order = <<l, w>>
  <2>1. order[1] = l /\ order[2] = w /\ Len(order) = 2 /\ DOMAIN order = {1, 2}
    BY <1>5
  <2>2. getWorkerIndex(order) = 2
    BY <1>1, <2>1 DEF getWorkerIndex
  <2>3. Lowered(order, m) = <<l, v>>
    <3>1. Lowered(order, m) = [order EXCEPT ![2].replicas = m - 1]
      BY <2>2 DEF Lowered
    <3>2. [order EXCEPT ![2].replicas = m - 1] = [order EXCEPT ![2] = v]
      BY <1>4, <2>1
    <3>3. [order EXCEPT ![2] = v] = <<l, v>>
      BY <1>5
    <3> QED
      BY <3>1, <3>2, <3>3
  <2>4. calPGMinResource(m, order) = Total(IF 1 + W > m THEN <<l, v>> ELSE <<l, w>>)
    BY <1>1, <2>1, <2>3, <1>5 DEF calPGMinResource
  <2>5. CASE 1 + W > m
    <3>1. calPGMinResource(m, order) = Total(<<l, v>>)
      BY <2>4, <2>5
    <3> QED
      BY <1>1, <2>5, <3>1 DEF W
  <2>6. CASE ~(1 + W > m)
    <3>1. calPGMinResource(m, order) = Total(<<l, w>>)
      BY <2>4, <2>6
    <3> QED
      BY <1>1, <2>6, <3>1 DEF W
  <2> QED
    BY <2>5, <2>6
<1>6. CASE order = <<w, l>>
  <2>1. order[1] = w /\ order[2] = l /\ Len(order) = 2 /\ DOMAIN order = {1, 2}
    BY <1>6
  <2>2. w.priority = l.priority
    BY <1>1, <1>2, <1>3, <2>1
  <2>3. getWorkerIndex(order) = 1
    BY <1>1, <2>1 DEF getWorkerIndex
  <2>4. Lowered(order, m) = <<v, l>>
    <3>1. Lowered(order, m) = [order EXCEPT ![1].replicas = m - 1]
      BY <2>1, <2>2, <2>3 DEF Lowered
    <3>2. [order EXCEPT ![1].replicas = m - 1] = [order EXCEPT ![1] = v]
      BY <1>4, <2>1
    <3>3. [order EXCEPT ![1] = v] = <<v, l>>
      BY <1>6
    <3> QED
      BY <3>1, <3>2, <3>3
  <2>5. calPGMinResource(m, order) = Total(IF W + 1 > m THEN <<v, l>> ELSE <<w, l>>)
    BY <1>1, <2>1, <2>4, <1>6 DEF calPGMinResource
  <2>6. CASE 1 + W > m
    <3>1. calPGMinResource(m, order) = Total(<<v, l>>)
      BY <1>1, <2>5, <2>6
    <3> QED
      BY <1>1, <2>6, <3>1 DEF W
  <2>7. CASE ~(1 + W > m)
    <3>1. calPGMinResource(m, order) = Total(<<w, l>>)
      BY <1>1, <2>5, <2>7
    <3> QED
      BY <1>1, <2>7, <3>1 DEF W
  <2> QED
    BY <2>6, <2>7
<1> QED
  BY <1>3, <1>5, <1>6

\* Where the launcher comes first, the PodGroup asks for what its pods need.
LEMMA MinResourcesOfGang ==
    ASSUME NEW s \in Shape, ValidateGroupJob(s) = {}, LauncherFirst(s),
           NEW m \in Nat, m >= 1, NEW order \in replicasOrders(s), NEW r
    PROVE  Quantity(calPGMinResource(m, order), r)
             = Quantity(Total(SubSeq(Gang(s), 1, IF m < Len(Gang(s)) THEN m ELSE Len(Gang(s)))), r)
<1> DEFINE W == workerReplicas(s)
           n == IF m < W + 1 THEN m ELSE W + 1
           lc == s.launcher.containers
           wc == s.worker.containers
<1>1. W \in Nat /\ lc \in Seq(Containers) /\ Needs(lc, r) \in Int
  BY Accepted, OneLauncher, ContainersNeed, NothingIs
<1>2. n \in Nat /\ n >= 1 /\ n <= W + 1
  BY <1>1
<1>3. /\ Len(Gang(s)) = W + 1
      /\ Quantity(Total(SubSeq(Gang(s), 1, n)), r)
            = Needs(lc, r) + (n - 1) * IF s.worker = Absent THEN 0 ELSE Needs(wc, r)
  <2> HIDE DEF n
  <2> QED
    BY <1>2, GangNeeds
<1>4. CASE s.worker = Absent
  <2> DEFINE l == replicaPriority("launcher", s.launcher)
  <2>1. order = <<l>>
    BY <1>4 DEF replicasOrders
  <2>2. l.replicas = 1 /\ l.containers = lc
    BY PrioritiesGiven, OneLauncher
  <2> HIDE DEF l
  <2>3. order[1] = l /\ Len(order) = 1
    BY <2>1
  <2>4. calPGMinResource(m, order) = Total(order)
    BY <2>2, <2>3 DEF calPGMinResource
  <2>5. Counts(order[1])
    BY <1>1, <2>2, <2>3 DEF Counts
  <2>6. Quantity(Total(order), r) = order[1].replicas * Needs(order[1].containers, r)
    BY <2>3, <2>5, TotalOfOne
  <2>7. Quantity(Total(order), r) = 1 * Needs(lc, r)
    BY <2>2, <2>3, <2>6
  <2>8. W = 0 /\ n = 1
    BY <1>4, <1>2 DEF workerReplicas
  <2> HIDE DEF lc, n
  <2>9. Quantity(Total(SubSeq(Gang(s), 1, n)), r) = Needs(lc, r) + (n - 1) * 0
    BY <1>3, <1>4
  <2>10. Quantity(Total(order), r) = Quantity(Total(SubSeq(Gang(s), 1, n)), r)
    BY <1>1, <2>7, <2>8, <2>9
  <2> QED
    BY <1>3, <2>4, <2>10 DEF n
<1>5. CASE s.worker # Absent
  <2>1. wc \in Seq(Containers) /\ Needs(wc, r) \in Int
    BY <1>5, OneLauncher, ContainersNeed, NothingIs
  <2>2. PICK k, l, w, t :
                /\ k \in Nat /\ k = n - 1
                /\ l.containers = lc /\ l.replicas = 1
                /\ w.containers = wc /\ w.replicas = k
                /\ t \in {<<l, w>>, <<w, l>>}
                /\ calPGMinResource(m, order) = Total(t)
    BY <1>5, GangOrdered
  <2> HIDE DEF n, lc, wc
  <2>3. Counts(l) /\ Counts(w)
    BY <1>1, <2>1, <2>2 DEF Counts
  <2>4. Quantity(Total(t), r) = Needs(lc, r) + k * Needs(wc, r)
    <3>1. CASE t = <<l, w>>
      <4>1. Len(t) = 2 /\ t[1] = l /\ t[2] = w
        BY <3>1
      <4>2. Quantity(Total(t), r) = t[1].replicas * Needs(t[1].containers, r)
                                        + t[2].replicas * Needs(t[2].containers, r)
        BY <2>3, <4>1, TotalOfTwo
      <4>3. Quantity(Total(t), r) = 1 * Needs(lc, r) + k * Needs(wc, r)
        BY <2>2, <4>1, <4>2
      <4> QED
        BY <1>1, <4>3
    <3>2. CASE t = <<w, l>>
      <4>1. Len(t) = 2 /\ t[1] = w /\ t[2] = l
        BY <3>2
      <4>2. Quantity(Total(t), r) = t[1].replicas * Needs(t[1].containers, r)
                                        + t[2].replicas * Needs(t[2].containers, r)
        BY <2>3, <4>1, TotalOfTwo
      <4>3. Quantity(Total(t), r) = k * Needs(wc, r) + 1 * Needs(lc, r)
        BY <2>2, <4>1, <4>2
      <4>4. k * Needs(wc, r) \in Int
        BY <2>1, <2>2
      <4> QED
        BY <1>1, <4>3, <4>4
    <3> QED
      BY <2>2, <3>1, <3>2
  <2>5. Quantity(Total(SubSeq(Gang(s), 1, n)), r) = Needs(lc, r) + (n - 1) * Needs(wc, r)
    BY <1>3, <1>5
  <2>6. Quantity(calPGMinResource(m, order), r) = Quantity(Total(SubSeq(Gang(s), 1, n)), r)
    BY <2>2, <2>4, <2>5
  <2> QED
    BY <1>3, <2>6 DEF n
<1> QED
  BY <1>4, <1>5

\* The PodGroup of a sync that has made one, and of the one that is settled.
AskedInv ==
    /\ ~Negative(spec.minAvailable)
    /\ pc # "idle" => ~Negative(job.minAvailable)
    /\ settled # Absent => ~Negative(settled.minAvailable)
    /\ scheduler # Absent /\ pc \in {"ScaleDown", "Workers", "Launcher"} =>
            podGroup \in newPodGroups(scheduler, job)
    /\ scheduler # Absent /\ settled # Absent => podGroup \in newPodGroups(scheduler, settled)

\* Users do not ask for gangs of a negative size.
MinMembersNatural == \A s \in Submissions : ~Negative(s.spec.minAvailable)

\* An edit removes the size of the gang, sets it to 1, or leaves it.
LEMMA EditsKeepMinAvailable ==
    ASSUME Types, Edit
    PROVE  spec'.minAvailable \in {spec.minAvailable, Absent, 1}
<1>1. spec \in Shape
  BY DEF Types
<1>2. ASSUME NEW n PROVE [spec EXCEPT !.worker.replicas = n].minAvailable = spec.minAvailable
  BY <1>1 DEF Shape
<1>3. ASSUME NEW n PROVE [spec EXCEPT !.minAvailable = n].minAvailable = n
  BY <1>1 DEF Shape
<1>4. [spec EXCEPT !.runLauncherAsWorker = ~ @].minAvailable = spec.minAvailable
  BY <1>1 DEF Shape
<1>5. ASSUME NEW i PROVE [spec EXCEPT !.mpiImplementation = i].minAvailable = spec.minAvailable
  BY <1>1 DEF Shape
<1>6. CASE \E n \in ReplicaEdits : spec' = [spec EXCEPT !.worker.replicas = n]
  BY <1>2, <1>6
<1>7. CASE \E n \in {Absent, 1} : spec' = [spec EXCEPT !.minAvailable = n]
  BY <1>3, <1>7
<1>8. CASE spec' = [spec EXCEPT !.runLauncherAsWorker = ~ @]
  BY <1>4, <1>8
<1>9. CASE \E i \in {"OpenMPI", "Intel"} : spec' = [spec EXCEPT !.mpiImplementation = i]
  BY <1>5, <1>9
<1> QED
  BY <1>6, <1>7, <1>8, <1>9 DEF Edit, Edited

\* The PodGroup is made for the job of the sync, and kept until the sync's end.
LEMMA AskedSteps ==
    ASSUME AbsentApart, ObjectsInv, AskedInv, [Next]_vars
    PROVE  AskedInv'
<1> USE DEF AskedInv
<1>1. CASE SyncStart
  <2>1. spec \in Shape
    BY DEF ObjectsInv, Types
  <2>2. SetDefaults(spec).minAvailable = spec.minAvailable
    BY <2>1, Defaults
  <2>3. /\ UNCHANGED <<scheduler, spec, podGroup>> /\ settled' = Absent
        /\ \/ pc' = "Service" /\ job' = SetDefaults(spec)
           \/ UNCHANGED <<pc, job>> /\ pc = "idle"
    BY <1>1 DEF SyncStart, objects
  <2> QED
    BY <2>2, <2>3
<1>2. CASE Call
  <2>1. /\ UNCHANGED <<scheduler, spec, job, settled>> /\ settled = Absent /\ pc # "idle"
        /\ pc' = Successor(pc)
        /\ \/ pc \in {"Service", "ConfigMap", "Secret"} /\ UNCHANGED podGroup
           \/ pc = "PodGroup" /\ podGroup' \in newPodGroups(scheduler, job)
    BY <1>2 DEF Call, ObjectsInv, JobInv
  <2>2. /\ pc = "PodGroup" => pc' = "ScaleDown"
        /\ pc \in {"Service", "ConfigMap", "Secret"} /\ scheduler # Absent =>
                pc' \in {"ConfigMap", "Secret", "PodGroup"}
    BY <2>1 DEF Successor
  <2> QED
    BY <2>1, <2>2
<1>3. CASE ScaleDown
  <2>1. /\ UNCHANGED <<scheduler, spec, job, settled, podGroup>> /\ settled = Absent
        /\ pc = "ScaleDown" /\ pc' \in {"ScaleDown", "Workers"}
    BY <1>3 DEF ScaleDown, objects, Successor, ObjectsInv, JobInv
  <2> QED
    BY <2>1
<1>4. CASE GetOrCreateWorker
  <2>1. /\ UNCHANGED <<scheduler, spec, job, settled, podGroup>> /\ settled = Absent
        /\ pc = "Workers" /\ pc' \in {"Workers", "Launcher"}
    BY <1>4 DEF GetOrCreateWorker, objects, Successor, ObjectsInv, JobInv
  <2> QED
    BY <2>1
<1>5. CASE CreateLauncher
  BY <1>5 DEF CreateLauncher
<1>6. CASE SyncFails
  BY <1>6 DEF SyncFails, objects
<1>7. CASE Edit
  <2>1. UNCHANGED <<scheduler, pc, job, settled, podGroup>>
    BY <1>7 DEF Edit, Edited, objects
  <2>2. ~Negative(spec'.minAvailable)
    BY <1>7, EditsKeepMinAvailable DEF ObjectsInv, Negative
  <2> QED
    BY <2>1, <2>2
<1>8. CASE PodRuns \/ UNCHANGED vars
  BY <1>8 DEF PodRuns, objects, vars
<1> QED
  BY <1>1, <1>2, <1>3, <1>4, <1>5, <1>6, <1>7, <1>8 DEF Next

\* The pods of a gang, at most minMember, and what the PodGroup asks for.
LEMMA AskedGives == ObjectsInv /\ AskedInv => MinResourcesRight
<1> SUFFICES ASSUME ObjectsInv, AskedInv,
                    settled # Absent, podGroup # Absent,
                    settled.minResources = Absent, LauncherFirst(settled)
             PROVE
        LET gang == Gang(settled)
            needed == Total(SubSeq(gang, 1, IF podGroup.minMember < Len(gang)
                                              THEN podGroup.minMember ELSE Len(gang)))
        IN  IF podGroup.minMember = 0 THEN podGroup.minResources = Absent
            ELSE \A r \in DOMAIN podGroup.minResources \cup DOMAIN needed :
                    Quantity(podGroup.minResources, r) = Quantity(needed, r)
  BY DEF MinResourcesRight
<1> DEFINE m == calculateMinAvailable(settled)
<1>1. scheduler # Absent
  BY DEF ObjectsInv, NeedsInv
<1>2. settled \in Shape /\ ValidateGroupJob(settled) = {}
  BY DEF ObjectsInv, JobInv, Valid
<1>3. PICK order \in replicasOrders(settled) :
        /\ podGroup.minMember = m
        /\ podGroup.minResources = calculatePGMinResources(m, settled, order)
  <2>1. podGroup \in newPodGroups(scheduler, settled)
    BY <1>1 DEF AskedInv
  <2>2. PICK class : podGroup \in PodGroups(settled, class)
    BY <2>1 DEF newPodGroups, newVolcanoPodGroups, newSchedulerPluginsPodGroups
  <2>3. PICK order \in replicasOrders(settled) :
            podGroup = [minMember |-> m, priorityClass |-> class,
                        minResources |-> calculatePGMinResources(m, settled, order)]
    BY <2>2 DEF PodGroups
  <2> QED
    BY <2>3
<1>4. m \in Nat
  <2>1. settled.minAvailable \in Values(Int) /\ ~Negative(settled.minAvailable)
    BY <1>2 DEF Shape, AskedInv
  <2>2. workerReplicas(settled) \in Nat
    BY <1>2, Accepted
  <2> QED
    BY <2>1, <2>2 DEF calculateMinAvailable, OrElse, Values, Negative
<1> HIDE DEF m
<1>5. CASE m = 0
  BY <1>3, <1>5 DEF calculatePGMinResources
<1>6. CASE m # 0
  <2>1. podGroup.minResources = calPGMinResource(m, order)
    BY <1>3, <1>6 DEF calculatePGMinResources
  <2>2. m >= 1
    BY <1>4, <1>6
  <2>3. ASSUME NEW r
        PROVE  Quantity(calPGMinResource(m, order), r)
                 = Quantity(Total(SubSeq(Gang(settled), 1,
                        IF m < Len(Gang(settled)) THEN m ELSE Len(Gang(settled)))), r)
    BY <1>2, <1>3, <1>4, <2>2, MinResourcesOfGang
  <2> QED
    BY <1>3, <1>6, <2>1, <2>3
<1> QED
  BY <1>5, <1>6

\* The PodGroup asks for the resources of the minMember pods with the highest
\* priority, for any containers, numbers of workers and priorities
\* (calculatePGMinResources, calPGMinResource, addResources), where the launcher
\* comes first and no negative minAvailable was submitted.
THEOREM MinResourcesExact ==
    ASSUME AbsentApart, MinMembersNatural PROVE Spec => []MinResourcesRight
<1>1. Init => AskedInv
  BY DEF Init, AskedInv, MinMembersNatural
<1>2. ObjectsInv /\ AskedInv /\ [Next]_vars => AskedInv'
  BY AskedSteps
<1> QED
  BY <1>1, <1>2, ObjectsInvariant, AskedGives, PTL DEF Spec
=============================================================================
