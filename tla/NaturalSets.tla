----------------------------- MODULE NaturalSets -----------------------------
(***************************************************************************)
(* Induction over the natural numbers as a statement about sets: what a    *)
(* recursive function computes is proved by collecting the arguments at    *)
(* which it is right.  The library states induction for a predicate, which *)
(* the provers cannot instantiate; a set they can.                         *)
(***************************************************************************)
EXTENDS Integers, FiniteSetTheorems, TLAPS

(* A set of natural numbers has a least element: the intervals below its    *)
(* elements are finite sets, which strict inclusion orders well.           *)
LEMMA LeastElement ==
  ASSUME NEW S \in SUBSET Nat, S # {}
  PROVE  \E n \in S : \A m \in S : n <= m
<1> DEFINE Below == {0..n : n \in S}
<1>1. Below \subseteq FiniteSubsetsOf(Nat) /\ Below # {}
  <2>1. ASSUME NEW n \in S PROVE 0..n \in FiniteSubsetsOf(Nat)
    <3>1. n \in Nat /\ 0 \in Int /\ n \in Int
      OBVIOUS
    <3>2. IsFiniteSet(0..n)
      BY <3>1, FS_Interval
    <3>3. 0..n \subseteq Nat
      BY <3>1
    <3> QED
      BY <3>2, <3>3 DEF FiniteSubsetsOf
  <2> QED
    BY <2>1
<1>2. PICK b \in Below : \A c \in Below : <<c, b>> \notin StrictSubsetOrdering(Nat)
  <2> HIDE DEF Below
  <2> QED
    BY <1>1, FS_StrictSubsetOrderingWellFounded, WFMin
<1>3. PICK n \in S : b = 0..n
  BY <1>2
<1>4. ASSUME NEW m \in S, m < n PROVE FALSE
  <2>1. 0..m \in Below /\ 0..m \subseteq 0..n /\ n \in 0..n /\ n \notin 0..m
    BY <1>4
  <2>2. <<0..m, 0..n>> \in StrictSubsetOrdering(Nat)
    BY <2>1 DEF StrictSubsetOrdering
  <2> QED
    BY <1>2, <1>3, <2>1, <2>2
<1> QED
  BY <1>3, <1>4

(* Induction up to a bound: a set with 0 that is closed under successor      *)
(* below n contains all of 0..n.                                           *)
LEMMA UpTo ==
  ASSUME NEW n \in Nat, NEW S, 0 \in S,
         \A k \in 0..n : k \in S /\ k < n => k + 1 \in S
  PROVE  0..n \subseteq S
<1> SUFFICES ASSUME (0..n) \ S # {} PROVE FALSE
  OBVIOUS
<1>1. PICK k \in (0..n) \ S : \A m \in (0..n) \ S : k <= m
  <2>1. (0..n) \ S \in SUBSET Nat
    OBVIOUS
  <2> QED
    BY <2>1, LeastElement
<1>2. k # 0 /\ k - 1 \in 0..n /\ k - 1 < n /\ (k - 1) + 1 = k
  BY <1>1
<1>3. k - 1 \in S
  BY <1>1, <1>2
<1> QED
  BY <1>1, <1>2, <1>3

(* f records the value after each of n steps. *)
Computes(f, n, V, first, step) ==
  f \in [0..n -> V] /\ f[0] = first /\ \A k \in 1..n : f[k] = step[k][f[k - 1]]

(* A sequence of steps, each a function of the value before it, has a       *)
(* function that records every value: recursion up to a bound is defined.   *)
LEMMA RecursionUpTo ==
  ASSUME NEW n \in Nat, NEW V, NEW first \in V, NEW step \in [1..n -> [V -> V]]
  PROVE  \E f : Computes(f, n, V, first, step)
<1> DEFINE Follows(f, k) == f[0] = first /\ \A i \in 1..k : f[i] = step[i][f[i - 1]]
           S == {k \in 0..n : \E f \in [0..k -> V] : Follows(f, k)}
<1>1. 0 \in S
  <2> DEFINE f == [i \in 0..0 |-> first]
  <2>1. f \in [0..0 -> V] /\ Follows(f, 0) /\ 0 \in 0..n
    OBVIOUS
  <2>2. \E h \in [0..0 -> V] : Follows(h, 0)
    <3> HIDE DEF f, Follows
    <3> QED
      BY <2>1
  <2> HIDE DEF f, Follows
  <2> QED
    BY <2>1, <2>2
<1>2. ASSUME NEW k \in 0..n, k \in S, k < n PROVE k + 1 \in S
  <2>1. PICK f \in [0..k -> V] : Follows(f, k)
    BY <1>2
  <2> DEFINE value == step[k + 1][f[k]]
             g == [i \in 0..(k + 1) |-> IF i = k + 1 THEN value ELSE f[i]]
  <2>2. k \in Nat /\ k + 1 \in 1..n /\ f[k] \in V
    BY <1>2, <2>1
  <2>3. value \in V
    BY <2>2
  <2>4. g \in [0..(k + 1) -> V]
    BY <2>1, <2>2, <2>3
  <2>5. g[0] = first
    BY <2>1, <2>2
  <2>6. ASSUME NEW i \in 1..(k + 1) PROVE g[i] = step[i][g[i - 1]]
    <3>1. i - 1 \in 0..k /\ g[i - 1] = f[i - 1] /\ i \in 0..(k + 1)
      BY <2>2
    <3>2. CASE i = k + 1
      <4>1. g[i] = value /\ i - 1 = k
        BY <2>2, <3>1, <3>2
      <4> QED
        BY <3>1, <3>2, <4>1
    <3>3. CASE i # k + 1
      <4>1. i \in 1..k /\ g[i] = f[i]
        BY <2>2, <3>1, <3>3
      <4> QED
        BY <2>1, <3>1, <4>1
    <3> QED
      BY <3>2, <3>3
  <2>7. Follows(g, k + 1)
    BY <2>5, <2>6
  <2>8. k + 1 \in 0..n
    BY <2>2
  <2> HIDE DEF g, Follows
  <2> QED
    BY <2>4, <2>7, <2>8
<1>3. n \in S
  <2> HIDE DEF S
  <2>1. 0..n \subseteq S
    BY <1>1, <1>2, UpTo
  <2> QED
    BY <2>1
<1> QED
  BY <1>3 DEF Computes

(* Induction from the end of a list, where each place may depend on the     *)
(* next two: places n + 1 and n + 2 are beyond the list.                   *)
LEMMA DownFrom ==
  ASSUME NEW n \in Nat, NEW S, n + 1 \in S, n + 2 \in S,
         \A i \in 1..n : i + 1 \in S /\ i + 2 \in S => i \in S
  PROVE  1..(n + 2) \subseteq S
<1> DEFINE Missing == {k \in 0..(n + 1) : (n + 2) - k \notin S}
<1> SUFFICES ASSUME NEW j \in 1..(n + 2), j \notin S PROVE FALSE
  OBVIOUS
<1>1. Missing \in SUBSET Nat /\ Missing # {}
  <2>1. (n + 2) - j \in 0..(n + 1) /\ (n + 2) - ((n + 2) - j) = j
    OBVIOUS
  <2>2. (n + 2) - j \in Missing
    BY <2>1
  <2>3. Missing \in SUBSET Nat
    OBVIOUS
  <2> QED
    BY <2>2, <2>3
<1>2. PICK k \in Missing : \A m \in Missing : k <= m
  <2> HIDE DEF Missing
  <2> QED
    BY <1>1, LeastElement
<1>3. k \in 0..(n + 1) /\ (n + 2) - k \notin S
  BY <1>2
<1>4. k >= 2
  BY <1>3
<1>5. (n + 2) - k \in 1..n /\ k - 1 \in 0..(n + 1) /\ k - 2 \in 0..(n + 1)
  BY <1>3, <1>4
<1>6. k - 1 \notin Missing /\ k - 2 \notin Missing
  <2> HIDE DEF Missing
  <2> QED
    BY <1>2, <1>3, <1>4, <1>1
<1>7. ((n + 2) - k) + 1 \in S /\ ((n + 2) - k) + 2 \in S
  <2>1. (n + 2) - (k - 1) \in S /\ (n + 2) - (k - 2) \in S
    BY <1>5, <1>6
  <2>2. (n + 2) - (k - 1) = ((n + 2) - k) + 1 /\ (n + 2) - (k - 2) = ((n + 2) - k) + 2
    BY <1>3
  <2> QED
    BY <2>1, <2>2
<1> QED
  BY <1>3, <1>5, <1>7

(* f records each place of a list, read from its end: a function of the next two. *)
ComputesBack(f, n, V, end, step) ==
  /\ f \in [1..(n + 2) -> V]
  /\ f[n + 1] = end /\ f[n + 2] = end
  /\ \A i \in 1..n : f[i] = step[i][<<f[i + 1], f[i + 2]>>]

(* A list read from its end, each place a function of the next two, has a   *)
(* function of every place.                                                *)
LEMMA BackwardRecursion ==
  ASSUME NEW n \in Nat, NEW V, NEW end \in V, NEW step \in [1..n -> [V \X V -> V]]
  PROVE  \E f : ComputesBack(f, n, V, end, step)
<1> DEFINE W == V \X V
           first == <<end, end>>
           step2 == [k \in 1..n |-> [v \in W |-> <<step[(n + 1) - k][v], v[1]>>]]
<1>1. first \in W /\ step2 \in [1..n -> [W -> W]]
  <2>1. ASSUME NEW k \in 1..n, NEW v \in W PROVE <<step[(n + 1) - k][v], v[1]>> \in W
    <3>1. (n + 1) - k \in 1..n
      OBVIOUS
    <3> QED
      BY <3>1
  <2> QED
    BY <2>1
<1>2. PICK g : Computes(g, n, W, first, step2)
  <2> HIDE DEF W, first, step2
  <2> QED
    BY <1>1, RecursionUpTo, Zenon
<1>3. g \in [0..n -> W] /\ g[0] = <<end, end>>
  BY <1>2 DEF Computes
<1>4. ASSUME NEW k \in 1..n PROVE g[k] = <<step[(n + 1) - k][g[k - 1]], g[k - 1][1]>>
  <2>1. g[k] = step2[k][g[k - 1]] /\ k - 1 \in 0..n
    <3> HIDE DEF W, first, step2
    <3> QED
      BY <1>2 DEF Computes
  <2>2. g[k - 1] \in W
    BY <1>3, <2>1
  <2> QED
    BY <2>1, <2>2
<1> DEFINE f == [i \in 1..(n + 2) |-> IF i = n + 2 THEN end ELSE g[(n + 1) - i][1]]
<1>5. f \in [1..(n + 2) -> V]
  <2>1. ASSUME NEW i \in 1..(n + 2), i # n + 2 PROVE g[(n + 1) - i][1] \in V
    <3>1. (n + 1) - i \in 0..n
      BY <2>1
    <3>2. g[(n + 1) - i] \in W
      BY <1>3, <3>1
    <3> QED
      BY <3>2
  <2> QED
    BY <2>1
<1>6. f[n + 2] = end /\ f[n + 1] = end
  <2>1. n + 1 \in 1..(n + 2) /\ n + 1 # n + 2 /\ (n + 1) - (n + 1) = 0 /\ n + 2 \in 1..(n + 2)
    OBVIOUS
  <2> QED
    BY <1>3, <2>1
<1>7. ASSUME NEW i \in 1..n PROVE f[i] = step[i][<<f[i + 1], f[i + 2]>>]
  <2> DEFINE k == (n + 1) - i
  <2>1. k \in 1..n /\ (n + 1) - k = i /\ k - 1 = n - i /\ k - 1 \in 0..n
    OBVIOUS
  <2>2. f[i] = g[k][1]
    BY <2>1
  <2>3. f[i] = step[i][g[k - 1]]
    BY <1>4, <2>1, <2>2
  <2>4. g[k - 1][1] = f[i + 1]
    <3>1. i + 1 \in 1..(n + 2) /\ i + 1 # n + 2 /\ (n + 1) - (i + 1) = k - 1
      OBVIOUS
    <3> QED
      BY <3>1
  <2>5. g[k - 1][2] = f[i + 2]
    <3>1. CASE i = n
      <4>1. k - 1 = 0 /\ i + 2 = n + 2
        BY <3>1
      <4> QED
        BY <1>3, <1>6, <4>1
    <3>2. CASE i # n
      <4>1. k - 1 \in 1..n /\ i + 2 \in 1..(n + 2) /\ i + 2 # n + 2 /\ (n + 1) - (i + 2) = (k - 1) - 1
        BY <3>2
      <4>2. g[k - 1][2] = g[(k - 1) - 1][1]
        BY <1>4, <4>1
      <4>3. f[i + 2] = g[(k - 1) - 1][1]
        BY <4>1
      <4> QED
        BY <4>2, <4>3
    <3> QED
      BY <3>1, <3>2
  <2>6. g[k - 1] \in W
    BY <1>3, <2>1
  <2>7. g[k - 1] = <<f[i + 1], f[i + 2]>>
    <3> HIDE DEF f, k
    <3>1. \E a \in V, b \in V : g[k - 1] = <<a, b>>
      BY <2>6
    <3> QED
      BY <3>1, <2>4, <2>5
  <2> QED
    BY <2>3, <2>7
<1>8. ComputesBack(f, n, V, end, step)
  <2> HIDE DEF f, W, first, step2
  <2> QED
    BY <1>5, <1>6, <1>7 DEF ComputesBack
<1> QED
  BY <1>8
=============================================================================
