--------------------------- MODULE TailoringProofs ---------------------------
(***************************************************************************)
(* What holds of every bundle that loads and of every plan built from one, *)
(* for every catalog, specification and argument list: the invariants of   *)
(* Tailoring that speak of one bundle, proved without bounds.              *)
(***************************************************************************)
EXTENDS Tailoring, NaturalSets
LOCAL INSTANCE SequencesExt

-----------------------------------------------------------------------------
(* Lists *)

(* Filter is defined: a function records what is kept of each prefix.       *)
LEMMA FilterRecursion ==
  ASSUME NEW T, NEW s \in Seq(T), NEW S
  PROVE  \E f \in [0..Len(s) -> Seq(T)] :
            /\ f[0] = <<>> /\ Filter(s, S) = f[Len(s)]
            /\ \A n \in 1..Len(s) : f[n] = IF s[n] \in S THEN Append(f[n - 1], s[n]) ELSE f[n - 1]
<1> DEFINE N == Len(s)
           V == Seq(T)
           step == [n \in 1..N |-> [v \in V |-> IF s[n] \in S THEN Append(v, s[n]) ELSE v]]
           Rule(f) == [n \in 0..N |-> IF n = 0 THEN <<>>
                                      ELSE IF s[n] \in S THEN Append(f[n - 1], s[n]) ELSE f[n - 1]]
<1>1. N \in Nat /\ <<>> \in V /\ step \in [1..N -> [V -> V]]
  <2>1. ASSUME NEW n \in 1..N, NEW v \in V PROVE Append(v, s[n]) \in V
    OBVIOUS
  <2> QED
    BY <2>1
<1>2. PICK f : Computes(f, N, V, <<>>, step)
  <2> HIDE DEF N, V, step
  <2> QED
    BY <1>1, RecursionUpTo, Zenon
<1>3. f \in [0..N -> V] /\ f[0] = <<>>
  BY <1>2 DEF Computes
<1>4. ASSUME NEW n \in 1..N PROVE f[n] = IF s[n] \in S THEN Append(f[n - 1], s[n]) ELSE f[n - 1]
  <2>1. f[n] = step[n][f[n - 1]] /\ n - 1 \in 0..N
    <3> HIDE DEF V, step
    <3> QED
      BY <1>2 DEF Computes
  <2>2. f[n - 1] \in V
    BY <1>3, <2>1
  <2> QED
    BY <2>1, <2>2
<1>5. f = Rule(f)
  <2> HIDE DEF V
  <2>1. \A n \in 0..N : f[n] = IF n = 0 THEN <<>>
                              ELSE IF s[n] \in S THEN Append(f[n - 1], s[n]) ELSE f[n - 1]
    <3> TAKE n \in 0..N
    <3>1. n # 0 => n \in 1..N
      BY <1>1
    <3> QED
      BY <1>3, <1>4, <3>1
  <2>2. f = [n \in 0..N |-> f[n]]
    BY <1>3
  <2> QED
    BY <2>1, <2>2
<1> DEFINE g == CHOOSE h : h = Rule(h)
<1>6. g = Rule(g)
  <2> HIDE DEF Rule
  <2> QED
    BY <1>5
<1>7. Filter(s, S) = g[N]
  BY DEF Filter
<1>8. 0..N \subseteq {n \in 0..N : g[n] = f[n]}
  <2> DEFINE Same == {n \in 0..N : g[n] = f[n]}
  <2>1. 0 \in Same
    <3>1. 0 \in 0..N
      BY <1>1
    <3>2. g[0] = <<>>
      <4> HIDE DEF g, N
      <4> QED
        BY <1>6, <3>1
    <3> QED
      BY <1>3, <3>1, <3>2
  <2>2. \A k \in 0..N : k \in Same /\ k < N => k + 1 \in Same
    <3> TAKE k \in 0..N
    <3> HAVE k \in Same /\ k < N
    <3>1. k + 1 \in 1..N /\ (k + 1) - 1 = k /\ k + 1 \in 0..N /\ k + 1 # 0
      OBVIOUS
    <3>2. g[k + 1] = IF s[k + 1] \in S THEN Append(g[k], s[k + 1]) ELSE g[k]
      <4> HIDE DEF g, N
      <4> QED
        BY <1>6, <3>1
    <3>3. f[k + 1] = IF s[k + 1] \in S THEN Append(f[k], s[k + 1]) ELSE f[k]
      BY <1>4, <3>1
    <3> QED
      BY <3>1, <3>2, <3>3
  <2> HIDE DEF Same, N
  <2>3. 0..N \subseteq Same
    BY <1>1, <2>1, <2>2, UpTo
  <2> QED
    BY <2>3 DEF Same
<1>9. g[N] = f[N]
  BY <1>1, <1>8
<1> QED
  BY <1>3, <1>4, <1>7, <1>9

(* Filter keeps exactly the elements of the set.                            *)
LEMMA FilterElements ==
  ASSUME NEW T, NEW s \in Seq(T), NEW S
  PROVE  /\ Filter(s, S) \in Seq(T)
         /\ ToSet(Filter(s, S)) = {x \in ToSet(s) : x \in S}
<1>1. PICK f \in [0..Len(s) -> Seq(T)] :
            /\ f[0] = <<>> /\ Filter(s, S) = f[Len(s)]
            /\ \A n \in 1..Len(s) : f[n] = IF s[n] \in S THEN Append(f[n - 1], s[n]) ELSE f[n - 1]
  BY FilterRecursion
<1> DEFINE N == Len(s)
           Good == {n \in 0..N : ToSet(f[n]) = {s[i] : i \in {j \in 1..n : s[j] \in S}}}
<1>2. N \in Nat /\ Filter(s, S) = f[N] /\ f[N] \in Seq(T)
  BY <1>1
<1>3. 0 \in Good
  BY <1>1 DEF ToSet
<1>4. \A k \in 0..N : k \in Good /\ k < N => k + 1 \in Good
  <2> TAKE k \in 0..N
  <2> HAVE k \in Good /\ k < N
  <2>1. k + 1 \in 1..N /\ (k + 1) - 1 = k /\ k + 1 \in 0..N
    BY <1>2
  <2>2. f[k + 1] = IF s[k + 1] \in S THEN Append(f[k], s[k + 1]) ELSE f[k]
    BY <1>1, <2>1
  <2>3. f[k] \in Seq(T) /\ s[k + 1] \in T
    BY <1>1, <2>1
  <2>4. {j \in 1..(k + 1) : s[j] \in S} =
           {j \in 1..k : s[j] \in S} \cup (IF s[k + 1] \in S THEN {k + 1} ELSE {})
    BY <2>1
  <2>5. ToSet(Append(f[k], s[k + 1])) = ToSet(f[k]) \cup {s[k + 1]}
    <3>1. \A q \in Seq(T), x \in T : ToSet(Append(q, x)) = ToSet(q) \cup {x}
      <4> TAKE q \in Seq(T), x \in T
      <4>1. DOMAIN Append(q, x) = 1..(Len(q) + 1) /\ DOMAIN q = 1..Len(q) /\ Len(q) \in Nat
        OBVIOUS
      <4>2. Append(q, x)[Len(q) + 1] = x /\ \A i \in 1..Len(q) : Append(q, x)[i] = q[i]
        OBVIOUS
      <4>3. ToSet(Append(q, x)) = {Append(q, x)[i] : i \in 1..(Len(q) + 1)}
        BY <4>1 DEF ToSet
      <4>4. ToSet(q) = {q[i] : i \in 1..Len(q)}
        BY <4>1 DEF ToSet
      <4>5. 1..(Len(q) + 1) = 1..Len(q) \cup {Len(q) + 1}
        BY <4>1
      <4> QED
        BY <4>2, <4>3, <4>4, <4>5
    <3> QED
      BY <2>3, <3>1
  <2>6. ToSet(f[k + 1]) = ToSet(f[k]) \cup (IF s[k + 1] \in S THEN {s[k + 1]} ELSE {})
    BY <2>2, <2>5
  <2> QED
    BY <2>1, <2>4, <2>6
<1>5. N \in Good
  <2> HIDE DEF Good, N
  <2>1. 0..N \subseteq Good
    BY <1>2, <1>3, <1>4, UpTo
  <2> QED
    BY <1>2, <2>1
<1>6. ToSet(s) = {s[i] : i \in 1..N}
  BY DEF ToSet
<1> QED
  BY <1>2, <1>5, <1>6

(* When one place of the list holds an element of the set, that is kept.    *)
LEMMA FilterOne ==
  ASSUME NEW T, NEW s \in Seq(T), NEW S, NEW p \in 1..Len(s), s[p] \in S,
         \A i \in 1..Len(s) : s[i] \in S => i = p
  PROVE  Filter(s, S) = <<s[p]>>
<1>1. PICK f \in [0..Len(s) -> Seq(T)] :
            /\ f[0] = <<>> /\ Filter(s, S) = f[Len(s)]
            /\ \A n \in 1..Len(s) : f[n] = IF s[n] \in S THEN Append(f[n - 1], s[n]) ELSE f[n - 1]
  BY FilterRecursion
<1> DEFINE N == Len(s)
           Good == {n \in 0..N : f[n] = IF n < p THEN <<>> ELSE <<s[p]>>}
<1>2. N \in Nat /\ Filter(s, S) = f[N] /\ N >= p
  BY <1>1
<1>3. 0 \in Good
  BY <1>1
<1>4. \A k \in 0..N : k \in Good /\ k < N => k + 1 \in Good
  <2> TAKE k \in 0..N
  <2> HAVE k \in Good /\ k < N
  <2>1. k + 1 \in 1..N /\ (k + 1) - 1 = k /\ k + 1 \in 0..N
    BY <1>2
  <2>2. f[k + 1] = IF s[k + 1] \in S THEN Append(f[k], s[k + 1]) ELSE f[k]
    BY <1>1, <2>1
  <2>3. CASE k + 1 = p
    <3>1. f[k] = <<>> /\ f[k + 1] = Append(<<>>, s[p])
      <4>1. k < p
        BY <2>1, <2>3
      <4> QED
        BY <2>2, <2>3, <4>1
    <3>2. Append(<<>>, s[p]) = <<s[p]>>
      OBVIOUS
    <3> QED
      BY <2>1, <2>3, <3>1, <3>2
  <2>4. CASE k + 1 # p
    <3>1. f[k + 1] = f[k] /\ (k < p <=> k + 1 < p)
      BY <2>1, <2>2, <2>4
    <3> QED
      BY <2>1, <3>1
  <2> QED
    BY <2>3, <2>4
<1>5. N \in Good
  <2> HIDE DEF Good, N
  <2>1. 0..N \subseteq Good
    BY <1>2, <1>3, <1>4, UpTo
  <2> QED
    BY <1>2, <2>1
<1> QED
  BY <1>2, <1>5

-----------------------------------------------------------------------------
(* Names and paths *)

LEMMA RankType == Rank \in [StableNames -> Nat]
<1>1. ASSUME NEW n \in StableNames
      PROVE  (CHOOSE i \in DOMAIN Alphabet : Alphabet[i] = n) \in Nat
  <2>1. \E i \in DOMAIN Alphabet : Alphabet[i] = n
    BY <1>1 DEF StableNames, ToSet
  <2>2. DOMAIN Alphabet \subseteq Nat
    BY AlphabetAssumption
  <2> QED
    BY <2>1, <2>2
<1> QED
  BY <1>1 DEF Rank

(* A list whose elements are in a set is a list over that set.              *)
LEMMA ListOver ==
  ASSUME NEW T, NEW S, NEW p \in Seq(T), \A i \in DOMAIN p : p[i] \in S
  PROVE  p \in Seq(S)
<1>1. Len(p) \in Nat /\ DOMAIN p = 1..Len(p) /\ p = [i \in 1..Len(p) |-> p[i]]
  OBVIOUS
<1>2. p \in [1..Len(p) -> S]
  BY <1>1
<1> QED
  BY <1>1, <1>2

LEMMA NamesAreStrings == StableNames \subseteq STRING
  BY AlphabetAssumption DEF StableNames, ToSet

(* Two lists agree up to a place when their parts up to it are equal.        *)
LEMMA SameStart ==
  ASSUME NEW T, NEW p \in Seq(T), NEW q \in Seq(T), NEW n \in Nat, n <= Len(p), n <= Len(q)
  PROVE  SubSeq(p, 1, n) = SubSeq(q, 1, n) <=> \A j \in 1..n : p[j] = q[j]
<1>1. SubSeq(p, 1, n) = [j \in 1..n |-> p[j]] /\ SubSeq(q, 1, n) = [j \in 1..n |-> q[j]]
  OBVIOUS
<1>2. ASSUME SubSeq(p, 1, n) = SubSeq(q, 1, n), NEW j \in 1..n PROVE p[j] = q[j]
  <2>1. p[j] = [k \in 1..n |-> p[k]][j] /\ q[j] = [k \in 1..n |-> q[k]][j]
    OBVIOUS
  <2> QED
    BY <1>1, <1>2, <2>1, Zenon
<1>3. ASSUME \A j \in 1..n : p[j] = q[j] PROVE SubSeq(p, 1, n) = SubSeq(q, 1, n)
  BY <1>1, <1>3
<1> QED
  BY <1>2, <1>3

LEMMA PrefixPoints ==
  ASSUME NEW T, NEW p \in Seq(T), NEW q \in Seq(T)
  PROVE  IsPrefix(p, q) <=> Len(p) <= Len(q) /\ \A j \in 1..Len(p) : p[j] = q[j]
<1>1. CASE Len(p) <= Len(q)
  <2>1. SubSeq(p, 1, Len(p)) = SubSeq(q, 1, Len(p)) <=> \A j \in 1..Len(p) : p[j] = q[j]
    <3>1. Len(p) \in Nat /\ Len(p) <= Len(p)
      OBVIOUS
    <3> QED
      BY <1>1, <3>1, SameStart
  <2>2. SubSeq(p, 1, Len(p)) = p
    OBVIOUS
  <2> QED
    BY <1>1, <2>1, <2>2 DEF IsPrefix
<1>2. CASE ~(Len(p) <= Len(q))
  BY <1>2 DEF IsPrefix
<1> QED
  BY <1>1, <1>2

(* The order of paths, place by place.                                       *)
Shorter(p, q) == Len(p) < Len(q) /\ \A j \in 1..Len(p) : p[j] = q[j]
FirstDiffers(p, q, i) ==
  i \in 1..Len(p) /\ i \in 1..Len(q) /\ Rank[p[i]] < Rank[q[i]] /\ \A j \in 1..(i - 1) : p[j] = q[j]

LEMMA PathPoints ==
  ASSUME NEW p \in Seq(StableNames), NEW q \in Seq(StableNames)
  PROVE  PathBefore(p, q) <=> (Shorter(p, q) \/ \E i \in Nat : FirstDiffers(p, q, i))
<1>1. (p # q /\ IsPrefix(p, q)) <=> Shorter(p, q)
  <2>1. IsPrefix(p, q) <=> Len(p) <= Len(q) /\ \A j \in 1..Len(p) : p[j] = q[j]
    BY PrefixPoints
  <2>2. ASSUME Len(p) = Len(q), \A j \in 1..Len(p) : p[j] = q[j] PROVE p = q
    BY <2>2
  <2>3. Len(p) \in Nat /\ Len(q) \in Nat /\ (p = q => Len(p) = Len(q))
    OBVIOUS
  <2> QED
    BY <2>1, <2>2, <2>3 DEF Shorter
<1>2. ASSUME NEW i \in DOMAIN p \cap DOMAIN q
      PROVE  (Rank[p[i]] < Rank[q[i]] /\ SubSeq(p, 1, i - 1) = SubSeq(q, 1, i - 1)) <=> FirstDiffers(p, q, i)
  <2>1. i \in 1..Len(p) /\ i \in 1..Len(q) /\ i - 1 \in Nat /\ i - 1 <= Len(p) /\ i - 1 <= Len(q)
    OBVIOUS
  <2>2. SubSeq(p, 1, i - 1) = SubSeq(q, 1, i - 1) <=> \A j \in 1..(i - 1) : p[j] = q[j]
    BY <2>1, SameStart
  <2> QED
    BY <2>1, <2>2 DEF FirstDiffers
<1>3. ASSUME NEW i \in Nat, FirstDiffers(p, q, i) PROVE i \in DOMAIN p \cap DOMAIN q
  BY <1>3 DEF FirstDiffers
<1>4. DOMAIN p \cap DOMAIN q \subseteq Nat
  OBVIOUS
<1> QED
  BY <1>1, <1>2, <1>3, <1>4 DEF PathBefore

LEMMA PathIrreflexive ==
  ASSUME NEW p \in Seq(StableNames)
  PROVE  ~PathBefore(p, p)
<1>1. ~Shorter(p, p)
  BY DEF Shorter
<1>2. ASSUME NEW i \in Nat PROVE ~FirstDiffers(p, p, i)
  <2>1. i \in 1..Len(p) => Rank[p[i]] \in Nat
    BY RankType
  <2> QED
    BY <2>1 DEF FirstDiffers
<1> QED
  BY <1>1, <1>2, PathPoints

LEMMA PathTransitive ==
  ASSUME NEW p \in Seq(StableNames), NEW q \in Seq(StableNames), NEW r \in Seq(StableNames),
         PathBefore(p, q), PathBefore(q, r)
  PROVE  PathBefore(p, r)
<1>1. /\ Shorter(p, q) \/ \E i \in Nat : FirstDiffers(p, q, i)
      /\ Shorter(q, r) \/ \E i \in Nat : FirstDiffers(q, r, i)
  BY PathPoints
<1>2. Len(p) \in Nat /\ Len(q) \in Nat /\ Len(r) \in Nat
  OBVIOUS
<1>3. SUFFICES Shorter(p, r) \/ \E i \in Nat : FirstDiffers(p, r, i)
  BY PathPoints
<1>4. CASE Shorter(p, q) /\ Shorter(q, r)
  BY <1>2, <1>4 DEF Shorter
<1>5. ASSUME Shorter(p, q), NEW i \in Nat, FirstDiffers(q, r, i)
      PROVE  Shorter(p, r) \/ FirstDiffers(p, r, i)
  <2>1. CASE i <= Len(p)
    <3>1. i \in 1..Len(p) /\ p[i] = q[i] /\ \A j \in 1..(i - 1) : j \in 1..Len(p)
      BY <1>2, <1>5, <2>1 DEF Shorter, FirstDiffers
    <3> QED
      BY <1>5, <3>1 DEF Shorter, FirstDiffers
  <2>2. CASE i > Len(p)
    <3>1. Len(p) < Len(r) /\ \A j \in 1..Len(p) : j \in 1..(i - 1)
      BY <1>2, <1>5, <2>2 DEF FirstDiffers
    <3> QED
      BY <1>5, <3>1 DEF Shorter, FirstDiffers
  <2> QED
    BY <1>2, <2>1, <2>2
<1>6. ASSUME NEW i \in Nat, FirstDiffers(p, q, i), Shorter(q, r)
      PROVE  FirstDiffers(p, r, i)
  <2>1. i \in 1..Len(q) /\ i \in 1..Len(r) /\ \A j \in 1..(i - 1) : j \in 1..Len(q)
    BY <1>2, <1>6 DEF Shorter, FirstDiffers
  <2> QED
    BY <1>6, <2>1 DEF Shorter, FirstDiffers
<1>7. ASSUME NEW i \in Nat, FirstDiffers(p, q, i), NEW k \in Nat, FirstDiffers(q, r, k)
      PROVE  \E m \in Nat : FirstDiffers(p, r, m)
  <2>1. CASE i < k
    <3>1. i \in 1..(k - 1) /\ i \in 1..Len(r) /\ \A j \in 1..(i - 1) : j \in 1..(k - 1)
      BY <1>2, <1>7, <2>1 DEF FirstDiffers
    <3>2. FirstDiffers(p, r, i)
      BY <1>7, <3>1 DEF FirstDiffers
    <3> QED
      BY <3>2
  <2>2. CASE k < i
    <3>1. k \in 1..(i - 1) /\ k \in 1..Len(p) /\ \A j \in 1..(k - 1) : j \in 1..(i - 1)
      BY <1>2, <1>7, <2>2 DEF FirstDiffers
    <3>2. FirstDiffers(p, r, k)
      BY <1>7, <3>1 DEF FirstDiffers
    <3> QED
      BY <3>2
  <2>3. CASE k = i
    <3>1. i \in 1..Len(p) /\ i \in 1..Len(q) /\ i \in 1..Len(r)
      BY <1>7, <2>3 DEF FirstDiffers
    <3>2. Rank[p[i]] \in Nat /\ Rank[q[i]] \in Nat /\ Rank[r[i]] \in Nat
      BY <3>1, RankType
    <3>3. FirstDiffers(p, r, i)
      BY <1>7, <2>3, <3>1, <3>2 DEF FirstDiffers
    <3> QED
      BY <3>3
  <2> QED
    BY <2>1, <2>2, <2>3
<1> QED
  BY <1>1, <1>4, <1>5, <1>6, <1>7

(* What strictly ascends has no path twice.                                  *)
LEMMA AscendingPaths ==
  ASSUME NEW n \in Nat, NEW path \in [1..n -> Seq(StableNames)],
         \A i \in 1..(n - 1) : PathBefore(path[i], path[i + 1]),
         NEW i \in 1..n, NEW j \in 1..n, i < j
  PROVE  PathBefore(path[i], path[j])
<1> DEFINE Above == {k \in 0..(n - i) : k = 0 \/ PathBefore(path[i], path[i + k])}
<1>1. n - i \in Nat /\ 0 \in Above
  OBVIOUS
<1>2. \A k \in 0..(n - i) : k \in Above /\ k < n - i => k + 1 \in Above
  <2> TAKE k \in 0..(n - i)
  <2> HAVE k \in Above /\ k < n - i
  <2>1. i + k \in 1..(n - 1) /\ i + (k + 1) = (i + k) + 1 /\ k + 1 \in 0..(n - i) /\ i + k \in 1..n
        /\ (i + k) + 1 \in 1..n /\ i + 0 = i
    OBVIOUS
  <2>2. PathBefore(path[i + k], path[(i + k) + 1])
    BY <2>1
  <2>3. path[i] \in Seq(StableNames) /\ path[i + k] \in Seq(StableNames) /\ path[(i + k) + 1] \in Seq(StableNames)
    BY <2>1
  <2>4. PathBefore(path[i], path[(i + k) + 1])
    <3>1. CASE k = 0
      BY <2>1, <2>2, <3>1
    <3>2. CASE k # 0
      <4>1. PathBefore(path[i], path[i + k])
        BY <3>2
      <4> QED
        BY <2>2, <2>3, <4>1, PathTransitive
    <3> QED
      BY <3>1, <3>2
  <2> QED
    BY <2>1, <2>4
<1>3. 0..(n - i) \subseteq Above
  <2> HIDE DEF Above
  <2> QED
    BY <1>1, <1>2, UpTo
<1>4. j - i \in Above /\ j - i # 0 /\ i + (j - i) = j
  <2>1. j - i \in 0..(n - i) /\ j - i # 0 /\ i + (j - i) = j
    OBVIOUS
  <2> HIDE DEF Above
  <2> QED
    BY <1>3, <2>1
<1> QED
  BY <1>4

LEMMA DistinctPaths ==
  ASSUME NEW n \in Nat, NEW path \in [1..n -> Seq(StableNames)],
         \A i \in 1..(n - 1) : PathBefore(path[i], path[i + 1]),
         NEW i \in 1..n, NEW j \in 1..n, path[i] = path[j]
  PROVE  i = j
<1>1. path[i] \in Seq(StableNames)
  OBVIOUS
<1>2. ~PathBefore(path[i], path[i])
  BY <1>1, PathIrreflexive
<1>3. ~(i < j)
  BY <1>2, AscendingPaths
<1>4. ~(j < i)
  BY <1>2, AscendingPaths
<1> QED
  BY <1>3, <1>4

(* The key of a path of stable names is the path.                            *)
LEMMA JoinedStable ==
  ASSUME NEW p \in Seq(StableNames)
  PROVE  Joined(p) = p
<1> DEFINE n == Len(p)
           parts == [i \in 1..n |-> <<p[i]>>]
           Rule(f) == [i \in 1..n |-> IF i = 1 THEN parts[i] ELSE f[i - 1] \o parts[i]]
           f == [i \in 1..n |-> SubSeq(p, 1, i)]
           g == CHOOSE h : h = Rule(h)
<1>1. n \in Nat /\ DOMAIN p = 1..n /\ parts \in Seq(Seq(StableNames)) /\ Len(parts) = n
  OBVIOUS
<1>2. Joined(p) = FlattenSeq(parts)
  <2>1. \A i \in DOMAIN p : p[i] \in StableNames
    OBVIOUS
  <2>2. \A i \in DOMAIN p : SplitSegment(p[i]) = <<p[i]>>
    BY <2>1, SpacedAssumption DEF SplitSegment
  <2>3. [i \in DOMAIN p |-> SplitSegment(p[i])] = parts
    BY <1>1, <2>2
  <2> HIDE DEF parts
  <2> QED
    BY <2>3 DEF Joined
<1>3. CASE n = 0
  <2>1. p = <<>> /\ parts = <<>>
    BY <1>1, <1>3
  <2>2. FlattenSeq(parts) = parts
    BY <1>1, <1>3 DEF FlattenSeq
  <2> QED
    BY <1>2, <2>1, <2>2
<1>4. CASE n # 0
  <2>1. Joined(p) = g[n]
    <3>1. FlattenSeq(parts) = g[n]
      BY <1>1, <1>4 DEF FlattenSeq
    <3> HIDE DEF g, parts, n
    <3> QED
      BY <1>2, <3>1
  <2>2. \A i \in 1..n : f[i] = IF i = 1 THEN parts[i] ELSE f[i - 1] \o parts[i]
    <3> TAKE i \in 1..n
    <3>1. CASE i = 1
      <4>1. SubSeq(p, 1, 1) \in Seq(StableNames) /\ Len(SubSeq(p, 1, 1)) = 1 /\ SubSeq(p, 1, 1)[1] = p[1]
        BY <1>1, <1>4
      <4>2. SubSeq(p, 1, 1) = <<p[1]>>
        <5> DEFINE a == SubSeq(p, 1, 1)
                   b == <<p[1]>>
        <5>1. DOMAIN a = 1..1 /\ DOMAIN b = 1..1 /\ b[1] = p[1] /\ a = [k \in 1..1 |-> a[k]] /\ b = [k \in 1..1 |-> b[k]]
          BY <4>1
        <5>2. \A k \in 1..1 : a[k] = b[k]
          BY <4>1, <5>1
        <5> HIDE DEF a, b
        <5>3. [k \in 1..1 |-> a[k]] = [k \in 1..1 |-> b[k]]
          BY <5>2
        <5>4. a = b
          BY <5>1, <5>3, Zenon
        <5> QED
          BY <5>4 DEF a, b
      <4> QED
        BY <3>1, <4>2
    <3>2. CASE i # 1
      <4>1. i - 1 \in 1..n /\ i - 1 + 1 = i
        BY <3>2
      <4>2. SubSeq(p, 1, i) = SubSeq(p, 1, i - 1) \o <<p[i]>>
        BY <4>1
      <4> QED
        BY <3>2, <4>1, <4>2
    <3> QED
      BY <3>1, <3>2
  <2>3. f = Rule(f)
    <3>1. f = [i \in 1..n |-> f[i]]
      OBVIOUS
    <3> HIDE DEF f, parts, n
    <3> QED
      BY <2>2, <3>1
  <2>4. g = Rule(g)
    <3> HIDE DEF Rule, f
    <3> QED
      BY <2>3
  <2> DEFINE Same == {k \in 0..n : k = 0 \/ g[k] = f[k]}
  <2>5. 0 \in Same
    BY <1>1
  <2>6. \A k \in 0..n : k \in Same /\ k < n => k + 1 \in Same
    <3> TAKE k \in 0..n
    <3> HAVE k \in Same /\ k < n
    <3>1. k + 1 \in 1..n /\ (k + 1) - 1 = k /\ k + 1 \in 0..n
      OBVIOUS
    <3>2. g[k + 1] = IF k + 1 = 1 THEN parts[k + 1] ELSE g[k] \o parts[k + 1]
      <4> HIDE DEF g, parts, n
      <4> QED
        BY <2>4, <3>1
    <3>3. f[k + 1] = IF k + 1 = 1 THEN parts[k + 1] ELSE f[k] \o parts[k + 1]
      <4> HIDE DEF f, parts, n
      <4> QED
        BY <2>2, <3>1
    <3>4. k = 0 \/ g[k] = f[k]
      <4> HIDE DEF g, f, parts
      <4> QED
        OBVIOUS
    <3> HIDE DEF g, f, parts, n
    <3> QED
      BY <3>1, <3>2, <3>3, <3>4
  <2>7. g[n] = f[n]
    <3>1. 0..n \subseteq Same
      <4> HIDE DEF Same, n
      <4> QED
        BY <1>1, <2>5, <2>6, UpTo
    <3> HIDE DEF g, f
    <3> QED
      BY <1>1, <1>4, <3>1
  <2>8. f[n] = p
    BY <1>1, <1>4
  <2> HIDE DEF g, f
  <2> QED
    BY <2>1, <2>7, <2>8
<1> QED
  BY <1>3, <1>4

-----------------------------------------------------------------------------
(* Catalogs *)

LEMMA CommandFields ==
  ASSUME NEW c \in CommandType, ValidCommand(c)
  PROVE  /\ c.path \in Seq(StableNames) /\ Len(c.path) \in 1..Limit.segments
         /\ c.options \in Seq(OptionType) /\ c.structured \in Seq(StructuredType)
         /\ OptionNames(c) \subseteq StableNames
<1>1. /\ c.path \in Seq(STRING) /\ c.options \in Seq(OptionType) \cup {Nil}
      /\ c.structured \in Seq(StructuredType) \cup {Nil}
  BY DEF CommandType, SliceOf
<1>2. /\ Len(c.path) \in 1..Limit.segments /\ \A i \in DOMAIN c.path : c.path[i] \in StableNames
      /\ c.options # Nil /\ c.structured # Nil
      /\ \A i \in DOMAIN c.options : c.options[i].name \in StableNames
  BY DEF ValidCommand, ValidOptions, ValidStructured, Bounded, StableName
<1>3. c.path \in Seq(StableNames)
  <2>1. c.path \in Seq(STRING) /\ \A i \in DOMAIN c.path : c.path[i] \in StableNames
    BY <1>1, <1>2
  <2> QED
    BY <2>1, ListOver
<1> QED
  BY <1>1, <1>2, <1>3 DEF OptionNames, ToSet

(* A valid catalog lists each path once.                                     *)
LEMMA CatalogCommands ==
  ASSUME NEW catalog, catalog.commands \in SliceOf(CommandType), ValidCatalog(catalog)
  PROVE  /\ catalog.commands \in Seq(CommandType)
         /\ \A c \in ToSet(catalog.commands) : c \in CommandType /\ ValidCommand(c)
         /\ \A i, j \in DOMAIN catalog.commands :
               catalog.commands[i].path = catalog.commands[j].path => i = j
<1> DEFINE C == catalog.commands
           n == Len(C)
           path == [i \in 1..n |-> C[i].path]
<1>1. /\ C # Nil
      /\ \A i \in DOMAIN C : ValidCommand(C[i])
      /\ \A i \in 1..Len(C) - 1 : PathBefore(C[i].path, C[i + 1].path)
  BY DEF ValidCatalog
<1>2. C \in Seq(CommandType)
  BY <1>1 DEF SliceOf
<1>3. n \in Nat /\ DOMAIN C = 1..n
  BY <1>2
<1>4. \A c \in ToSet(C) : c \in CommandType /\ ValidCommand(c)
  BY <1>1, <1>2, <1>3 DEF ToSet
<1>5. path \in [1..n -> Seq(StableNames)]
  <2>1. ASSUME NEW i \in 1..n PROVE C[i].path \in Seq(StableNames)
    <3>1. C[i] \in CommandType /\ ValidCommand(C[i])
      BY <1>1, <1>2, <1>3
    <3> QED
      BY <3>1, CommandFields
  <2> QED
    BY <2>1
<1>6. \A i \in 1..(n - 1) : PathBefore(path[i], path[i + 1])
  <2> TAKE i \in 1..(n - 1)
  <2>1. i \in 1..n /\ i + 1 \in 1..n
    BY <1>3
  <2>2. path[i] = C[i].path /\ path[i + 1] = C[i + 1].path
    BY <2>1
  <2>3. PathBefore(C[i].path, C[i + 1].path)
    BY <1>1
  <2> QED
    BY <2>2, <2>3, Zenon
<1>7. ASSUME NEW i \in 1..n, NEW j \in 1..n, C[i].path = C[j].path PROVE i = j
  <2>1. path[i] = path[j]
    BY <1>7
  <2> HIDE DEF path, n
  <2> QED
    BY <1>3, <1>5, <1>6, <2>1, DistinctPaths
<1> QED
  BY <1>2, <1>3, <1>4, <1>7

LEMMA CommandAtPath ==
  ASSUME NEW catalog, catalog.commands \in SliceOf(CommandType), ValidCatalog(catalog)
  PROVE  /\ \A c \in ToSet(catalog.commands) : CommandAt(catalog, c.path) = c /\ c # Nil
         /\ \A path : CommandAt(catalog, path) # Nil =>
               CommandAt(catalog, path) \in ToSet(catalog.commands) /\ CommandAt(catalog, path).path = path
<1> DEFINE C == catalog.commands
           at(path) == {i \in DOMAIN C : C[i].path = path}
<1>1. /\ \A c \in ToSet(C) : c \in CommandType
      /\ \A i, j \in DOMAIN C : C[i].path = C[j].path => i = j
  BY CatalogCommands
<1>2. \A path : CommandAt(catalog, path) = IF at(path) = {} THEN Nil ELSE C[CHOOSE i \in at(path) : TRUE]
  BY DEF CommandAt
<1>3. \A path : at(path) # {} => (CHOOSE i \in at(path) : TRUE) \in at(path)
  OBVIOUS
<1>4. ASSUME NEW c \in ToSet(C) PROVE CommandAt(catalog, c.path) = c /\ c # Nil
  <2>1. PICK i \in DOMAIN C : C[i] = c
    BY DEF ToSet
  <2>2. i \in at(c.path)
    BY <2>1
  <2>3. (CHOOSE k \in at(c.path) : TRUE) = i
    BY <1>1, <1>3, <2>1, <2>2
  <2>4. c # Nil
    BY <1>1, NilAssumption
  <2> QED
    BY <1>2, <2>1, <2>2, <2>3, <2>4
<1>5. ASSUME NEW path, CommandAt(catalog, path) # Nil
      PROVE  CommandAt(catalog, path) \in ToSet(C) /\ CommandAt(catalog, path).path = path
  <2>1. at(path) # {}
    BY <1>2, <1>5
  <2>2. PICK i \in at(path) : CommandAt(catalog, path) = C[i]
    BY <1>2, <1>3, <2>1
  <2> QED
    BY <2>2 DEF ToSet
<1> QED
  BY <1>4, <1>5

(* A key names at most one command of a valid catalog: the one whose path it *)
(* is, for the paths of commands are made of stable names.                   *)
LEMMA CommandNamedByKey ==
  ASSUME NEW catalog, catalog.commands \in SliceOf(CommandType), ValidCatalog(catalog)
  PROVE  /\ \A c \in ToSet(catalog.commands) : Joined(c.path) = c.path /\ c.path \in Seq(StableNames)
         /\ \A c \in ToSet(catalog.commands) : \A path :
               Joined(path) = c.path => CommandNamed(catalog, path) = c /\ c # Nil
         /\ \A path : CommandNamed(catalog, path) # Nil =>
               /\ CommandNamed(catalog, path) \in ToSet(catalog.commands)
               /\ CommandNamed(catalog, path).path = Joined(path)
<1> DEFINE C == catalog.commands
           at(path) == {i \in DOMAIN C : Joined(C[i].path) = Joined(path)}
<1>1. /\ \A c \in ToSet(C) : c \in CommandType /\ ValidCommand(c)
      /\ \A i, j \in DOMAIN C : C[i].path = C[j].path => i = j
  BY CatalogCommands
<1>2. ASSUME NEW c \in ToSet(C) PROVE Joined(c.path) = c.path /\ c.path \in Seq(StableNames)
  <2>1. c.path \in Seq(StableNames)
    BY <1>1, CommandFields
  <2> QED
    BY <2>1, JoinedStable
<1>3. \A i \in DOMAIN C : Joined(C[i].path) = C[i].path
  BY <1>2 DEF ToSet
<1>4. \A path : CommandNamed(catalog, path) = IF at(path) = {} THEN Nil ELSE C[CHOOSE i \in at(path) : TRUE]
  BY DEF CommandNamed
<1>5. \A path : at(path) # {} => (CHOOSE i \in at(path) : TRUE) \in at(path)
  OBVIOUS
<1>6. ASSUME NEW c \in ToSet(C), NEW path, Joined(path) = c.path
      PROVE  CommandNamed(catalog, path) = c /\ c # Nil
  <2>1. PICK i \in DOMAIN C : C[i] = c
    BY DEF ToSet
  <2>2. i \in at(path)
    BY <1>3, <1>6, <2>1
  <2>3. (CHOOSE k \in at(path) : TRUE) = i
    BY <1>1, <1>3, <1>5, <2>2
  <2>4. c # Nil
    BY <1>1, NilAssumption
  <2> QED
    BY <1>4, <2>1, <2>2, <2>3, <2>4
<1>7. ASSUME NEW path, CommandNamed(catalog, path) # Nil
      PROVE  /\ CommandNamed(catalog, path) \in ToSet(C)
             /\ CommandNamed(catalog, path).path = Joined(path)
  <2>1. at(path) # {}
    BY <1>4, <1>7
  <2>2. PICK i \in at(path) : CommandNamed(catalog, path) = C[i]
    BY <1>4, <1>5, <2>1
  <2> QED
    BY <1>3, <2>2 DEF ToSet
<1> QED
  BY <1>2, <1>6, <1>7

(* The command of an invocation is cataloged, and its path begins the        *)
(* arguments.                                                                *)
LEMMA MatchedCommand ==
  ASSUME NEW catalog, catalog.commands \in SliceOf(CommandType), ValidCatalog(catalog), NEW args,
         Matched(catalog, args) # Nil
  PROVE  /\ Matched(catalog, args) \in ToSet(catalog.commands)
         /\ IsPrefix(Words(Matched(catalog, args).path), args)
<1> DEFINE M == Matches(catalog, args)
           Longest(c) == \A d \in M : Len(d.path) <= Len(c.path)
           Spare == {Limit.segments - Len(c.path) : c \in M}
<1>1. M # {} /\ Matched(catalog, args) = CHOOSE c \in M : Longest(c)
  BY DEF Matched
<1>2. \A c \in M : Len(c.path) \in 1..Limit.segments
  <2> TAKE c \in M
  <2>1. c \in ToSet(catalog.commands)
    BY DEF Matches
  <2>2. c \in CommandType /\ ValidCommand(c)
    BY <2>1, CatalogCommands
  <2> QED
    BY <2>2, CommandFields
<1>3. Limit.segments \in Nat
  BY LimitAssumption
<1>4. Spare \in SUBSET Nat /\ Spare # {}
  <2> HIDE DEF M
  <2> QED
    BY <1>1, <1>2, <1>3
<1>5. PICK n \in Spare : \A m \in Spare : n <= m
  <2> HIDE DEF Spare
  <2> QED
    BY <1>4, LeastElement
<1>6. PICK c \in M : n = Limit.segments - Len(c.path)
  BY <1>5
<1>7. Longest(c)
  <2> SUFFICES ASSUME NEW d \in M PROVE Len(d.path) <= Len(c.path)
    OBVIOUS
  <2>1. n <= Limit.segments - Len(d.path)
    BY <1>5
  <2> HIDE DEF M
  <2> QED
    BY <1>2, <1>3, <1>6, <2>1
<1>8. Matched(catalog, args) \in M
  <2> HIDE DEF M, Longest
  <2> QED
    BY <1>1, <1>7, Zenon
<1> QED
  BY <1>8 DEF Matches

-----------------------------------------------------------------------------
(* Bundles *)

(* What a bundle file that loads holds.                                      *)
LEMMA LoadedBundle ==
  ASSUME LoadBundle.ok
  PROVE  /\ BundleDecodes(bundleFile.bundle) /\ ValidBundle(bundleFile.bundle)
         /\ LoadBundle.value = bundleFile.bundle
         /\ bundleFile.digest = BundleDigest(bundleFile.bundle) /\ bundleFile.digest # NoDigest
<1>1. LoadBundle = DecodedBundle(BundleDigest(bundleFile.bundle))
  BY DEF LoadBundle, Failure
<1>2. /\ BundleDecodes(bundleFile.bundle) /\ BundleDigest(bundleFile.bundle) # NoDigest
      /\ bundleFile.digest = BundleDigest(bundleFile.bundle)
      /\ LoadBundle = Success(bundleFile.bundle)
  BY <1>1 DEF DecodedBundle, Failure
<1>3. ValidBundle(bundleFile.bundle)
  BY <1>2 DEF BundleDigest
<1> QED
  BY <1>2, <1>3 DEF Success

LEMMA DigestedCatalog ==
  ASSUME NEW catalog, CatalogDigest(catalog) # NoDigest
  PROVE  ValidCatalog(catalog)
  BY DEF CatalogDigest

LEMMA DigestedSpecification ==
  ASSUME NEW s, NEW catalog, SpecificationDigest(s, catalog) # NoDigest
  PROVE  ValidSpecification(s, catalog)
  BY DEF SpecificationDigest

(* A valid bundle of the right shape is what compiling its parts gives.      *)
LEMMA ValidIsCompiled ==
  ASSUME NEW b, BundleDecodes(b), ValidBundle(b)
  PROVE  IsCompiled(b)
<1>1. /\ b.schema = 4
      /\ CatalogDigest(b.catalog) = b.catalogDigest /\ b.catalogDigest # NoDigest
      /\ SpecificationDigest(b.specification, b.catalog) = b.specificationDigest
      /\ b.specificationDigest # NoDigest
      /\ ValidBindings(b.specification, b.processors)
      /\ DerivedSurface(b.catalog, b.specification) = b.surface
  BY DEF ValidBundle
<1>2. ValidSpecification(b.specification, b.catalog)
  BY <1>1, DigestedSpecification
<1>3. Compile(b.catalog, b.specification, b.processors) =
        Success([schema |-> 4, catalogDigest |-> b.catalogDigest, catalog |-> b.catalog,
                 specificationDigest |-> b.specificationDigest, specification |-> b.specification,
                 processors |-> b.processors, surface |-> b.surface])
  BY <1>1, <1>2, Zenon DEF Compile
<1>4. b = [schema |-> b.schema, catalogDigest |-> b.catalogDigest, catalog |-> b.catalog,
           specificationDigest |-> b.specificationDigest, specification |-> b.specification,
           processors |-> b.processors, surface |-> b.surface]
  <2>1. b = [field \in BundleFields |-> b[field]]
    BY DEF BundleDecodes
  <2> QED
    BY <2>1 DEF BundleFields
<1> QED
  BY <1>1, <1>3, <1>4 DEF IsCompiled

(* No edit of a stored bundle survives loading unless compiling gives it.    *)
THEOREM BundlesAreCompiled == Spec => []StoredBundleIsCompiled
<1>1. StoredBundleIsCompiled
  BY LoadedBundle, ValidIsCompiled DEF StoredBundleIsCompiled
<1> QED
  BY <1>1, PTL

LEMMA EmptyIsList == \A T : <<>> \in Seq(T)
  OBVIOUS

LEMMA EmptyList ==
  /\ <<>> # Nil /\ Len(<<>>) = 0 /\ DOMAIN <<>> = {} /\ ToSet(<<>>) = {} /\ SortedUnique(<<>>)
  /\ \A bound \in Nat : Bounded(<<>>, bound)
<1>1. <<>> # Nil
  <2>1. <<>> \in Seq(STRING)
    BY EmptyIsList
  <2>2. Nil \notin Seq(STRING)
    BY NilAssumption
  <2> QED
    BY <2>1, <2>2
<1>2. Len(<<>>) = 0 /\ DOMAIN <<>> = {}
  OBVIOUS
<1> QED
  BY <1>1, <1>2 DEF ToSet, SortedUnique, Bounded

(* The surface of a command the specification does not name.                 *)
LEMMA InheritedEntry ==
  ASSUME NEW c, ValidCommand(c)
  PROVE  /\ InheritAll \in OptionSurfaceType /\ Identity \in WrapperType
         /\ ValidOptionSurface(InheritAll, c) /\ ValidWrapper(Identity, InheritAll, c)
         /\ ValidText("inherited")
<1>1. Limit.options \in Nat /\ Limit.arguments \in Nat
  BY LimitAssumption
<1>2. InheritAll \in OptionSurfaceType
  <2>1. <<>> \in SliceOf(STRING)
    BY EmptyIsList DEF SliceOf
  <2> QED
    BY <2>1, StringAssumption DEF InheritAll, OptionSurfaceType
<1>3. Identity \in WrapperType
  <2>1. /\ <<>> \in SliceOf(ActionType) /\ <<>> \in SliceOf(DefaultType)
        /\ <<>> \in SliceOf(ArgumentType) /\ Nil \in PointerTo(OutputType)
    BY EmptyIsList DEF SliceOf, PointerTo
  <2> QED
    BY <2>1, StringAssumption DEF Identity, WrapperType
<1>4. ValidOptionSurface(InheritAll, c)
  BY <1>1, EmptyList DEF ValidOptionSurface, InheritAll, SurfaceDefaults
<1>5. ValidOptionDefaults(Identity.defaults, Identity.append, InheritAll, c)
  <2>1. ValidOptions(c.options)
    BY DEF ValidCommand
  <2>2. Identity.defaults = <<>>
    BY DEF Identity
  <2> QED
    BY <1>4, <2>1, <2>2, EmptyList DEF ValidOptionDefaults, Distinct
<1>6. ValidWrapper(Identity, InheritAll, c)
  <2>1. /\ Identity.kind = "identity" /\ Identity.before = <<>> /\ Identity.after = <<>>
        /\ Identity.defaults = <<>> /\ Identity.append = <<>> /\ Identity.output = Nil
    BY DEF Identity
  <2> QED
    BY <1>1, <1>5, <2>1, EmptyList DEF ValidWrapper, ChangesNothing
<1> QED
  BY <1>2, <1>4, <1>3, <1>6 DEF ValidText, UnusableTexts, EmptyText

(* A valid specification names each command once, by its key.                *)
LEMMA SpecificationEntries ==
  ASSUME NEW s, NEW catalog, catalog.commands \in SliceOf(CommandType),
         s.commands \in SliceOf(EntryType), ValidSpecification(s, catalog)
  PROVE  /\ ValidCatalog(catalog) /\ s.commands \in Seq(EntryType)
         /\ \A e \in ToSet(s.commands) : /\ e \in EntryType /\ e # Nil /\ ValidEntry(e, catalog)
                                         /\ EntryOf(s, e.command) = e /\ ExplicitEntry(s, e.command) = e
                                         /\ Joined(e.command) \in Seq(StableNames)
         /\ \A path : EntryOf(s, path) # Nil =>
               EntryOf(s, path) \in ToSet(s.commands) /\ Joined(EntryOf(s, path).command) = Joined(path)
         /\ \A path : ExplicitEntry(s, path) # Nil => EntryOf(s, path) = ExplicitEntry(s, path)
<1> DEFINE E == s.commands
           n == Len(E)
           path == [i \in 1..n |-> Joined(E[i].command)]
           Of(q) == {i \in DOMAIN E : Joined(E[i].command) = Joined(q)}
           Spelled(q) == {i \in DOMAIN E : E[i].command = q}
<1>1. /\ CatalogDigest(catalog) # NoDigest /\ E # Nil
      /\ \A i \in DOMAIN E : ValidEntry(E[i], catalog)
      /\ \A i \in 1..Len(E) - 1 : PathBefore(Joined(E[i].command), Joined(E[i + 1].command))
  BY DEF ValidSpecification, Bounded
<1>2. ValidCatalog(catalog) /\ E \in Seq(EntryType)
  BY <1>1, DigestedCatalog DEF SliceOf
<1>3. n \in Nat /\ DOMAIN E = 1..n
  BY <1>2
<1>4. \A e \in ToSet(E) : e \in EntryType /\ ValidEntry(e, catalog)
  BY <1>1, <1>2, <1>3 DEF ToSet
<1>5. path \in [1..n -> Seq(StableNames)]
  <2>1. ASSUME NEW i \in 1..n PROVE Joined(E[i].command) \in Seq(StableNames)
    <3>1. Verified(catalog, E[i].command)
      BY <1>1, <1>3 DEF ValidEntry
    <3>2. PICK c \in ToSet(catalog.commands) : Joined(c.path) = Joined(E[i].command)
      BY <3>1 DEF Verified
    <3> QED
      BY <1>2, <3>2, CommandNamedByKey
  <2> QED
    BY <2>1
<1>6. \A i \in 1..(n - 1) : PathBefore(path[i], path[i + 1])
  <2> TAKE i \in 1..(n - 1)
  <2>1. i \in 1..n /\ i + 1 \in 1..n
    BY <1>3
  <2>2. path[i] = Joined(E[i].command) /\ path[i + 1] = Joined(E[i + 1].command)
    BY <2>1
  <2>3. PathBefore(Joined(E[i].command), Joined(E[i + 1].command))
    BY <1>1
  <2> QED
    BY <2>2, <2>3, Zenon
<1>7. ASSUME NEW i \in 1..n, NEW j \in 1..n, Joined(E[i].command) = Joined(E[j].command) PROVE i = j
  <2>1. path[i] = path[j]
    BY <1>7
  <2> HIDE DEF path, n
  <2> QED
    BY <1>3, <1>5, <1>6, <2>1, DistinctPaths
<1>8. \A q : /\ EntryOf(s, q) = IF Of(q) = {} THEN Nil
                                ELSE E[CHOOSE i \in Of(q) : \A j \in Of(q) : j <= i]
             /\ ExplicitEntry(s, q) = IF Spelled(q) = {} THEN Nil
                                      ELSE E[CHOOSE i \in Spelled(q) : \A j \in Spelled(q) : i <= j]
  BY DEF EntryOf, ExplicitEntry
<1>9. ASSUME NEW q, NEW i \in Of(q) PROVE EntryOf(s, q) = E[i]
  <2>1. \A j \in Of(q) : j = i
    BY <1>3, <1>7
  <2>2. i \in Nat /\ \A j \in Of(q) : j <= i
    BY <1>3, <2>1
  <2> DEFINE Newest(k) == \A j \in Of(q) : j <= k
  <2>3. (CHOOSE k \in Of(q) : Newest(k)) \in Of(q)
    <3>1. Newest(i)
      BY <2>2
    <3> HIDE DEF Newest, Of
    <3> QED
      BY <3>1
  <2>4. (CHOOSE k \in Of(q) : Newest(k)) = i
    <3> HIDE DEF Newest, Of
    <3> QED
      BY <2>1, <2>3
  <2>5. Of(q) # {}
    OBVIOUS
  <2> QED
    BY <1>8, <2>4, <2>5
<1>10. ASSUME NEW q, NEW i \in Spelled(q) PROVE ExplicitEntry(s, q) = E[i] /\ EntryOf(s, q) = E[i]
  <2>1. \A j \in Spelled(q) : j = i
    BY <1>3, <1>7
  <2>2. i \in Nat /\ \A j \in Spelled(q) : i <= j
    BY <1>3, <2>1
  <2> DEFINE First(k) == \A j \in Spelled(q) : k <= j
  <2>3. (CHOOSE k \in Spelled(q) : First(k)) \in Spelled(q)
    <3>1. First(i)
      BY <2>2
    <3> HIDE DEF First, Spelled
    <3> QED
      BY <3>1
  <2>4. (CHOOSE k \in Spelled(q) : First(k)) = i
    <3> HIDE DEF First, Spelled
    <3> QED
      BY <2>1, <2>3
  <2>5. Spelled(q) # {} /\ i \in Of(q)
    OBVIOUS
  <2>6. ExplicitEntry(s, q) = E[i]
    BY <1>8, <2>4, <2>5
  <2> QED
    BY <1>9, <2>5, <2>6
<1>11. ASSUME NEW e \in ToSet(E)
       PROVE  /\ EntryOf(s, e.command) = e /\ ExplicitEntry(s, e.command) = e /\ e # Nil
              /\ Joined(e.command) \in Seq(StableNames)
  <2>1. PICK i \in DOMAIN E : E[i] = e
    BY DEF ToSet
  <2>2. i \in Spelled(e.command)
    BY <2>1
  <2>3. e # Nil
    BY <1>4, NilEntryAssumption
  <2>4. Joined(e.command) \in Seq(StableNames)
    BY <1>3, <1>5, <2>1
  <2> HIDE DEF Spelled
  <2> QED
    BY <1>10, <2>1, <2>2, <2>3, <2>4
<1>12. ASSUME NEW q, EntryOf(s, q) # Nil
       PROVE  EntryOf(s, q) \in ToSet(E) /\ Joined(EntryOf(s, q).command) = Joined(q)
  <2>1. PICK i \in Of(q) : TRUE
    BY <1>8, <1>12
  <2>2. EntryOf(s, q) = E[i]
    BY <1>9
  <2> QED
    BY <2>2 DEF ToSet
<1>13. ASSUME NEW q, ExplicitEntry(s, q) # Nil PROVE EntryOf(s, q) = ExplicitEntry(s, q)
  <2>1. PICK i \in Spelled(q) : TRUE
    BY <1>8, <1>13
  <2> HIDE DEF Spelled
  <2> QED
    BY <1>10
<1> QED
  BY <1>2, <1>4, <1>11, <1>12, <1>13

LEMMA BundleParts ==
  ASSUME NEW b, BundleDecodes(b), ValidBundle(b)
  PROVE  /\ b.catalog.commands \in SliceOf(CommandType) /\ ValidCatalog(b.catalog)
         /\ b.specification.commands \in SliceOf(EntryType)
         /\ ValidSpecification(b.specification, b.catalog)
         /\ b.surface = DerivedSurface(b.catalog, b.specification)
<1>1. /\ CatalogDigest(b.catalog) # NoDigest
      /\ SpecificationDigest(b.specification, b.catalog) # NoDigest
      /\ b.surface = DerivedSurface(b.catalog, b.specification)
  BY DEF ValidBundle
<1>2. b.catalog.commands \in SliceOf(CommandType) /\ b.specification.commands \in SliceOf(EntryType)
  BY DEF BundleDecodes
<1> QED
  BY <1>1, <1>2, DigestedCatalog, DigestedSpecification

(* An entry of the surface, for the verified command c, as the specification *)
(* includes it or inherits it.                                               *)
Surfaced(b, e, c) ==
  /\ c \in ToSet(b.catalog.commands) /\ c.provenance = "verified_builtin"
  /\ e.command \in Seq(STRING) /\ Joined(e.command) = c.path
  /\ e.options \in OptionSurfaceType /\ e.wrapper \in WrapperType /\ ValidText(e.reason)
  /\ ValidOptionSurface(e.options, c) /\ ValidWrapper(e.wrapper, e.options, c)
  /\ LET x == ExplicitEntry(b.specification, e.command)
     IN \/ x = Nil /\ e.wrapper = Identity
        \/ /\ x # Nil /\ x \in ToSet(b.specification.commands) /\ x \in EntryType
           /\ x.presence = "include" /\ x.command = e.command /\ x.reason = e.reason
           /\ x.options = e.options /\ x.wrapper = e.wrapper

LEMMA SurfaceEntries ==
  ASSUME NEW b, BundleDecodes(b), ValidBundle(b), NEW e \in ToSet(b.surface)
  PROVE  \E c : Surfaced(b, e, c)
<1> DEFINE C == b.catalog.commands
           s == b.specification
           Included(c) == /\ c.provenance = "verified_builtin"
                          /\ IF EntryOf(s, c.path) = Nil THEN s.default = "inherit"
                             ELSE EntryOf(s, c.path).presence = "include"
           Entry(c) ==
             IF EntryOf(s, c.path) = Nil
             THEN [command |-> c.path, reason |-> "inherited", options |-> InheritAll, wrapper |-> Identity]
             ELSE [command |-> EntryOf(s, c.path).command, reason |-> EntryOf(s, c.path).reason,
                   options |-> EntryOf(s, c.path).options, wrapper |-> EntryOf(s, c.path).wrapper]
           kept == Filter(C, {c \in ToSet(C) : Included(c)})
<1>1. /\ C \in SliceOf(CommandType) /\ ValidCatalog(b.catalog)
      /\ s.commands \in SliceOf(EntryType) /\ ValidSpecification(s, b.catalog)
      /\ b.surface = DerivedSurface(b.catalog, s)
  BY BundleParts
<1>2. b.surface = [i \in DOMAIN kept |-> Entry(kept[i])]
  BY <1>1 DEF DerivedSurface
<1>3. C \in Seq(CommandType) /\ \A c \in ToSet(C) : c \in CommandType /\ ValidCommand(c)
  BY <1>1, CatalogCommands
<1>4. ToSet(kept) = {c \in ToSet(C) : Included(c)}
  <2>1. ToSet(kept) = {x \in ToSet(C) : x \in {c \in ToSet(C) : Included(c)}}
    <3> HIDE DEF C, Included
    <3> QED
      BY <1>3, FilterElements
  <2> HIDE DEF kept, Included
  <2> QED
    BY <2>1
<1>5. PICK c \in ToSet(C) : Included(c) /\ e = Entry(c)
  <2>1. PICK i \in DOMAIN kept : e = Entry(kept[i])
    <3> HIDE DEF kept, Entry
    <3> QED
      BY <1>2 DEF ToSet
  <2>2. kept[i] \in ToSet(kept)
    <3> HIDE DEF kept
    <3> QED
      BY DEF ToSet
  <2> HIDE DEF kept, Entry, Included
  <2> QED
    BY <1>4, <2>1, <2>2
<1>6. /\ c \in CommandType /\ ValidCommand(c) /\ Joined(c.path) = c.path
      /\ c.path \in Seq(STRING)
  BY <1>1, <1>3, CommandNamedByKey DEF CommandType
<1> DEFINE x == EntryOf(s, c.path)
<1>7. CASE x = Nil
  <2>1. /\ e.command = c.path /\ e.reason = "inherited" /\ e.options = InheritAll
        /\ e.wrapper = Identity
    BY <1>5, <1>7
  <2>2. /\ InheritAll \in OptionSurfaceType /\ Identity \in WrapperType
        /\ ValidOptionSurface(InheritAll, c) /\ ValidWrapper(Identity, InheritAll, c)
        /\ ValidText("inherited")
    BY <1>6, InheritedEntry
  <2>3. c.provenance = "verified_builtin" /\ c \in ToSet(b.catalog.commands)
    BY <1>5
  <2>4. ExplicitEntry(s, e.command) = Nil
    BY <1>1, <1>7, <2>1, SpecificationEntries
  <2>5. Joined(e.command) = c.path /\ e.command \in Seq(STRING)
    BY <1>6, <2>1
  <2> HIDE DEF Entry, Included, x
  <2> QED
    BY <2>1, <2>2, <2>3, <2>4, <2>5, Zenon DEF Surfaced
<1>8. CASE x # Nil
  <2>1. /\ e.command = x.command /\ e.reason = x.reason /\ e.options = x.options
        /\ e.wrapper = x.wrapper /\ x.presence = "include" /\ c.provenance = "verified_builtin"
    <3> HIDE DEF x
    <3> QED
      BY <1>5, <1>8 DEF x
  <2>2. x \in ToSet(s.commands) /\ Joined(x.command) = c.path
    BY <1>1, <1>6, <1>8, SpecificationEntries
  <2>3. x \in EntryType /\ ValidEntry(x, b.catalog)
    BY <1>1, <2>2, SpecificationEntries
  <2>4. CommandNamed(b.catalog, x.command) = c
    BY <1>1, <1>5, <2>2, CommandNamedByKey
  <2>5. /\ x.options # Nil /\ x.wrapper # Nil /\ ValidText(x.reason)
        /\ ValidOptionSurface(x.options, c) /\ ValidWrapper(x.wrapper, x.options, c)
    <3> HIDE DEF x
    <3> QED
      BY <2>1, <2>3, <2>4 DEF ValidEntry
  <2>6. x.options \in OptionSurfaceType /\ x.wrapper \in WrapperType
    <3> HIDE DEF x
    <3> QED
      BY <2>3, <2>5 DEF EntryType, PointerTo
  <2>7. ExplicitEntry(s, e.command) = x /\ x # Nil
    BY <1>1, <1>8, <2>1, <2>2, SpecificationEntries
  <2>8. /\ c \in ToSet(b.catalog.commands) /\ c.provenance = "verified_builtin"
        /\ Joined(e.command) = c.path /\ e.command \in Seq(STRING) /\ x.command = e.command
        /\ e.options \in OptionSurfaceType /\ e.wrapper \in WrapperType /\ ValidText(e.reason)
        /\ ValidOptionSurface(e.options, c) /\ ValidWrapper(e.wrapper, e.options, c)
    BY <1>5, <2>1, <2>2, <2>3, <2>5, <2>6 DEF EntryType
  <2> HIDE DEF x, Entry, Included
  <2> QED
    BY <1>8, <2>1, <2>2, <2>3, <2>7, <2>8, Zenon DEF Surfaced
<1> QED
  BY <1>7, <1>8

-----------------------------------------------------------------------------
(* Reading options                                                         *)

OptionFaults == {NoError, "invalid_invocation", "option_not_in_surface"}

(* OptionErrors is defined, place by place from the end.                     *)
LEMMA OptionErrorsRule ==
  ASSUME NEW command, NEW surface, NEW args \in Seq(ArgumentType)
  PROVE  LET f == OptionErrors(command, surface, args)
         IN  \A i \in 1..(Len(args) + 2) :
                /\ f[i] \in OptionFaults
                /\ f[i] =
                     IF i > Len(args) THEN NoError
                     ELSE LET a == args[i] IN
                          IF a = Terminator THEN NoError
                          ELSE IF ~Dashed(a) THEN f[i + 1]
                          ELSE IF a.kind = "short" \/ a.name \notin OptionNames(command)
                               THEN "invalid_invocation"
                          ELSE IF a.name \notin Allowed(surface, command) THEN "option_not_in_surface"
                          ELSE IF TakesValue(command, a.name) = (a.value # Nil) THEN f[i + 1]
                          ELSE IF a.value # Nil \/ i = Len(args) \/ (i < Len(args) /\ Dashed(args[i + 1]))
                               THEN "invalid_invocation"
                          ELSE f[i + 2]
<1> DEFINE n == Len(args)
           V == OptionFaults
           Body(i, next, after) ==
             LET a == args[i] IN
             IF a = Terminator THEN NoError
             ELSE IF ~Dashed(a) THEN next
             ELSE IF a.kind = "short" \/ a.name \notin OptionNames(command) THEN "invalid_invocation"
             ELSE IF a.name \notin Allowed(surface, command) THEN "option_not_in_surface"
             ELSE IF TakesValue(command, a.name) = (a.value # Nil) THEN next
             ELSE IF a.value # Nil \/ i = Len(args) \/ (i < Len(args) /\ Dashed(args[i + 1]))
                  THEN "invalid_invocation"
             ELSE after
           step == [i \in 1..n |-> [v \in V \X V |-> Body(i, v[1], v[2])]]
           Rule(f) == [i \in 1..(n + 2) |-> IF i > n THEN NoError ELSE Body(i, f[i + 1], f[i + 2])]
<1>1. n \in Nat /\ NoError \in V
  BY DEF OptionFaults
<1>2. \A i \in 1..n, next \in V, after \in V : Body(i, next, after) \in V
  BY DEF OptionFaults
<1>3. step \in [1..n -> [V \X V -> V]]
  <2> HIDE DEF V, Body, n
  <2> QED
    BY <1>2
<1>4. PICK f : ComputesBack(f, n, V, NoError, step)
  <2> HIDE DEF V, step, n
  <2> QED
    BY <1>1, <1>3, BackwardRecursion, Zenon
<1>5. \A i \in 1..n : f[i] = Body(i, f[i + 1], f[i + 2])
  <2> TAKE i \in 1..n
  <2>1. i + 1 \in 1..(n + 2) /\ i + 2 \in 1..(n + 2)
    OBVIOUS
  <2>2. f[i] = step[i][<<f[i + 1], f[i + 2]>>] /\ f[i + 1] \in V /\ f[i + 2] \in V
    <3> HIDE DEF V, step
    <3> QED
      BY <1>4, <2>1 DEF ComputesBack
  <2> HIDE DEF V, Body, n
  <2> QED
    BY <2>2
<1>6. f = Rule(f)
  <2> HIDE DEF V, Body, n
  <2>1. \A i \in 1..(n + 2) : f[i] = IF i > n THEN NoError ELSE Body(i, f[i + 1], f[i + 2])
    <3> TAKE i \in 1..(n + 2)
    <3>1. i \in 1..n \/ i = n + 1 \/ i = n + 2
      BY <1>1
    <3> QED
      BY <1>1, <1>4, <1>5, <3>1 DEF ComputesBack
  <2>2. f = [i \in 1..(n + 2) |-> f[i]]
    BY <1>4 DEF ComputesBack
  <2> QED
    BY <2>1, <2>2
<1> DEFINE g == CHOOSE h : h = Rule(h)
<1>7. g = Rule(g)
  <2> HIDE DEF Rule
  <2> QED
    BY <1>6
<1>8. OptionErrors(command, surface, args) = g
  BY DEF OptionErrors
<1>9. \A i \in 1..(n + 2) : g[i] = IF i > n THEN NoError ELSE Body(i, g[i + 1], g[i + 2])
  <2> HIDE DEF g, Body, n
  <2> QED
    BY <1>7
<1>10. 1..(n + 2) \subseteq {i \in 1..(n + 2) : g[i] \in V}
  <2> HIDE DEF g, Body, V
  <2> DEFINE Good == {i \in 1..(n + 2) : g[i] \in V}
  <2>1. n + 1 \in Good /\ n + 2 \in Good
    BY <1>1, <1>9
  <2>2. \A i \in 1..n : i + 1 \in Good /\ i + 2 \in Good => i \in Good
    BY <1>1, <1>2, <1>9
  <2> HIDE DEF Good, n
  <2>3. 1..(n + 2) \subseteq Good
    BY <1>1, <2>1, <2>2, DownFrom
  <2> QED
    BY <2>3 DEF Good
<1> HIDE DEF g
<1> QED
  BY <1>8, <1>9, <1>10

(* What is known of a place from which on there is no error.                *)
LEMMA OptionRead ==
  ASSUME NEW command, NEW surface, NEW args \in Seq(ArgumentType), NEW i \in 1..Len(args),
         OptionErrors(command, surface, args)[i] = NoError
  PROVE  LET f == OptionErrors(command, surface, args)
             a == args[i]
         IN  \/ a = Terminator
             \/ a # Terminator /\ a.kind = "word" /\ f[i + 1] = NoError
             \/ /\ a # Terminator /\ a.kind = "long"
                /\ a.name \in Allowed(surface, command) /\ a.name \in OptionNames(command)
                /\ TakesValue(command, a.name) <=> a.value # Nil
                /\ f[i + 1] = NoError
             \/ /\ a # Terminator /\ a.kind = "long" /\ a.value = Nil
                /\ a.name \in Allowed(surface, command) /\ a.name \in OptionNames(command)
                /\ TakesValue(command, a.name)
                /\ i < Len(args) /\ args[i + 1].kind = "word" /\ f[i + 2] = NoError
<1> DEFINE f == OptionErrors(command, surface, args)
           a == args[i]
<1>1. f[i] = IF a = Terminator THEN NoError
             ELSE IF ~Dashed(a) THEN f[i + 1]
             ELSE IF a.kind = "short" \/ a.name \notin OptionNames(command) THEN "invalid_invocation"
             ELSE IF a.name \notin Allowed(surface, command) THEN "option_not_in_surface"
             ELSE IF TakesValue(command, a.name) = (a.value # Nil) THEN f[i + 1]
             ELSE IF a.value # Nil \/ i = Len(args) \/ (i < Len(args) /\ Dashed(args[i + 1]))
                  THEN "invalid_invocation"
             ELSE f[i + 2]
  <2>1. i \in 1..(Len(args) + 2) /\ ~(i > Len(args))
    OBVIOUS
  <2> QED
    BY <2>1, OptionErrorsRule
<1>2. a # Terminator => a.kind \in {"word", "short", "long"}
  <2>1. a \in ArgumentType
    OBVIOUS
  <2>2. ASSUME a \in [kind : {"terminator"}, name : {"--"}, value : {Nil}] PROVE a = Terminator
    BY <2>2 DEF Terminator
  <2> HIDE DEF a
  <2> QED
    BY <2>1, <2>2 DEF ArgumentType
<1>3. TakesValue(command, a.name) \in BOOLEAN
  BY DEF TakesValue
<1>4. i < Len(args) \/ i = Len(args)
  OBVIOUS
<1>5. f[i] = NoError /\ NoError # "invalid_invocation" /\ NoError # "option_not_in_surface"
  BY DEF NoError
<1> HIDE DEF f, a
<1>6. SUFFICES ASSUME a # Terminator, a.kind # "word"
               PROVE  \/ /\ a.kind = "long"
                         /\ a.name \in Allowed(surface, command) /\ a.name \in OptionNames(command)
                         /\ TakesValue(command, a.name) <=> a.value # Nil
                         /\ f[i + 1] = NoError
                      \/ /\ a.kind = "long" /\ a.value = Nil
                         /\ a.name \in Allowed(surface, command) /\ a.name \in OptionNames(command)
                         /\ TakesValue(command, a.name)
                         /\ i < Len(args) /\ args[i + 1].kind = "word" /\ f[i + 2] = NoError
  BY <1>1, <1>5 DEF Dashed, f, a
<1>7. Dashed(a) /\ a.kind # "short" /\ a.name \in OptionNames(command) /\ a.name \in Allowed(surface, command)
  BY <1>1, <1>5, <1>6 DEF Dashed
<1>8. f[i] = IF TakesValue(command, a.name) = (a.value # Nil) THEN f[i + 1]
             ELSE IF a.value # Nil \/ i = Len(args) \/ (i < Len(args) /\ Dashed(args[i + 1]))
                  THEN "invalid_invocation"
             ELSE f[i + 2]
  BY <1>1, <1>6, <1>7
<1> QED
  BY <1>2, <1>3, <1>4, <1>5, <1>6, <1>7, <1>8 DEF Dashed

(* ValueMissing is defined in the same way.                                  *)
LEMMA ValueMissingRule ==
  ASSUME NEW configured, NEW args \in Seq(ArgumentType)
  PROVE  LET f == ValueMissing(configured, args)
         IN  \A i \in 1..(Len(args) + 2) :
                /\ f[i] \in BOOLEAN
                /\ f[i] =
                     IF i > Len(args) THEN FALSE
                     ELSE IF args[i] = Terminator THEN FALSE
                     ELSE IF args[i].name \notin configured \/ args[i].value # Nil \/ args[i].kind = "word"
                          THEN f[i + 1]
                     ELSE IF i = Len(args) THEN TRUE
                     ELSE IF Dashed(args[i + 1]) THEN TRUE
                     ELSE f[i + 2]
<1> DEFINE n == Len(args)
           V == BOOLEAN
           Body(i, next, after) ==
             IF args[i] = Terminator THEN FALSE
             ELSE IF args[i].name \notin configured \/ args[i].value # Nil \/ args[i].kind = "word" THEN next
             ELSE IF i = Len(args) THEN TRUE
             ELSE IF Dashed(args[i + 1]) THEN TRUE
             ELSE after
           step == [i \in 1..n |-> [v \in V \X V |-> Body(i, v[1], v[2])]]
           Rule(f) == [i \in 1..(n + 2) |-> IF i > n THEN FALSE ELSE Body(i, f[i + 1], f[i + 2])]
<1>1. n \in Nat /\ FALSE \in V
  OBVIOUS
<1>2. \A i \in 1..n, next \in V, after \in V : Body(i, next, after) \in V
  OBVIOUS
<1>3. step \in [1..n -> [V \X V -> V]]
  <2> HIDE DEF V, Body, n
  <2> QED
    BY <1>2
<1>4. PICK f : ComputesBack(f, n, V, FALSE, step)
  <2> HIDE DEF V, step, n
  <2> QED
    BY <1>1, <1>3, BackwardRecursion, Zenon
<1>5. \A i \in 1..n : f[i] = Body(i, f[i + 1], f[i + 2])
  <2> TAKE i \in 1..n
  <2>1. i + 1 \in 1..(n + 2) /\ i + 2 \in 1..(n + 2)
    OBVIOUS
  <2>2. f[i] = step[i][<<f[i + 1], f[i + 2]>>] /\ f[i + 1] \in V /\ f[i + 2] \in V
    <3> HIDE DEF V, step
    <3> QED
      BY <1>4, <2>1 DEF ComputesBack
  <2> HIDE DEF V, Body, n
  <2> QED
    BY <2>2
<1>6. f = Rule(f)
  <2> HIDE DEF V, Body, n
  <2>1. \A i \in 1..(n + 2) : f[i] = IF i > n THEN FALSE ELSE Body(i, f[i + 1], f[i + 2])
    <3> TAKE i \in 1..(n + 2)
    <3>1. i \in 1..n \/ i = n + 1 \/ i = n + 2
      BY <1>1
    <3>2. f[n + 1] = FALSE /\ f[n + 2] = FALSE
      BY <1>4 DEF ComputesBack
    <3>3. CASE i \in 1..n
      <4>1. ~(i > n)
        BY <1>1, <3>3
      <4> QED
        BY <1>5, <3>3, <4>1
    <3>4. CASE i = n + 1 \/ i = n + 2
      <4>1. i > n
        BY <1>1, <3>4
      <4> QED
        BY <3>2, <3>4, <4>1
    <3> QED
      BY <3>1, <3>3, <3>4
  <2>2. f = [i \in 1..(n + 2) |-> f[i]]
    BY <1>4 DEF ComputesBack
  <2> QED
    BY <2>1, <2>2
<1> DEFINE g == CHOOSE h : h = Rule(h)
<1>7. g = Rule(g)
  <2> HIDE DEF Rule
  <2> QED
    BY <1>6
<1>8. ValueMissing(configured, args) = g
  BY DEF ValueMissing
<1>9. \A i \in 1..(n + 2) : g[i] = IF i > n THEN FALSE ELSE Body(i, g[i + 1], g[i + 2])
  <2> HIDE DEF g, Body, n
  <2> QED
    BY <1>7
<1>10. 1..(n + 2) \subseteq {i \in 1..(n + 2) : g[i] \in V}
  <2> HIDE DEF g, Body, V
  <2> DEFINE Good == {i \in 1..(n + 2) : g[i] \in V}
  <2>1. n + 1 \in Good /\ n + 2 \in Good
    <3>1. \A i \in {n + 1, n + 2} : i \in 1..(n + 2) /\ i > n
      BY <1>1
    <3>2. \A i \in {n + 1, n + 2} : g[i] = FALSE
      BY <1>9, <3>1
    <3> QED
      BY <1>1, <3>1, <3>2
  <2>2. ASSUME NEW i \in 1..n, i + 1 \in Good, i + 2 \in Good PROVE i \in Good
    <3>1. i \in 1..(n + 2) /\ ~(i > n)
      BY <1>1
    <3>2. g[i] = Body(i, g[i + 1], g[i + 2])
      BY <1>9, <3>1
    <3>3. g[i + 1] \in V /\ g[i + 2] \in V
      BY <2>2
    <3>4. Body(i, g[i + 1], g[i + 2]) \in V
      BY <1>2, <3>3
    <3> QED
      BY <3>1, <3>2, <3>4
  <2> HIDE DEF Good, n
  <2>3. 1..(n + 2) \subseteq Good
    BY <1>1, <2>1, <2>2, DownFrom
  <2> QED
    BY <2>3 DEF Good
<1> HIDE DEF g
<1> QED
  BY <1>8, <1>9, <1>10

(* A tail whose options are read without error gives each configured option *)
(* that takes a value its value.                                            *)
LEMMA ValuesAreGiven ==
  ASSUME NEW command, NEW surface, NEW args \in Seq(ArgumentType), NEW configured,
         \A name \in configured : TakesValue(command, name),
         OptionError(command, surface, args) = NoError
  PROVE  ~ValueMissing(configured, args)[1]
<1> DEFINE n == Len(args)
           f == OptionErrors(command, surface, args)
           m == ValueMissing(configured, args)
           Good == {i \in 1..(n + 2) : f[i] = NoError => ~m[i]}
<1>1. n \in Nat
  OBVIOUS
<1>2. n + 1 \in Good /\ n + 2 \in Good
  <2>1. \A i \in {n + 1, n + 2} : i \in 1..(n + 2) /\ i > n
    BY <1>1
  <2>2. \A i \in {n + 1, n + 2} : m[i] = FALSE
    BY <2>1, ValueMissingRule
  <2> HIDE DEF n, f, m
  <2> QED
    BY <2>1, <2>2
<1>3. ASSUME NEW i \in 1..n, i + 1 \in Good, i + 2 \in Good PROVE i \in Good
  <2>1. SUFFICES ASSUME f[i] = NoError PROVE m[i] = FALSE
    <3>1. i \in 1..(n + 2)
      BY <1>1
    <3> HIDE DEF f, m, n
    <3> QED
      BY <2>1, <3>1
  <2>2. i \in 1..(n + 2) /\ ~(i > n) /\ i \in 1..Len(args)
    BY <1>3
  <2>3. m[i] = IF args[i] = Terminator THEN FALSE
               ELSE IF args[i].name \notin configured \/ args[i].value # Nil \/ args[i].kind = "word"
                    THEN m[i + 1]
               ELSE IF i = Len(args) THEN TRUE
               ELSE IF Dashed(args[i + 1]) THEN TRUE
               ELSE m[i + 2]
    BY <2>2, ValueMissingRule
  <2>4. i + 1 \in 1..(n + 2) /\ i + 2 \in 1..(n + 2) /\ m[i + 1] \in BOOLEAN /\ m[i + 2] \in BOOLEAN
    BY <1>3, ValueMissingRule
  <2>5. (f[i + 1] = NoError => m[i + 1] = FALSE) /\ (f[i + 2] = NoError => m[i + 2] = FALSE)
    BY <1>3, <2>4
  <2>6. \/ args[i] = Terminator
        \/ args[i] # Terminator /\ args[i].kind = "word" /\ f[i + 1] = NoError
        \/ /\ args[i] # Terminator /\ args[i].kind = "long"
           /\ TakesValue(command, args[i].name) <=> args[i].value # Nil
           /\ f[i + 1] = NoError
        \/ /\ args[i] # Terminator /\ args[i].kind = "long" /\ args[i].value = Nil
           /\ TakesValue(command, args[i].name)
           /\ i < Len(args) /\ args[i + 1].kind = "word" /\ f[i + 2] = NoError
    <3> HIDE DEF f, n
    <3>1. f[i] = NoError
      BY <2>1
    <3> QED
      BY <2>2, <3>1, OptionRead DEF f
  <2>7. CASE /\ args[i] # Terminator /\ args[i].kind = "long" /\ args[i].value = Nil
             /\ i < Len(args) /\ args[i + 1].kind = "word" /\ f[i + 2] = NoError
    <3>1. i + 1 \in 1..Len(args) /\ ~(i + 1 > Len(args)) /\ (i + 1) + 1 = i + 2 /\ i # Len(args)
      BY <2>7, <2>2
    <3>2. args[i + 1] # Terminator /\ ~Dashed(args[i + 1])
      BY <2>7 DEF Terminator, Dashed
    <3>3. f[i + 1] = f[i + 2]
      BY <2>4, <3>1, <3>2, OptionErrorsRule
    <3> HIDE DEF m, f
    <3> QED
      BY <2>3, <2>5, <2>7, <3>1, <3>2, <3>3
  <2> HIDE DEF m, f, n, Good
  <2> QED
    BY <2>3, <2>5, <2>6, <2>7
<1>4. 1..(n + 2) \subseteq Good
  <2>1. Good \subseteq 1..(n + 2)
    OBVIOUS
  <2> HIDE DEF Good, n
  <2> QED
    BY <1>1, <1>2, <1>3, DownFrom
<1>5. 1 \in Good /\ f[1] = NoError
  <2>1. f[1] = NoError
    BY DEF OptionError
  <2> HIDE DEF Good, f
  <2> QED
    BY <1>1, <1>4, <2>1
<1> HIDE DEF f, m, n
<1> QED
  BY <1>5 DEF m

-----------------------------------------------------------------------------
(* Projections                                                             *)

LEMMA NamesAfterRule ==
  ASSUME NEW plan, NEW T, NEW U, plan.select \in Seq(T), plan.rename \in Seq(U)
  PROVE  LET f == NamesAfter(plan)
         IN  /\ f[0] = ToSet(plan.select)
             /\ \A n \in 1..Len(plan.rename) :
                   f[n] = (f[n - 1] \ {plan.rename[n].from}) \cup {plan.rename[n].to}
<1> DEFINE N == Len(plan.rename)
           first == ToSet(plan.select)
           V == SUBSET (first \cup {plan.rename[k].to : k \in 1..N})
           step == [n \in 1..N |-> [v \in V |-> (v \ {plan.rename[n].from}) \cup {plan.rename[n].to}]]
           Rule(f) == [n \in 0..N |-> IF n = 0 THEN first
                                      ELSE (f[n - 1] \ {plan.rename[n].from}) \cup {plan.rename[n].to}]
<1>1. N \in Nat /\ first \in V /\ step \in [1..N -> [V -> V]]
  <2>1. N \in Nat /\ first \in V
    OBVIOUS
  <2>2. \A n \in 1..N, v \in V : (v \ {plan.rename[n].from}) \cup {plan.rename[n].to} \in V
    OBVIOUS
  <2> HIDE DEF V, N
  <2> QED
    BY <2>1, <2>2
<1>2. PICK f : Computes(f, N, V, first, step)
  <2> HIDE DEF N, V, step, first
  <2> QED
    BY <1>1, RecursionUpTo, Zenon
<1>3. f \in [0..N -> V] /\ f[0] = first
  BY <1>2 DEF Computes
<1>4. ASSUME NEW n \in 1..N
      PROVE  f[n] = (f[n - 1] \ {plan.rename[n].from}) \cup {plan.rename[n].to}
  <2>1. f[n] = step[n][f[n - 1]] /\ n - 1 \in 0..N
    <3> HIDE DEF V, step
    <3> QED
      BY <1>2 DEF Computes
  <2>2. f[n - 1] \in V
    <3> HIDE DEF V
    <3> QED
      BY <1>3, <2>1
  <2> HIDE DEF V
  <2> QED
    BY <2>1, <2>2
<1>5. f = Rule(f)
  <2> HIDE DEF V, first
  <2>1. \A n \in 0..N : f[n] = IF n = 0 THEN first
                              ELSE (f[n - 1] \ {plan.rename[n].from}) \cup {plan.rename[n].to}
    <3> TAKE n \in 0..N
    <3>1. n # 0 => n \in 1..N
      BY <1>1
    <3> QED
      BY <1>3, <1>4, <3>1
  <2>2. f = [n \in 0..N |-> f[n]]
    BY <1>3
  <2> QED
    BY <2>1, <2>2
<1> DEFINE g == CHOOSE h : h = Rule(h)
<1>6. g = Rule(g)
  <2> HIDE DEF Rule
  <2> QED
    BY <1>5
<1>7. NamesAfter(plan) = g
  BY DEF NamesAfter
<1>8. \A n \in 0..N : g[n] = IF n = 0 THEN first
                            ELSE (g[n - 1] \ {plan.rename[n].from}) \cup {plan.rename[n].to}
  <2> HIDE DEF g, first
  <2> QED
    BY <1>6
<1>9. 0 \in 0..N /\ \A n \in 1..N : n \in 0..N /\ n # 0
  BY <1>1
<1> HIDE DEF g, N, first
<1>10. g[0] = first /\ \A n \in 1..N : g[n] = (g[n - 1] \ {plan.rename[n].from}) \cup {plan.rename[n].to}
  BY <1>8, <1>9
<1> QED
  BY <1>7, <1>10 DEF N, first

(* Fields with names of their own, each renamed at most once, to a name that *)
(* no other field then has; final are the names at the end.                  *)
RenamedApart(S, field, N, from, to, names, final) ==
  /\ DOMAIN final = S
  /\ \A a, b \in S : field[a] = field[b] => a = b
  /\ \A j, k \in 1..N : from[j] = from[k] => j = k
  /\ \A a \in S : field[a] \in names[0]
  /\ \A k \in 1..N : /\ \E a \in S : field[a] = from[k]
                     /\ to[k] \notin names[k - 1] \ {from[k]}
                     /\ names[k] = (names[k - 1] \ {from[k]}) \cup {to[k]}
  /\ \A a \in S : \/ \E k \in 1..N : from[k] = field[a] /\ final[a] = to[k]
                  \/ (\A k \in 1..N : from[k] # field[a]) /\ final[a] = field[a]

LEMMA RenamesStayDistinct ==
  ASSUME NEW S, NEW field, NEW N \in Nat, NEW from, NEW to, NEW names, NEW final,
         RenamedApart(S, field, N, from, to, names, final)
  PROVE  Distinct(final)
<1> USE DEF RenamedApart
<1> DEFINE Name(n, a, x) == \/ \E k \in 1..n : from[k] = field[a] /\ x = to[k]
                            \/ (\A k \in 1..n : from[k] # field[a]) /\ x = field[a]
           Good == {n \in 0..N : /\ \A a, b \in S : \A x : Name(n, a, x) /\ Name(n, b, x) => a = b
                                 /\ \A a \in S : \A x : Name(n, a, x) => x \in names[n]}
<1>1. 0 \in Good
  OBVIOUS
<1>2. ASSUME NEW n \in 1..N, n - 1 \in Good PROVE n \in Good
  <2>1. PICK m \in S : field[m] = from[n]
    OBVIOUS
  <2>2. n \in 1..n /\ \A k \in 1..n : k \in 1..N /\ (k \in 1..(n - 1) \/ k = n)
    BY <1>2
  <2>3. \A k \in 1..(n - 1) : k \in 1..n /\ k \in 1..N /\ k # n
    BY <1>2
  <2>4. \A x : Name(n, m, x) => x = to[n]
    BY <2>1, <2>2
  <2>5. Name(n - 1, m, from[n])
    BY <2>1, <2>3
  <2>6. ASSUME NEW a \in S, a # m, NEW x, Name(n, a, x)
        PROVE  Name(n - 1, a, x) /\ x # from[n]
    <3>1. field[a] # from[n]
      BY <2>1, <2>6
    <3>2. Name(n - 1, a, x)
      BY <2>2, <2>3, <2>6, <3>1
    <3>3. \A c, b \in S : \A y : Name(n - 1, c, y) /\ Name(n - 1, b, y) => c = b
      <4> HIDE DEF Name
      <4> QED
        BY <1>2
    <3> HIDE DEF Name
    <3> QED
      BY <2>5, <2>6, <3>2, <3>3
  <2>7. ASSUME NEW a \in S, a # m, NEW x, Name(n, a, x)
        PROVE  x \in names[n - 1] \ {from[n]} /\ x # to[n] /\ x \in names[n]
    <3>1. x \in names[n - 1]
      <4>1. \A c \in S : \A y : Name(n - 1, c, y) => y \in names[n - 1]
        <5> HIDE DEF Name
        <5> QED
          BY <1>2
      <4> HIDE DEF Name
      <4> QED
        BY <2>6, <2>7, <4>1
    <3>2. x # from[n]
      <4> HIDE DEF Name
      <4> QED
        BY <2>6, <2>7
    <3>3. to[n] \notin names[n - 1] \ {from[n]} /\ names[n] = (names[n - 1] \ {from[n]}) \cup {to[n]}
      <4> HIDE DEF Name, Good
      <4> QED
        BY <1>2
    <3> QED
      BY <3>1, <3>2, <3>3
  <2>8. to[n] \in names[n]
    <3>1. names[n] = (names[n - 1] \ {from[n]}) \cup {to[n]}
      <4> HIDE DEF Name, Good
      <4> QED
        BY <1>2
    <3> QED
      BY <3>1
  <2>9. \A a, b \in S : \A x : Name(n, a, x) /\ Name(n, b, x) => a = b
    <3> HIDE DEF Name
    <3> SUFFICES ASSUME NEW a \in S, NEW b \in S, NEW x, Name(n, a, x), Name(n, b, x), a # b
                 PROVE  FALSE
      OBVIOUS
    <3>1. CASE a = m
      <4> HIDE DEF Name
      <4> QED
        BY <2>4, <2>7, <3>1
    <3>2. CASE b = m
      <4> HIDE DEF Name
      <4> QED
        BY <2>4, <2>7, <3>2
    <3>3. CASE a # m /\ b # m
      <4>1. \A c, d \in S : \A y : Name(n - 1, c, y) /\ Name(n - 1, d, y) => c = d
        <5> HIDE DEF Name
        <5> QED
          BY <1>2
      <4> HIDE DEF Name
      <4> QED
        BY <2>6, <3>3, <4>1
    <3> QED
      BY <3>1, <3>2, <3>3
  <2>10. \A a \in S : \A x : Name(n, a, x) => x \in names[n]
    <3> HIDE DEF Name
    <3> QED
      BY <2>4, <2>7, <2>8
  <2>11. n \in 0..N
    BY <1>2
  <2> HIDE DEF Name
  <2> QED
    BY <2>9, <2>10, <2>11
<1>3. N \in Good
  <2> HIDE DEF Good
  <2>1. \A k \in 0..N : k \in Good /\ k < N => k + 1 \in Good
    <3> SUFFICES ASSUME NEW k \in 0..N, k \in Good, k < N PROVE k + 1 \in Good
      OBVIOUS
    <3>1. k + 1 \in 1..N /\ (k + 1) - 1 = k
      OBVIOUS
    <3> QED
      BY <1>2, <3>1
  <2>2. 0..N \subseteq Good
    BY <1>1, <2>1, UpTo
  <2> QED
    BY <2>2
<1>4. \A a \in S : Name(N, a, final[a])
  OBVIOUS
<1>5. \A a, b \in S : \A x : Name(N, a, x) /\ Name(N, b, x) => a = b
  <2> HIDE DEF Name
  <2> QED
    BY <1>3
<1> HIDE DEF Name
<1> QED
  BY <1>4, <1>5 DEF Distinct

(* No chain of renames makes a valid projection give two fields one name.    *)
LEMMA NamesAreDistinct ==
  ASSUME NEW plan \in ProjectionType, ValidOutputPlan(plan)
  PROVE  Distinct(FinalNames(plan))
<1> DEFINE select == plan.select
           rename == plan.rename
           final == FinalNames(plan)
           from == [k \in DOMAIN rename |-> rename[k].from]
           to == [k \in DOMAIN rename |-> rename[k].to]
           names == NamesAfter(plan)
           Of(i) == {k \in DOMAIN rename : rename[k].from = select[i]}
<1>1. /\ select \in Seq(STRING) /\ rename \in Seq([from : STRING, to : STRING])
      /\ Distinct(select) /\ Distinct(from)
      /\ \A k \in DOMAIN rename : /\ rename[k].from \in ToSet(select)
                                  /\ rename[k].to \notin names[k - 1] \ {rename[k].from}
  BY DEF ProjectionType, SliceOf, ValidOutputPlan, Bounded
<1>2. DOMAIN rename = 1..Len(rename) /\ Len(rename) \in Nat /\ DOMAIN select = 1..Len(select)
  BY <1>1
<1>3. /\ names[0] = ToSet(select)
      /\ \A n \in 1..Len(rename) : names[n] = (names[n - 1] \ {rename[n].from}) \cup {rename[n].to}
  <2> HIDE DEF from, to, final
  <2> QED
    BY <1>1, NamesAfterRule
<1>4. /\ \A a, b \in DOMAIN select : select[a] = select[b] => a = b
      /\ \A j, k \in 1..Len(rename) : from[j] = from[k] => j = k
      /\ \A a \in DOMAIN select : select[a] \in names[0]
  <2> HIDE DEF names, select, rename
  <2> QED
    BY <1>1, <1>2, <1>3 DEF Distinct, ToSet
<1>5. \A k \in 1..Len(rename) : /\ \E a \in DOMAIN select : select[a] = from[k]
                                /\ to[k] \notin names[k - 1] \ {from[k]}
                                /\ names[k] = (names[k - 1] \ {from[k]}) \cup {to[k]}
  <2> HIDE DEF names, select, rename
  <2> QED
    BY <1>1, <1>2, <1>3 DEF ToSet
<1>6. ASSUME NEW i \in DOMAIN select
      PROVE  \/ \E k \in 1..Len(rename) : from[k] = select[i] /\ final[i] = to[k]
             \/ (\A k \in 1..Len(rename) : from[k] # select[i]) /\ final[i] = select[i]
  <2>1. final[i] = IF Of(i) = {} THEN select[i]
                   ELSE rename[CHOOSE k \in Of(i) : \A l \in Of(i) : l <= k].to
    BY DEF FinalNames
  <2>2. \A j, k \in Of(i) : j = k
    <3> HIDE DEF select, rename
    <3> QED
      BY <1>1 DEF Distinct
  <2>3. Of(i) \subseteq 1..Len(rename)
    BY <1>2
  <2>4. ASSUME NEW m \in Of(i) PROVE (CHOOSE k \in Of(i) : \A l \in Of(i) : l <= k) = m
    <3>1. m <= m
      BY <2>3, <2>4
    <3>2. \E k \in Of(i) : \A l \in Of(i) : l <= k
      <4> HIDE DEF Of
      <4> QED
        BY <2>2, <2>4, <3>1
    <3> HIDE DEF Of
    <3> QED
      BY <2>2, <2>4, <3>2
  <2> HIDE DEF final, select, rename
  <2>5. CASE Of(i) = {}
    BY <1>2, <2>1, <2>5
  <2>6. CASE Of(i) # {}
    <3>1. PICK m \in Of(i) : TRUE
      BY <2>6
    <3>2. final[i] = rename[m].to
      BY <2>1, <2>4, <2>6, <3>1
    <3> QED
      BY <1>2, <3>1, <3>2
  <2> QED
    BY <2>5, <2>6
<1>7. DOMAIN final = DOMAIN select
  BY DEF FinalNames
<1>8. Distinct(final)
  <2>1. RenamedApart(DOMAIN select, select, Len(rename), from, to, names, final)
    <3> HIDE DEF final, select, rename, from, to, names
    <3> QED
      BY <1>2, <1>4, <1>5, <1>6, <1>7 DEF RenamedApart
  <2>2. Len(rename) \in Nat
    BY <1>2
  <2> HIDE DEF final, select, rename, from, to, names
  <2> QED
    BY <2>1, <2>2, RenamesStayDistinct, Zenon
<1> QED
  BY <1>8

-----------------------------------------------------------------------------
(* Plans                                                                   *)

LEMMA FilterNone ==
  ASSUME NEW T, NEW s \in Seq(T), NEW S
  PROVE  Len(s) = 0 => Filter(s, S) = <<>>
<1>1. PICK f \in [0..Len(s) -> Seq(T)] :
         /\ f[0] = <<>> /\ Filter(s, S) = f[Len(s)]
         /\ \A n \in 1..Len(s) : f[n] = IF s[n] \in S THEN Append(f[n - 1], s[n]) ELSE f[n - 1]
  BY FilterRecursion
<1> QED
  BY <1>1

LEMMA TailPoints ==
  ASSUME NEW args \in Seq(ArgumentType), NEW path \in Seq(StableNames), IsPrefix(Words(path), args)
  PROVE  /\ CallerTail(path, args) \in Seq(ArgumentType)
         /\ Len(CallerTail(path, args)) = Len(args) - Len(path) /\ Len(path) <= Len(args)
         /\ \A i \in 1..Len(CallerTail(path, args)) : CallerTail(path, args)[i] = args[Len(path) + i]
<1>1. Len(Words(path)) = Len(path)
  BY DEF Words
<1>2. Len(path) <= Len(args)
  BY <1>1 DEF IsPrefix
<1> QED
  BY <1>2 DEF CallerTail

(* The commands and surface entries of a bundle, typed.                      *)
LEMMA SurfacedCommand ==
  ASSUME NEW b, BundleDecodes(b), ValidBundle(b), NEW e, NEW c, Surfaced(b, e, c)
  PROVE  /\ c \in CommandType /\ ValidCommand(c) /\ CommandAt(b.catalog, c.path) = c
         /\ c.path \in Seq(StableNames) /\ Joined(e.command) = c.path /\ e.command \in Seq(STRING)
         /\ e.wrapper.defaults \in Seq(DefaultType) /\ e.wrapper.append \in Seq(ArgumentType)
<1>1. c \in ToSet(b.catalog.commands) /\ Joined(e.command) = c.path /\ e.command \in Seq(STRING)
  BY DEF Surfaced
<1>2. c \in CommandType /\ ValidCommand(c) /\ CommandAt(b.catalog, c.path) = c
  BY <1>1, BundleParts, CatalogCommands, CommandAtPath
<1>3. c.path \in Seq(StableNames)
  BY <1>2, CommandFields
<1>4. e.wrapper \in WrapperType /\ ValidWrapper(e.wrapper, e.options, c)
  BY DEF Surfaced
<1>5. e.wrapper.defaults \in Seq(DefaultType) /\ e.wrapper.append \in Seq(ArgumentType)
  BY <1>4 DEF WrapperType, ValidWrapper, SliceOf
<1> QED
  BY <1>1, <1>2, <1>3, <1>5

(* Each default is an option of the command that takes a value, is allowed,  *)
(* and is not given by what is appended.                                     *)
LEMMA DefaultsTakeValues ==
  ASSUME NEW b, BundleDecodes(b), ValidBundle(b), NEW e, NEW c, Surfaced(b, e, c),
         NEW d \in ToSet(e.wrapper.defaults)
  PROVE  /\ TakesValue(c, d.option) /\ StableName(d.option) /\ ValidText(d.value) /\ d.value # FullText
         /\ d.option \in Allowed(e.options, c)
         /\ d.option \notin ActiveNames(e.wrapper.append)
<1>1. c \in CommandType /\ ValidCommand(c)
  BY SurfacedCommand
<1>2. ValidOptionDefaults(e.wrapper.defaults, e.wrapper.append, e.options, c)
  BY DEF Surfaced, ValidWrapper
<1>3. PICK i \in DOMAIN e.wrapper.defaults : d = e.wrapper.defaults[i]
  BY DEF ToSet
<1>4. PICK o \in ToSet(IncludedOptions(e.options, c)) : o.name = d.option /\ o.takesValue
  BY <1>2, <1>3 DEF ValidOptionDefaults
<1>5. ValidText(d.value) /\ d.value # FullText /\ d.option \notin ActiveNames(e.wrapper.append)
  BY <1>2, <1>3 DEF ValidOptionDefaults
<1>6. c.options \in Seq(OptionType) /\ OptionNames(c) \subseteq StableNames
  BY <1>1, CommandFields
<1>7. o \in ToSet(c.options) /\ o.name \in Allowed(e.options, c)
  BY <1>4, <1>6, FilterElements DEF IncludedOptions
<1>8. o.name \in StableNames
  BY <1>6, <1>7 DEF OptionNames
<1> QED
  BY <1>4, <1>5, <1>7, <1>8 DEF TakesValue, StableName

(* The one binding of the contract an optimizer of the specification names.  *)
LEMMA OptimizerBinding ==
  ASSUME NEW b, BundleDecodes(b), ValidBundle(b), NEW o \in Optimizers(b.specification)
  PROVE  LET p == ProcessorFor(b, o.contract)
         IN  /\ p # Nil /\ ValidBinding(p) /\ p.allowOriginal \in BOOLEAN
             /\ p.contract = o.contract /\ p.input = o.input
<1> DEFINE P == b.processors
           at == {i \in DOMAIN P : P[i].contract = o.contract}
           s == b.specification
<1>1. ValidBindings(s, P)
  BY DEF ValidBundle
<1>2. P # Nil /\ \A i \in DOMAIN P : P[i] # Nil /\ ValidBinding(P[i]) /\ P[i].allowOriginal \in BOOLEAN
  BY <1>1 DEF ValidBindings, Bounded, BundleDecodes, ToSet
<1>3. {<<q.contract, q.input>> : q \in ToSet(P)} = {<<x.contract, x.input>> : x \in Optimizers(s)}
  BY <1>1 DEF ValidBindings
<1>4. at # {}
  <2>1. PICK q \in ToSet(P) : <<o.contract, o.input>> = <<q.contract, q.input>>
    <3>1. <<o.contract, o.input>> \in {<<x.contract, x.input>> : x \in Optimizers(s)}
      OBVIOUS
    <3> HIDE DEF P, s
    <3> QED
      BY <1>3, <3>1
  <2>2. PICK i \in DOMAIN P : q = P[i]
    BY DEF ToSet
  <2> HIDE DEF P
  <2> QED
    BY <2>1, <2>2
<1> DEFINE i == CHOOSE j \in at : TRUE
<1>5. i \in at
  <2> HIDE DEF at
  <2> QED
    BY <1>4
<1>6. ProcessorFor(b, o.contract) = P[i]
  BY <1>4 DEF ProcessorFor
<1>7. i \in DOMAIN P /\ P[i].contract = o.contract
  <2> HIDE DEF i, P
  <2> QED
    BY <1>5
<1>8. P[i].input = o.input
  <2> HIDE DEF i, at
  <2>1. <<P[i].contract, P[i].input>> \in {<<q.contract, q.input>> : q \in ToSet(P)}
    BY <1>7 DEF ToSet
  <2>2. PICK x \in Optimizers(s) : <<P[i].contract, P[i].input>> = <<x.contract, x.input>>
    <3> HIDE DEF P, s
    <3> QED
      BY <1>3, <2>1
  <2>3. \A y, z \in Optimizers(s) : y.contract = z.contract => y.input = z.input
    BY <1>1 DEF ValidBindings
  <2> HIDE DEF P
  <2> QED
    BY <1>7, <2>2, <2>3
<1> HIDE DEF i, P
<1> QED
  BY <1>2, <1>6, <1>7, <1>8

(* The plan of an invocation that resolution and the options let through.    *)
Planned(b, c, e, args) ==
  /\ Surfaced(b, e, c)
  /\ IsPrefix(Words(c.path), args) /\ Len(args) >= 1 /\ ValidSourceRequest(args)
  /\ OptionError(c, e.options, CallerTail(c.path, args)) = NoError

PlannedFor(b, c, e, args) == PlanOf(b, c, e, b.catalog.source.requested, args)

(* What the plan of an invocation comes to: it is refused exactly when the   *)
(* surface spells the path of the command with other segments.               *)
PlannedAs(b, c, e, args, built) ==
  /\ Planned(b, c, e, args) /\ c = Matched(b.catalog, args) /\ e = Resolve(b, c.path)
  /\ \/ /\ built = Success(PlannedFor(b, c, e, args)) /\ ValidPlan(PlannedFor(b, c, e, args))
        /\ e.command = c.path
     \/ built = Failure("invalid_plan") /\ e.command # c.path

LEMMA PlannedModeAgrees ==
  ASSUME NEW b, BundleDecodes(b), ValidBundle(b), NEW e, NEW c, NEW args, Surfaced(b, e, c)
  PROVE  ModeAgrees(PlannedFor(b, c, e, args))
<1> DEFINE p == PlannedFor(b, c, e, args)
           w == e.wrapper
<1>1. /\ p.mode = ResultMode(w.output) /\ p.output = w.output
      /\ p.processor = IF w.output # Nil /\ w.output.kind = "optimizer"
                       THEN ProcessorFor(b, w.output.optimizer.contract) ELSE Nil
  BY DEF PlannedFor, PlanOf
<1>2. w \in WrapperType /\ ValidWrapper(w, e.options, c)
  BY DEF Surfaced
<1>3. w.output # Nil => ValidOutput(w.output, c) /\ w.output \in OutputType /\ w.kind = "transform"
  <2>1. w.output \in PointerTo(OutputType)
    BY <1>2 DEF WrapperType
  <2> HIDE DEF w
  <2> QED
    BY <1>2, <2>1 DEF ValidWrapper, ChangesNothing, PointerTo
<1> HIDE DEF p, w
<1>4. ASSUME w.output = Nil PROVE ModeAgrees(p)
  BY <1>1, <1>4 DEF ResultMode, ModeAgrees
<1>5. ASSUME w.output # Nil, w.output.kind = "projection" PROVE ModeAgrees(p)
  BY <1>1, <1>5 DEF ResultMode, ModeAgrees
<1>6. ASSUME w.output # Nil, w.output.kind = "optimizer" PROVE ModeAgrees(p)
  <2> DEFINE o == w.output.optimizer
             x == ExplicitEntry(b.specification, e.command)
  <2>1. o # Nil /\ o \in OptimizerType /\ o.allowOriginal /\ w # Identity
    <3>1. o \in PointerTo(OptimizerType) /\ Identity.output = Nil
      BY <1>3, <1>6 DEF OutputType, Identity
    <3> QED
      BY <1>3, <1>6, <3>1 DEF ValidOutput, ValidOptimizer, PointerTo
  <2>2. /\ x \in ToSet(b.specification.commands) /\ x.presence = "include" /\ x.wrapper = w
    BY <2>1 DEF Surfaced, w
  <2>3. w # Nil
    BY <1>2, NilEntryAssumption
  <2>4. o \in Optimizers(b.specification)
    <3>1. o \in OptimizerOf(x)
      <4> HIDE DEF x
      <4> QED
        BY <1>6, <2>1, <2>2, <2>3 DEF OptimizerOf
    <3> HIDE DEF x, o
    <3> QED
      BY <2>2, <3>1 DEF Optimizers
  <2>5. /\ p.processor # Nil /\ ValidBinding(p.processor) /\ p.processor.allowOriginal \in BOOLEAN
        /\ p.processor.contract = o.contract /\ p.processor.input = o.input
    BY <1>1, <1>6, <2>4, OptimizerBinding
  <2>6. p.processor.allowOriginal = o.allowOriginal
    <3>1. p.processor.allowOriginal /\ o.allowOriginal \in BOOLEAN
      BY <2>1, <2>5 DEF ValidBinding, OptimizerType
    <3> QED
      BY <2>1, <2>5, <3>1
  <2>7. p.mode = "original_preserving_optimizer"
    BY <1>1, <1>6 DEF ResultMode
  <2> QED
    BY <1>1, <1>6, <2>1, <2>5, <2>6, <2>7 DEF ModeAgrees
<1>7. w.output # Nil => w.output.kind \in {"projection", "optimizer"}
  BY <1>3 DEF ValidOutput
<1> QED
  BY <1>4, <1>5, <1>6, <1>7 DEF p, w

LEMMA PlannedOptions ==
  ASSUME NEW b, BundleDecodes(b), ValidBundle(b), NEW e, NEW c, Surfaced(b, e, c)
  PROVE  ValidPlanOptions(e.options)
<1>1. OptionNames(c) \subseteq StableNames
  BY SurfacedCommand, CommandFields
<1>2. ValidOptionSurface(e.options, c)
  BY DEF Surfaced
<1> QED
  BY <1>1, <1>2 DEF ValidOptionSurface, ValidPlanOptions, StableName

LEMMA PlannedDefaults ==
  ASSUME NEW b, BundleDecodes(b), ValidBundle(b), NEW e, NEW c, NEW args \in Seq(ArgumentType),
         Planned(b, c, e, args)
  PROVE  ~PlanDefaultsError(e.wrapper.defaults, e.wrapper.append, CallerTail(c.path, args))
<1> DEFINE w == e.wrapper
           tail == CallerTail(c.path, args)
<1>1. Surfaced(b, e, c) /\ IsPrefix(Words(c.path), args) /\ OptionError(c, e.options, tail) = NoError
  BY DEF Planned
<1>2. /\ w.defaults \in Seq(DefaultType) /\ w.append \in Seq(ArgumentType)
      /\ c.path \in Seq(StableNames)
  BY <1>1, SurfacedCommand
<1>3. \A d \in ToSet(w.defaults) : /\ TakesValue(c, d.option) /\ StableName(d.option)
                                  /\ ValidText(d.value) /\ d.value # FullText
                                  /\ d.option \notin ActiveNames(w.append)
  BY <1>1, DefaultsTakeValues
<1>4. tail \in Seq(ArgumentType)
  BY <1>1, <1>2, TailPoints
<1>5. ~ValueMissing({d.option : d \in ToSet(w.defaults)}, tail)[1]
  <2>1. \A name \in {d.option : d \in ToSet(w.defaults)} : TakesValue(c, name)
    BY <1>3
  <2> HIDE DEF tail
  <2> QED
    BY <1>1, <1>4, <2>1, ValuesAreGiven
<1>6. /\ Len(w.defaults) + Len(w.append) <= Limit.arguments
      /\ Distinct([i \in DOMAIN w.defaults |-> w.defaults[i].option])
  BY <1>1 DEF Surfaced, ValidWrapper, ValidOptionDefaults
<1>7. ~(Len(w.defaults) + Len(w.append) > Limit.arguments)
  <2>1. Limit.arguments \in Nat
    BY LimitAssumption
  <2>2. Len(w.defaults) \in Nat /\ Len(w.append) \in Nat
    <3> HIDE DEF w
    <3> QED
      BY <1>2
  <2> HIDE DEF w
  <2>3. Len(w.defaults) + Len(w.append) <= Limit.arguments
    BY <1>6
  <2>4. \A i, j \in Nat, k \in Nat : i + j <= k => ~(i + j > k)
    OBVIOUS
  <2> QED
    BY <2>1, <2>2, <2>3, <2>4, Zenon
<1> HIDE DEF tail, w
<1>8. ~PlanDefaultsError(w.defaults, w.append, tail)
  BY <1>3, <1>5, <1>6, <1>7 DEF PlanDefaultsError
<1> QED
  BY <1>8 DEF tail, w

LEMMA PlannedWrapper ==
  ASSUME NEW b, BundleDecodes(b), ValidBundle(b), NEW e, NEW c, NEW args, Surfaced(b, e, c)
  PROVE  WrapperAgrees(PlannedFor(b, c, e, args)) /\ EntryAgrees(PlannedFor(b, c, e, args))
<1> DEFINE p == PlannedFor(b, c, e, args)
           w == e.wrapper
           x == ExplicitEntry(b.specification, e.command)
           tail == CallerTail(c.path, args)
<1>1. /\ p.wrapperKind = w.kind /\ p.before = w.before /\ p.after = w.after
      /\ p.defaults = w.defaults /\ p.append = w.append /\ p.output = w.output
      /\ p.applied = AppliedDefaults(w.defaults, tail)
      /\ p.command = e.command /\ p.reason = e.reason /\ p.options = e.options /\ p.entry = x
      /\ p.origin = IF x = Nil THEN "inherited" ELSE "explicit"
  BY DEF PlannedFor, PlanOf
<1>2. w \in WrapperType /\ ValidWrapper(w, e.options, c)
  BY DEF Surfaced
<1> HIDE DEF p
<1>3. WrapperAgrees(p)
  <2>1. CASE w.kind = "identity" /\ ChangesNothing(w)
    <3>1. p.applied = <<>>
      <4>1. w.defaults \in Seq(DefaultType) /\ Len(w.defaults) = 0 /\ w.defaults = <<>>
        BY <2>1 DEF ChangesNothing
      <4> HIDE DEF w, tail
      <4> QED
        BY <1>1, <4>1, FilterNone DEF AppliedDefaults
    <3> QED
      BY <1>1, <1>2, <2>1, <3>1 DEF ChangesNothing, WrapperAgrees, ValidWrapper
  <2>2. CASE w.kind = "transform" /\ ~ChangesNothing(w) /\ (w.output # Nil => ValidOutput(w.output, c))
    <3>1. w.output # Nil => SelfContainedOutput(w.output)
      BY <2>2 DEF ValidOutput, SelfContainedOutput, ValidProjection, ValidOptimizer
    <3> QED
      BY <1>1, <1>2, <2>2, <3>1 DEF ChangesNothing, WrapperAgrees, ValidWrapper
  <2>3. \/ w.kind = "identity" /\ ChangesNothing(w)
        \/ w.kind = "transform" /\ ~ChangesNothing(w) /\ (w.output # Nil => ValidOutput(w.output, c))
    <3> HIDE DEF w
    <3> QED
      BY <1>2 DEF ValidWrapper
  <2> HIDE DEF w
  <2> QED
    BY <2>1, <2>2, <2>3
<1>4. EntryAgrees(p)
  <2>1. \/ x = Nil
        \/ /\ x # Nil /\ x.presence = "include" /\ x.command = e.command /\ x.reason = e.reason
           /\ x.options = e.options /\ x.wrapper = w
    BY DEF Surfaced
  <2>2. w = [kind |-> w.kind, before |-> w.before, defaults |-> w.defaults,
             append |-> w.append, after |-> w.after, output |-> w.output]
    BY <1>2 DEF WrapperType
  <2> HIDE DEF x, w
  <2> QED
    BY <1>1, <2>1, <2>2 DEF EntryAgrees
<1> QED
  BY <1>3, <1>4 DEF p

(* Every check of a detached plan holds of a plan Build assembles for an     *)
(* entry that spells the command as the catalog does.                        *)
LEMMA PlannedIsValid ==
  ASSUME NEW b, BundleDecodes(b), ValidBundle(b), BundleDigest(b) # NoDigest,
         NEW e, NEW c, NEW args \in Seq(ArgumentType), Planned(b, c, e, args),
         e.command = c.path, ValidSourceRequest(PlannedFor(b, c, e, args).args)
  PROVE  ValidPlan(PlannedFor(b, c, e, args))
<1> DEFINE p == PlannedFor(b, c, e, args)
           w == e.wrapper
           tail == CallerTail(c.path, args)
<1>1. /\ Surfaced(b, e, c) /\ IsPrefix(Words(c.path), args) /\ Len(args) >= 1
      /\ ValidSourceRequest(args)
  BY DEF Planned
<1>2. /\ c \in CommandType /\ ValidCommand(c) /\ e.command = c.path
      /\ \A i \in DOMAIN c.path : StableName(c.path[i])
  BY <1>1, SurfacedCommand DEF ValidCommand
<1>3. ModeAgrees(p) /\ WrapperAgrees(p) /\ EntryAgrees(p)
  BY <1>1, PlannedModeAgrees, PlannedWrapper
<1>4. ValidPlanOptions(e.options) /\ ValidText(e.reason) /\ Len(c.path) \in 1..Limit.segments
  BY <1>1, <1>2, PlannedOptions, CommandFields DEF Surfaced
<1>5. ~PlanDefaultsError(w.defaults, w.append, tail)
  BY <1>2, PlannedDefaults
<1>6. ValidCatalog(b.catalog) /\ b.catalogDigest # NoDigest /\ b.specificationDigest # NoDigest
  BY BundleParts DEF ValidBundle
<1>7. /\ b.catalog.source.image # Nil /\ ValidText(b.catalog.source.requested)
      /\ ValidText(b.catalog.source.version)
  BY <1>6 DEF ValidCatalog
<1>8. /\ p.bundleDigest = BundleDigest(b) /\ p.catalogDigest = b.catalogDigest
      /\ p.specificationDigest = b.specificationDigest /\ p.source = b.catalog.source
      /\ p.command = e.command /\ p.reason = e.reason /\ p.options = e.options
      /\ p.executable = b.catalog.source.requested /\ p.original = args
      /\ p.defaults = w.defaults /\ p.append = w.append
      /\ p.applied = AppliedDefaults(w.defaults, tail)
      /\ p.args = Transformed(c.path, w.defaults, tail, w.append)
  BY DEF PlannedFor, PlanOf
<1>9. ValidSourceRequest(p.args)
  OBVIOUS
<1> HIDE DEF p, w
<1>10. ValidPlan(p)
  BY <1>1, <1>2, <1>3, <1>4, <1>5, <1>6, <1>7, <1>8, <1>9, Zenon DEF ValidPlan
<1> QED
  BY <1>10 DEF p

(* The refusals of an invocation that are about the invocation.             *)
Refusals == {"invalid_invocation", "command_not_in_surface", "option_not_in_surface"}

LEMMA OptionErrorNames ==
  ASSUME NEW command, NEW surface, NEW args \in Seq(ArgumentType)
  PROVE  OptionError(command, surface, args) \in OptionFaults
<1>1. 1 \in 1..(Len(args) + 2)
  OBVIOUS
<1> QED
  BY <1>1, OptionErrorsRule DEF OptionError

(* What Build answers for a valid bundle and a current source.              *)
LEMMA BuildOutcomes ==
  ASSUME NEW b, BundleDecodes(b), ValidBundle(b), BundleDigest(b) # NoDigest,
         NEW args \in Seq(ArgumentType),
         NEW built, built = Build(BundleDigest(b), b, IdentityOf(b.catalog), b.catalog.source.requested, args)
  PROVE  \/ ~built.ok /\ built.error \in Refusals
         \/ \E c, e : PlannedAs(b, c, e, args, built)
<1> DEFINE c == Matched(b.catalog, args)
           e == Resolve(b, c.path)
           tail == CallerTail(c.path, args)
           fault == OptionError(c, e.options, tail)
           p == PlannedFor(b, c, e, args)
<1>1. Failure("invalid_invocation").error \in Refusals /\ ~Failure("invalid_invocation").ok
  BY DEF Failure, Refusals
<1>2. Failure("command_not_in_surface").error \in Refusals /\ ~Failure("command_not_in_surface").ok
  BY DEF Failure, Refusals
<1>3. ASSUME NEW error \in OptionFaults, error # NoError
      PROVE  Failure(error).error \in Refusals /\ ~Failure(error).ok
  BY <1>3 DEF OptionFaults, Failure, Refusals
<1>4. built = IF args = Nil \/ args = <<>> \/ ~ValidSourceRequest(args) THEN Failure("invalid_invocation")
              ELSE IF c = Nil THEN Failure("invalid_invocation")
              ELSE IF Ambiguous(b.catalog, c.path, args) THEN Failure("invalid_invocation")
              ELSE IF e = Nil THEN Failure("command_not_in_surface")
              ELSE IF fault # NoError THEN Failure(fault)
              ELSE Checked(p, c)
  BY Zenon DEF Build, PlannedFor
<1>5. SUFFICES ASSUME ~(args = Nil \/ args = <<>> \/ ~ValidSourceRequest(args)),
                      c # Nil, e # Nil
               PROVE  \/ ~built.ok /\ built.error \in Refusals
                      \/ \E x, y : PlannedAs(b, x, y, args, built)
  <2> HIDE DEF c, e, fault, p
  <2> QED
    BY <1>1, <1>2, <1>4
<1>6. b.catalog.commands \in SliceOf(CommandType) /\ ValidCatalog(b.catalog)
  BY BundleParts
<1>7. c \in ToSet(b.catalog.commands) /\ IsPrefix(Words(c.path), args)
  BY <1>5, <1>6, MatchedCommand
<1>8. e \in ToSet(b.surface) /\ Joined(e.command) = Joined(c.path)
  <2> DEFINE at == {i \in DOMAIN b.surface : Joined(b.surface[i].command) = Joined(c.path)}
             i == CHOOSE j \in at : TRUE
  <2> HIDE DEF c
  <2>1. at # {}
    BY <1>5 DEF Resolve
  <2>2. e = b.surface[i]
    BY <2>1 DEF Resolve
  <2>3. i \in at
    <3> HIDE DEF at
    <3> QED
      BY <2>1
  <2> HIDE DEF i, e
  <2> QED
    BY <2>2, <2>3 DEF ToSet
<1>9. Surfaced(b, e, c)
  <2> HIDE DEF c, e
  <2>1. PICK x : Surfaced(b, e, x)
    BY <1>8, SurfaceEntries
  <2>2. x \in ToSet(b.catalog.commands) /\ Joined(e.command) = x.path
    BY <2>1 DEF Surfaced
  <2>3. CommandAt(b.catalog, x.path) = x /\ CommandAt(b.catalog, c.path) = c /\ Joined(c.path) = c.path
    BY <1>6, <1>7, <2>2, CommandAtPath, CommandNamedByKey
  <2>4. x = c
    BY <1>8, <2>2, <2>3
  <2> QED
    BY <2>1, <2>4
<1>10. c.path \in Seq(StableNames) /\ c \in CommandType
  BY <1>9, SurfacedCommand
<1>11. tail \in Seq(ArgumentType)
  BY <1>7, <1>10, TailPoints
<1>12. fault \in OptionFaults
  <2> HIDE DEF c, e, tail
  <2> QED
    BY <1>11, OptionErrorNames
<1>13. SUFFICES ASSUME fault = NoError
                PROVE  \/ ~built.ok /\ built.error \in Refusals
                       \/ PlannedAs(b, c, e, args, built)
  <2> HIDE DEF c, e, fault
  <2>1. fault # NoError => Failure(fault).error \in Refusals /\ ~Failure(fault).ok
    BY <1>3, <1>12
  <2>2. \/ built = Failure(fault) /\ fault # NoError
        \/ built = Failure("invalid_invocation")
        \/ fault = NoError
    <3> HIDE DEF p
    <3> QED
      BY <1>4, <1>5
  <2> QED
    BY <1>1, <1>13, <2>1, <2>2
<1>14. Planned(b, c, e, args)
  <2>1. Len(args) >= 1
    BY <1>5
  <2> HIDE DEF c, e
  <2> QED
    BY <1>5, <1>7, <1>9, <1>13, <2>1 DEF Planned
<1>15. ValidSourceRequest(p.args) /\ e.command = c.path => ValidPlan(p)
  <2> HIDE DEF c, e
  <2> QED
    BY <1>14, PlannedIsValid
<1>16. ValidPlan(p) => e.command = c.path
  <2> SUFFICES ASSUME ValidPlan(p) PROVE e.command = c.path
    OBVIOUS
  <2>1. \A i \in DOMAIN e.command : e.command[i] \in StableNames
    <3>1. p.command = e.command
      BY DEF PlannedFor, PlanOf
    <3> HIDE DEF p, e
    <3> QED
      BY <3>1 DEF ValidPlan, StableName
  <2>2. e.command \in Seq(STRING) /\ Joined(e.command) = c.path
    BY <1>9, SurfacedCommand
  <2> HIDE DEF e, c, p
  <2>3. e.command \in Seq(StableNames)
    BY <2>1, <2>2, ListOver
  <2> QED
    BY <2>2, <2>3, JoinedStable
<1>17. ModeAgrees(p)
  <2> HIDE DEF c, e
  <2> QED
    BY <1>9, PlannedModeAgrees
<1>18. p.mode = "original_preserving_optimizer" => p.processor # Nil
  <2> HIDE DEF p
  <2> QED
    BY <1>17 DEF ModeAgrees
<1>19. \/ built = Failure("invalid_invocation")
       \/ built = Checked(p, c)
  <2> HIDE DEF c, e, fault, p
  <2> QED
    BY <1>4, <1>5, <1>13
<1>20. \/ built = Failure("invalid_invocation")
       \/ built = Success(p) /\ ValidPlan(p) /\ e.command = c.path
       \/ built = Failure("invalid_plan") /\ e.command # c.path
  <2> HIDE DEF c, e, fault, p
  <2> QED
    BY <1>15, <1>16, <1>18, <1>19, Zenon DEF Checked
<1>21. c = Matched(b.catalog, args) /\ e = Resolve(b, c.path)
  OBVIOUS
<1> HIDE DEF c, e
<1> QED
  BY <1>1, <1>14, <1>20, <1>21, Zenon DEF PlannedAs

(* The only processor request of a plan the registry admits.                *)
LEMMA AdmittedProcessorRequest ==
  ASSUME NEW p, PlanTupleAdmitted(p)
  PROVE  ProcessorRequest(p).ok
<1> DEFINE o == p.processor.observation
           request == [executable |-> p.processor.observation.image,
                       identity |-> p.processor.observation.image,
                       args |-> p.processor.execution.args,
                       environment |-> p.processor.execution.environment]
<1>1. /\ ValidPlan(p) /\ p.mode = "original_preserving_optimizer"
      /\ BindingOf(o) = Success(p.processor)
  BY DEF PlanTupleAdmitted
<1>2. p.processor = CanonicalBinding(o) /\ ValidBinding(CanonicalBinding(o))
  <2>1. Success(p.processor).ok /\ Success(p.processor).value = p.processor
    BY DEF Success
  <2>2. ~Failure("binding").ok
    BY DEF Failure
  <2>3. BindingOf(o) = Success(CanonicalBinding(o)) /\ ValidBinding(CanonicalBinding(o))
    BY <1>1, <2>1, <2>2 DEF BindingOf
  <2>4. Success(CanonicalBinding(o)).value = CanonicalBinding(o)
    BY DEF Success
  <2> QED
    BY <1>1, <2>1, <2>3, <2>4
<1>3. ValidBinding(p.processor)
  BY <1>2
<1>4. /\ p.processor.execution.args = <<Word("pipe"), Inline("filter", "go-test")>>
      /\ p.processor.execution.environment = "rtk_isolated"
  BY <1>2 DEF CanonicalBinding
<1>5. <<Word("pipe"), Inline("filter", "go-test")>> # Nil
  <2>1. Word("pipe") \in ArgumentType /\ Inline("filter", "go-test") \in ArgumentType
    BY StringAssumption DEF Word, Inline, ArgumentType, PointerTo
  <2>2. <<Word("pipe"), Inline("filter", "go-test")>> \in Seq(ArgumentType)
    BY <2>1
  <2> QED
    BY <2>2, NilAssumption
<1>6. /\ p.processor.observation.image # Nil
      /\ Len(p.processor.execution.args) \in 1..Limit.processorArguments
      /\ \A i \in DOMAIN p.processor.execution.args : ValidArgument(p.processor.execution.args[i])
  BY <1>3 DEF ValidBinding
<1>7. Bounded(p.processor.execution.args, Limit.processorArguments)
  <2>1. Limit.processorArguments \in Nat
    BY LimitAssumption
  <2> QED
    BY <1>4, <1>5, <1>6, <2>1 DEF Bounded
<1>8. ValidProcessorRequest(request)
  BY <1>4, <1>6, <1>7 DEF ValidProcessorRequest
<1>9. ProcessorRequest(p) = Success(request)
  <2> HIDE DEF o
  <2> QED
    BY <1>1, <1>8, Zenon DEF ProcessorRequest
<1> HIDE DEF request
<1> QED
  BY <1>9 DEF Success

LEMMA UsableBundle ==
  ASSUME Usable.ok
  PROVE  LoadBundle.ok /\ source = IdentityOf(bundleFile.bundle.catalog)
<1>1. LoadBundle.ok
  BY DEF Usable, Current, Failure
<1>2. LoadBundle.value = bundleFile.bundle
  BY <1>1, LoadedBundle
<1> QED
  BY <1>1, <1>2 DEF Usable, Current, Failure

(* Plans of a usable bundle.                                                *)
LEMMA UsablePlans ==
  ASSUME Usable.ok, NEW args \in Attempts
  PROVE  LET b == bundleFile.bundle
             built == PlanFor(args)
         IN  /\ BundleDecodes(b) /\ ValidBundle(b) /\ args \in Seq(ArgumentType)
             /\ \/ ~built.ok /\ built.error \in Refusals
                \/ \E c, e : PlannedAs(b, c, e, args, built)
<1> DEFINE b == bundleFile.bundle
<1>1. /\ BundleDecodes(b) /\ ValidBundle(b) /\ bundleFile.digest = BundleDigest(b)
      /\ BundleDigest(b) # NoDigest /\ source = IdentityOf(b.catalog)
  BY UsableBundle, LoadedBundle
<1>2. args \in Seq(ArgumentType)
  BY AttemptsAssumption
<1>3. PlanFor(args) = Build(BundleDigest(b), b, IdentityOf(b.catalog), b.catalog.source.requested, args)
  BY <1>1 DEF PlanFor, PlanOver
<1> HIDE DEF b
<1> QED
  BY <1>1, <1>2, <1>3, BuildOutcomes DEF b

LEMMA PlansConsistent ==
  ASSUME Usable.ok, NEW args \in Attempts
  PROVE  Consistent(PlanFor(args), bundleFile.bundle, args)
<1> DEFINE b == bundleFile.bundle
           built == PlanFor(args)
<1>1. BundleDecodes(b) /\ ValidBundle(b)
  BY UsablePlans
<1>2. ASSUME ~built.ok, built.error \in Refusals PROVE Consistent(built, b, args)
  <2>1. built.error # "invalid_plan"
    BY <1>2 DEF Refusals
  <2> HIDE DEF built, b
  <2> QED
    BY <1>2, <2>1 DEF Consistent
<1>3. ASSUME NEW c, NEW e, PlannedAs(b, c, e, args, built), built = Success(PlannedFor(b, c, e, args)),
             ValidPlan(PlannedFor(b, c, e, args)), e.command = c.path
      PROVE  Consistent(built, b, args)
  <2> DEFINE p == PlannedFor(b, c, e, args)
  <2>1. built.value = p /\ built.error = NoError /\ NoError # "invalid_plan"
    BY <1>3 DEF Success, NoError
  <2>2. p.source = b.catalog.source /\ p.output = e.wrapper.output /\ p.command = e.command
    BY DEF PlannedFor, PlanOf
  <2>3. p.source.path # Nil
    BY <1>1, <2>2, BundleParts DEF ValidCatalog
  <2>4. SourceRequest(p).ok
    <3> HIDE DEF p
    <3> QED
      BY <1>3, <2>3 DEF SourceRequest, Success, p
  <2>5. PlanTupleAdmitted(p) => ProcessorRequest(p).ok
    <3> HIDE DEF p
    <3> QED
      BY AdmittedProcessorRequest
  <2>6. PublishesEachField(p.output)
    <3> SUFFICES ASSUME e.wrapper.output # Nil, e.wrapper.output.projection # Nil
                 PROVE  Distinct(FinalNames(e.wrapper.output.projection))
      <4> HIDE DEF p
      <4> QED
        BY <2>2 DEF PublishesEachField
    <3>1. Surfaced(b, e, c)
      BY <1>3 DEF PlannedAs, Planned
    <3>2. e.wrapper \in WrapperType /\ ValidWrapper(e.wrapper, e.options, c)
      BY <3>1 DEF Surfaced
    <3>3. e.wrapper.output \in OutputType /\ ValidOutput(e.wrapper.output, c)
      <4> DEFINE w == e.wrapper
      <4>1. w.output \in PointerTo(OutputType)
        BY <3>2 DEF WrapperType
      <4> HIDE DEF w
      <4>2. w.output # Nil
        BY DEF w
      <4> QED
        BY <3>2, <4>1, <4>2 DEF ValidWrapper, ChangesNothing, PointerTo, w
    <3>4. e.wrapper.output.projection \in ProjectionType /\ ValidOutputPlan(e.wrapper.output.projection)
      BY <3>3 DEF OutputType, PointerTo, ValidOutput, ValidProjection
    <3> QED
      BY <3>4, NamesAreDistinct
  <2>7. p.command = Matched(b.catalog, args).path
    <3> HIDE DEF p, b, built
    <3> QED
      BY <1>3, <2>2 DEF PlannedAs
  <2> HIDE DEF p, built, b
  <2> QED
    BY <2>1, <2>4, <2>5, <2>6, <2>7 DEF Consistent
<1>4. ASSUME NEW c, NEW e, PlannedAs(b, c, e, args, built), built = Failure("invalid_plan"), e.command # c.path
      PROVE  Consistent(built, b, args)
  <2> DEFINE at == CommandAt(b.catalog, e.command)
  <2>1. ~built.ok
    BY <1>4 DEF Failure
  <2>2. SurfacedAs(b, args) = e.command
    <3> HIDE DEF b, built
    <3> QED
      BY <1>4 DEF SurfacedAs, PlannedAs
  <2>3. ASSUME at # Nil PROVE FALSE
    <3>1. b.catalog.commands \in SliceOf(CommandType) /\ ValidCatalog(b.catalog)
      BY <1>1, BundleParts
    <3>2. at \in ToSet(b.catalog.commands) /\ at.path = e.command
      BY <2>3, <3>1, CommandAtPath
    <3>3. Joined(e.command) = e.command
      <4> HIDE DEF at, b
      <4> QED
        BY <3>1, <3>2, CommandNamedByKey
    <3>4. Joined(e.command) = c.path
      BY <1>1, <1>4, SurfacedCommand DEF PlannedAs, Planned
    <3> QED
      BY <1>4, <3>3, <3>4
  <2> HIDE DEF built, b, at
  <2> QED
    BY <2>1, <2>2, <2>3 DEF Consistent, at
<1> HIDE DEF built, b
<1>5. \/ ~built.ok /\ built.error \in Refusals
      \/ \E c, e : PlannedAs(b, c, e, args, built)
  BY UsablePlans DEF built, b
<1>6. ASSUME NEW c, NEW e, PlannedAs(b, c, e, args, built) PROVE Consistent(built, b, args)
  BY <1>3, <1>4, <1>6 DEF PlannedAs
<1>7. Consistent(built, b, args)
  BY <1>2, <1>5, <1>6
<1> QED
  BY <1>7 DEF built, b

(* A plan of a usable bundle that its own checks refuse is one for a surface *)
(* entry with a blank in a segment of its path; every other refusal of an    *)
(* invocation is about the invocation.  A plan that is built names the       *)
(* cataloged path and has a request for the source runner, an admitted       *)
(* optimizer plan has one for the processor, and every planned projection    *)
(* has a name of its own for each field.                                     *)
THEOREM PlansStayConsistent == Spec => []PlansAreConsistent
<1>1. PlansAreConsistent
  BY PlansConsistent DEF PlansAreConsistent, JustAdopted
<1> QED
  BY <1>1, PTL

-----------------------------------------------------------------------------
(* What the source reads                                                   *)

Reading == STRING \X PointerTo(STRING)

LEMMA ArgumentFields ==
  ASSUME NEW a \in ArgumentType
  PROVE  /\ a.name \in STRING /\ a.value \in PointerTo(STRING)
         /\ a.kind \in {"word", "short", "long", "terminator"}
         /\ a = Terminator <=> a.kind = "terminator"
<1>1. CASE a \in [kind : {"word", "short"}, name : STRING, value : {Nil}]
  BY <1>1 DEF PointerTo, Terminator
<1>2. CASE a \in [kind : {"long"}, name : STRING, value : PointerTo(STRING)]
  BY <1>2 DEF Terminator
<1>3. CASE a \in [kind : {"terminator"}, name : {"--"}, value : {Nil}]
  BY <1>3, StringAssumption DEF PointerTo, Terminator
<1> QED
  BY <1>1, <1>2, <1>3 DEF ArgumentType

(* OptionsReadFrom is defined, place by place from the end.                  *)
LEMMA ReadingRule ==
  ASSUME NEW command, NEW args \in Seq(ArgumentType)
  PROVE  LET f == OptionsReadFrom(command, args)
         IN  \A i \in 1..(Len(args) + 2) :
                /\ f[i] \in Seq(Reading)
                /\ f[i] =
                     IF i > Len(args) THEN <<>>
                     ELSE IF args[i] = Terminator THEN <<>>
                     ELSE IF args[i].kind # "long" THEN f[i + 1]
                     ELSE IF args[i].value # Nil \/ ~TakesValue(command, args[i].name)
                     THEN <<<<args[i].name, args[i].value>>>> \o f[i + 1]
                     ELSE IF i = Len(args) THEN <<<<args[i].name, Nil>>>>
                     ELSE <<<<args[i].name, args[i + 1].name>>>> \o f[i + 2]
<1> DEFINE n == Len(args)
           V == Seq(Reading)
           Body(i, next, after) ==
             IF args[i] = Terminator THEN <<>>
             ELSE IF args[i].kind # "long" THEN next
             ELSE IF args[i].value # Nil \/ ~TakesValue(command, args[i].name)
             THEN <<<<args[i].name, args[i].value>>>> \o next
             ELSE IF i = Len(args) THEN <<<<args[i].name, Nil>>>>
             ELSE <<<<args[i].name, args[i + 1].name>>>> \o after
           step == [i \in 1..n |-> [v \in V \X V |-> Body(i, v[1], v[2])]]
           Rule(f) == [i \in 1..(n + 2) |-> IF i > n THEN <<>> ELSE Body(i, f[i + 1], f[i + 2])]
<1>1. n \in Nat /\ <<>> \in V
  OBVIOUS
<1>2. ASSUME NEW i \in 1..n, NEW next \in V, NEW after \in V PROVE Body(i, next, after) \in V
  <2>1. args[i].name \in STRING /\ args[i].value \in PointerTo(STRING)
    BY ArgumentFields
  <2>2. i # Len(args) => args[i + 1].name \in STRING
    <3>1. i # Len(args) => args[i + 1] \in ArgumentType
      OBVIOUS
    <3> QED
      BY <3>1, ArgumentFields
  <2>3. /\ <<<<args[i].name, args[i].value>>>> \in V /\ <<<<args[i].name, Nil>>>> \in V
        /\ i # Len(args) => <<<<args[i].name, args[i + 1].name>>>> \in V
    BY <2>1, <2>2 DEF Reading, PointerTo
  <2>4. \A s, u \in V : s \o u \in V
    OBVIOUS
  <2> HIDE DEF V
  <2> QED
    BY <1>1, <1>2, <2>3, <2>4
<1>3. step \in [1..n -> [V \X V -> V]]
  <2> HIDE DEF V, Body, n
  <2> QED
    BY <1>2
<1>4. PICK f : ComputesBack(f, n, V, <<>>, step)
  <2> HIDE DEF V, step, n
  <2> QED
    BY <1>1, <1>3, BackwardRecursion, Zenon
<1>5. \A i \in 1..n : f[i] = Body(i, f[i + 1], f[i + 2])
  <2> TAKE i \in 1..n
  <2>1. i + 1 \in 1..(n + 2) /\ i + 2 \in 1..(n + 2)
    OBVIOUS
  <2>2. f[i] = step[i][<<f[i + 1], f[i + 2]>>] /\ f[i + 1] \in V /\ f[i + 2] \in V
    <3> HIDE DEF V, step
    <3> QED
      BY <1>4, <2>1 DEF ComputesBack
  <2> HIDE DEF V, Body, n
  <2> QED
    BY <2>2
<1>6. f = Rule(f)
  <2> HIDE DEF V, Body, n
  <2>1. \A i \in 1..(n + 2) : f[i] = IF i > n THEN <<>> ELSE Body(i, f[i + 1], f[i + 2])
    <3> TAKE i \in 1..(n + 2)
    <3>1. i \in 1..n \/ i = n + 1 \/ i = n + 2
      BY <1>1
    <3> QED
      BY <1>1, <1>4, <1>5, <3>1 DEF ComputesBack
  <2>2. f = [i \in 1..(n + 2) |-> f[i]]
    BY <1>4 DEF ComputesBack
  <2> QED
    BY <2>1, <2>2
<1> DEFINE g == CHOOSE h : h = Rule(h)
<1>7. g = Rule(g)
  <2> HIDE DEF Rule
  <2> QED
    BY <1>6
<1>8. OptionsReadFrom(command, args) = g
  BY DEF OptionsReadFrom
<1>9. \A i \in 1..(n + 2) : g[i] = IF i > n THEN <<>> ELSE Body(i, g[i + 1], g[i + 2])
  <2> HIDE DEF g, Body, n
  <2> QED
    BY <1>7
<1>10. 1..(n + 2) \subseteq {i \in 1..(n + 2) : g[i] \in V}
  <2> HIDE DEF g, Body, V
  <2> DEFINE Good == {i \in 1..(n + 2) : g[i] \in V}
  <2>1. n + 1 \in Good /\ n + 2 \in Good
    BY <1>1, <1>9
  <2>2. \A i \in 1..n : i + 1 \in Good /\ i + 2 \in Good => i \in Good
    BY <1>1, <1>2, <1>9
  <2> HIDE DEF Good, n
  <2>3. 1..(n + 2) \subseteq Good
    BY <1>1, <2>1, <2>2, DownFrom
  <2> QED
    BY <2>3 DEF Good
<1> HIDE DEF g
<1> QED
  BY <1>8, <1>9, <1>10

(* The options named before the first terminator, from place i on.           *)
NamedFrom(args, i) ==
  {args[j].name : j \in {k \in i..Len(args) : args[k].kind = "long" /\ \A l \in i..k : args[l] # Terminator}}

LEMMA NamedFromOne ==
  ASSUME NEW args \in Seq(ArgumentType)
  PROVE  NamedFrom(args, 1) = ActiveNames(args)
<1>1. DOMAIN args = 1..Len(args)
  OBVIOUS
<1> QED
  BY <1>1 DEF NamedFrom, ActiveNames, Active

LEMMA NamedFromStep ==
  ASSUME NEW args \in Seq(ArgumentType), NEW i \in 1..Len(args)
  PROVE  NamedFrom(args, i) = IF args[i] = Terminator THEN {}
                              ELSE (IF args[i].kind = "long" THEN {args[i].name} ELSE {}) \cup NamedFrom(args, i + 1)
<1> DEFINE n == Len(args)
           At(j) == {k \in j..n : args[k].kind = "long" /\ \A l \in j..k : args[l] # Terminator}
<1>1. n \in Nat /\ i \in i..n
  OBVIOUS
<1>2. ASSUME args[i] = Terminator PROVE At(i) = {}
  <2>1. \A k \in i..n : i \in i..k
    OBVIOUS
  <2> HIDE DEF n
  <2> QED
    BY <1>2, <2>1
<1>3. ASSUME args[i] # Terminator
      PROVE  At(i) = (IF args[i].kind = "long" THEN {i} ELSE {}) \cup At(i + 1)
  <2>1. \A k \in i..n : /\ k = i \/ k \in (i + 1)..n
                        /\ \A l \in i..k : l = i \/ l \in (i + 1)..k
                        /\ \A l \in (i + 1)..k : l \in i..k
    OBVIOUS
  <2>2. \A k \in (i + 1)..n : k \in i..n /\ k # i
    OBVIOUS
  <2>3. \A l \in i..i : l = i
    OBVIOUS
  <2>4. \A k : k \in At(i) <=> (k = i /\ args[i].kind = "long") \/ k \in At(i + 1)
    <3> TAKE k
    <3>1. CASE k = i
      <4>1. i \notin (i + 1)..n
        OBVIOUS
      <4> HIDE DEF n
      <4> QED
        BY <1>1, <1>3, <2>3, <3>1, <4>1
    <3>2. CASE k # i
      <4> HIDE DEF n
      <4> QED
        BY <1>3, <2>1, <2>2, <3>2
    <3> QED
      BY <3>1, <3>2
  <2> HIDE DEF At
  <2> QED
    BY <2>4
<1>4. NamedFrom(args, i) = {args[k].name : k \in At(i)} /\ NamedFrom(args, i + 1) = {args[k].name : k \in At(i + 1)}
  BY DEF NamedFrom
<1> HIDE DEF At
<1> QED
  BY <1>2, <1>3, <1>4

(* What a reading names. *)
NamesIn(read) == {read[i][1] : i \in DOMAIN read}

LEMMA NamesInReading ==
  ASSUME NEW v \in Reading, NEW read \in Seq(Reading)
  PROVE  NamesIn(<<v>> \o read) = {v[1]} \cup NamesIn(read)
<1> DEFINE s == <<v>> \o read
<1>1. /\ s \in Seq(Reading) /\ Len(s) = 1 + Len(read)
      /\ s[1] = v /\ \A k \in 1..Len(read) : s[k + 1] = read[k]
  OBVIOUS
<1>2. DOMAIN s = 1..(1 + Len(read)) /\ DOMAIN read = 1..Len(read) /\ Len(read) \in Nat
  BY <1>1
<1> HIDE DEF s
<1>3. \A x : x \in NamesIn(s) <=> x = v[1] \/ x \in NamesIn(read)
  <2> TAKE x
  <2>1. ASSUME x \in NamesIn(s) PROVE x = v[1] \/ x \in NamesIn(read)
    <3>1. PICK j \in 1..(1 + Len(read)) : x = s[j][1]
      BY <1>2, <2>1 DEF NamesIn
    <3>2. j = 1 \/ (j - 1 \in 1..Len(read) /\ (j - 1) + 1 = j)
      BY <1>2
    <3>3. CASE j = 1
      BY <1>1, <3>1, <3>3
    <3>4. CASE j - 1 \in 1..Len(read) /\ (j - 1) + 1 = j
      <4>1. s[j] = read[j - 1]
        BY <1>1, <3>4
      <4> QED
        BY <1>2, <3>1, <3>4, <4>1 DEF NamesIn
    <3> QED
      BY <3>2, <3>3, <3>4
  <2>2. v[1] \in NamesIn(s)
    <3>1. 1 \in DOMAIN s
      BY <1>2
    <3> QED
      BY <1>1, <3>1 DEF NamesIn
  <2>3. ASSUME x \in NamesIn(read) PROVE x \in NamesIn(s)
    <3>1. PICK j \in 1..Len(read) : x = read[j][1]
      BY <1>2, <2>3 DEF NamesIn
    <3>2. j + 1 \in DOMAIN s /\ s[j + 1] = read[j]
      BY <1>1, <1>2
    <3> QED
      BY <3>1, <3>2 DEF NamesIn
  <2> QED
    BY <2>1, <2>2, <2>3
<1>4. NamesIn(s) = {v[1]} \cup NamesIn(read)
  BY <1>3
<1> QED
  BY <1>4 DEF s

(* From a place on which the options are read without error, the source     *)
(* reads the very options named there, each of them allowed.                 *)
LEMMA ReadsWhatIsNamed ==
  ASSUME NEW command, NEW surface, NEW args \in Seq(ArgumentType),
         OptionError(command, surface, args) = NoError
  PROVE  /\ NamesIn(OptionsRead(command, args)) = ActiveNames(args)
         /\ ActiveNames(args) \subseteq Allowed(surface, command)
<1> DEFINE n == Len(args)
           f == OptionErrors(command, surface, args)
           r == OptionsReadFrom(command, args)
           Good == {i \in 1..(n + 2) : f[i] = NoError => /\ NamesIn(r[i]) = NamedFrom(args, i)
                                                       /\ NamedFrom(args, i) \subseteq Allowed(surface, command)}
<1>1. n \in Nat
  OBVIOUS
<1>2. n + 1 \in Good /\ n + 2 \in Good
  <2>1. \A i \in {n + 1, n + 2} : i \in 1..(n + 2) /\ i > n
    BY <1>1
  <2>2. \A i \in {n + 1, n + 2} : r[i] = <<>>
    BY <2>1, ReadingRule
  <2>3. NamesIn(<<>>) = {}
    BY DEF NamesIn
  <2>4. \A i \in {n + 1, n + 2} : NamedFrom(args, i) = {}
    <3>1. \A i \in {n + 1, n + 2} : i..Len(args) = {}
      BY <1>1
    <3> QED
      BY <3>1 DEF NamedFrom
  <2> HIDE DEF n, f, r
  <2> QED
    BY <2>1, <2>2, <2>3, <2>4
<1>3. ASSUME NEW i \in 1..n, i + 1 \in Good, i + 2 \in Good PROVE i \in Good
  <2> DEFINE a == args[i]
  <2>1. SUFFICES ASSUME f[i] = NoError
                 PROVE  NamesIn(r[i]) = NamedFrom(args, i) /\ NamedFrom(args, i) \subseteq Allowed(surface, command)
    <3>1. i \in 1..(n + 2)
      BY <1>1
    <3> HIDE DEF f, r, n
    <3> QED
      BY <2>1, <3>1
  <2>2. i \in 1..(n + 2) /\ ~(i > n) /\ i \in 1..Len(args) /\ i + 1 \in 1..(n + 2) /\ i + 2 \in 1..(n + 2)
    BY <1>3
  <2>3. r[i] = IF a = Terminator THEN <<>>
               ELSE IF a.kind # "long" THEN r[i + 1]
               ELSE IF a.value # Nil \/ ~TakesValue(command, a.name)
               THEN <<<<a.name, a.value>>>> \o r[i + 1]
               ELSE IF i = Len(args) THEN <<<<a.name, Nil>>>>
               ELSE <<<<a.name, args[i + 1].name>>>> \o r[i + 2]
    BY <2>2, ReadingRule
  <2>4. r[i + 1] \in Seq(Reading) /\ r[i + 2] \in Seq(Reading)
    BY <2>2, ReadingRule
  <2>5. /\ f[i + 1] = NoError => /\ NamesIn(r[i + 1]) = NamedFrom(args, i + 1)
                                /\ NamedFrom(args, i + 1) \subseteq Allowed(surface, command)
        /\ f[i + 2] = NoError => /\ NamesIn(r[i + 2]) = NamedFrom(args, i + 2)
                                /\ NamedFrom(args, i + 2) \subseteq Allowed(surface, command)
    <3> HIDE DEF f, r, n
    <3> QED
      BY <1>3
  <2>6. NamedFrom(args, i) = IF a = Terminator THEN {}
                             ELSE (IF a.kind = "long" THEN {a.name} ELSE {}) \cup NamedFrom(args, i + 1)
    BY NamedFromStep
  <2>7. \/ a = Terminator
        \/ a # Terminator /\ a.kind = "word" /\ f[i + 1] = NoError
        \/ /\ a # Terminator /\ a.kind = "long" /\ a.name \in Allowed(surface, command)
           /\ TakesValue(command, a.name) <=> a.value # Nil
           /\ f[i + 1] = NoError
        \/ /\ a # Terminator /\ a.kind = "long" /\ a.value = Nil /\ a.name \in Allowed(surface, command)
           /\ TakesValue(command, a.name)
           /\ i < Len(args) /\ args[i + 1].kind = "word" /\ f[i + 2] = NoError
    <3> HIDE DEF f, n
    <3>1. f[i] = NoError
      BY <2>1
    <3> QED
      BY <2>2, <3>1, OptionRead DEF f
  <2>8. a.name \in STRING /\ a.value \in PointerTo(STRING)
    BY <2>2, ArgumentFields
  <2>9. ASSUME a = Terminator
        PROVE  NamesIn(r[i]) = NamedFrom(args, i) /\ NamedFrom(args, i) \subseteq Allowed(surface, command)
    <3>1. r[i] = <<>> /\ NamesIn(<<>>) = {} /\ NamedFrom(args, i) = {}
      <4> HIDE DEF r, a
      <4> QED
        BY <2>3, <2>6, <2>9 DEF NamesIn
    <3> QED
      BY <3>1
  <2>10. ASSUME a # Terminator, a.kind = "word", f[i + 1] = NoError
         PROVE  NamesIn(r[i]) = NamedFrom(args, i) /\ NamedFrom(args, i) \subseteq Allowed(surface, command)
    <3>1. r[i] = r[i + 1] /\ NamedFrom(args, i) = NamedFrom(args, i + 1)
      <4> HIDE DEF r, a
      <4> QED
        BY <2>3, <2>6, <2>10
    <3> HIDE DEF r, f
    <3> QED
      BY <2>5, <2>10, <3>1
  <2>11. ASSUME a # Terminator, a.kind = "long", a.name \in Allowed(surface, command),
                TakesValue(command, a.name) <=> a.value # Nil, f[i + 1] = NoError
         PROVE  NamesIn(r[i]) = NamedFrom(args, i) /\ NamedFrom(args, i) \subseteq Allowed(surface, command)
    <3>1. r[i] = <<<<a.name, a.value>>>> \o r[i + 1] /\ <<a.name, a.value>> \in Reading
      <4> HIDE DEF r, a
      <4> QED
        BY <2>3, <2>8, <2>11 DEF Reading
    <3>2. NamedFrom(args, i) = {a.name} \cup NamedFrom(args, i + 1)
      <4> HIDE DEF a
      <4> QED
        BY <2>6, <2>11
    <3>3. NamesIn(r[i]) = {a.name} \cup NamesIn(r[i + 1])
      <4> DEFINE v == <<a.name, a.value>>
      <4>1. v \in Reading /\ r[i] = <<v>> \o r[i + 1] /\ v[1] = a.name
        BY <3>1
      <4> HIDE DEF r, a, v
      <4> QED
        BY <2>4, <4>1, NamesInReading
    <3> HIDE DEF r, f, a
    <3> QED
      BY <2>5, <2>11, <3>2, <3>3
  <2>12. ASSUME a # Terminator, a.kind = "long", a.value = Nil, a.name \in Allowed(surface, command),
                TakesValue(command, a.name), i < Len(args), args[i + 1].kind = "word", f[i + 2] = NoError
         PROVE  NamesIn(r[i]) = NamedFrom(args, i) /\ NamedFrom(args, i) \subseteq Allowed(surface, command)
    <3>1. i + 1 \in 1..Len(args) /\ (i + 1) + 1 = i + 2 /\ i # Len(args)
      BY <2>2, <2>12
    <3>2. args[i + 1].name \in STRING /\ args[i + 1] # Terminator
      BY <2>12, <3>1, ArgumentFields
    <3> DEFINE v == <<a.name, args[i + 1].name>>
    <3>3. v \in Reading /\ v[1] = a.name
      BY <2>8, <3>2 DEF Reading, PointerTo
    <3>4. r[i] = <<v>> \o r[i + 2]
      <4> HIDE DEF r, a
      <4> QED
        BY <2>3, <2>12, <3>1
    <3>5. NamedFrom(args, i + 1) = NamedFrom(args, i + 2)
      <4>1. NamedFrom(args, i + 1) = {} \cup NamedFrom(args, (i + 1) + 1)
        BY <2>12, <3>1, <3>2, NamedFromStep
      <4> QED
        BY <3>1, <4>1
    <3>6. NamesIn(r[i]) = {a.name} \cup NamesIn(r[i + 2])
      <4> HIDE DEF r, a, v
      <4> QED
        BY <2>4, <3>3, <3>4, NamesInReading
    <3> HIDE DEF r, f, a
    <3> QED
      BY <2>5, <2>6, <2>12, <3>5, <3>6
  <2> HIDE DEF r, f, a, n
  <2> QED
    BY <2>7, <2>9, <2>10, <2>11, <2>12
<1>4. 1..(n + 2) \subseteq Good
  <2> HIDE DEF Good, n
  <2> QED
    BY <1>1, <1>2, <1>3, DownFrom
<1>5. 1 \in Good /\ f[1] = NoError
  <2>1. f[1] = NoError
    BY DEF OptionError
  <2> HIDE DEF Good, f
  <2> QED
    BY <1>1, <1>4, <2>1
<1>6. OptionsRead(command, args) = r[1]
  BY DEF OptionsRead
<1> HIDE DEF f, r, n
<1> QED
  BY <1>5, <1>6, NamedFromOne

LEMMA Associate ==
  ASSUME NEW T, NEW s \in Seq(T), NEW u \in Seq(T), NEW v \in Seq(T)
  PROVE  (s \o u) \o v = s \o (u \o v)
<1> DEFINE x == (s \o u) \o v
           y == s \o (u \o v)
<1>1. x \in Seq(T) /\ y \in Seq(T) /\ Len(x) = Len(y)
  OBVIOUS
<1>2. \A i \in 1..Len(x) : x[i] = y[i]
  OBVIOUS
<1>3. x = y
  <2> HIDE DEF x, y
  <2> QED
    BY <1>1, <1>2
<1> QED
  BY <1>3

LEMMA HeadOf ==
  ASSUME NEW T, NEW s \in Seq(T), NEW i \in 1..Len(s)
  PROVE  <<s[i]>> \o SubSeq(s, i + 1, Len(s)) = SubSeq(s, i, Len(s))
<1> DEFINE x == <<s[i]>> \o SubSeq(s, i + 1, Len(s))
           y == SubSeq(s, i, Len(s))
<1>1. x \in Seq(T) /\ y \in Seq(T) /\ Len(x) = Len(y)
  OBVIOUS
<1>2. \A k \in 1..Len(x) : x[k] = y[k]
  OBVIOUS
<1>3. x = y
  <2> HIDE DEF x, y
  <2> QED
    BY <1>1, <1>2
<1> QED
  BY <1>3

(* A reading does not depend on what is in front of it.                      *)
LEMMA ReadingShifts ==
  ASSUME NEW command, NEW s \in Seq(ArgumentType), NEW t \in Seq(ArgumentType)
  PROVE  OptionsReadFrom(command, s \o t)[Len(s) + 1] = OptionsRead(command, t)
<1> DEFINE u == s \o t
           m == Len(s)
           n == Len(t)
           r == OptionsReadFrom(command, u)
           q == OptionsReadFrom(command, t)
           Good == {k \in 1..(n + 2) : r[m + k] = q[k]}
<1>1. m \in Nat /\ n \in Nat /\ u \in Seq(ArgumentType) /\ Len(u) = m + n
  OBVIOUS
<1>2. \A k \in 1..n : u[m + k] = t[k]
  OBVIOUS
<1> HIDE DEF u, m, n
<1>3. \A i \in 1..(m + n + 2) :
         r[i] = IF i > m + n THEN <<>>
                ELSE IF u[i] = Terminator THEN <<>>
                ELSE IF u[i].kind # "long" THEN r[i + 1]
                ELSE IF u[i].value # Nil \/ ~TakesValue(command, u[i].name)
                THEN <<<<u[i].name, u[i].value>>>> \o r[i + 1]
                ELSE IF i = m + n THEN <<<<u[i].name, Nil>>>>
                ELSE <<<<u[i].name, u[i + 1].name>>>> \o r[i + 2]
  <2>1. \A i \in 1..(Len(u) + 2) :
           r[i] = IF i > Len(u) THEN <<>>
                  ELSE IF u[i] = Terminator THEN <<>>
                  ELSE IF u[i].kind # "long" THEN r[i + 1]
                  ELSE IF u[i].value # Nil \/ ~TakesValue(command, u[i].name)
                  THEN <<<<u[i].name, u[i].value>>>> \o r[i + 1]
                  ELSE IF i = Len(u) THEN <<<<u[i].name, Nil>>>>
                  ELSE <<<<u[i].name, u[i + 1].name>>>> \o r[i + 2]
    BY <1>1, ReadingRule
  <2> HIDE DEF r
  <2> QED
    BY <1>1, <2>1
<1>4. \A k \in 1..(n + 2) :
         q[k] = IF k > n THEN <<>>
                ELSE IF t[k] = Terminator THEN <<>>
                ELSE IF t[k].kind # "long" THEN q[k + 1]
                ELSE IF t[k].value # Nil \/ ~TakesValue(command, t[k].name)
                THEN <<<<t[k].name, t[k].value>>>> \o q[k + 1]
                ELSE IF k = n THEN <<<<t[k].name, Nil>>>>
                ELSE <<<<t[k].name, t[k + 1].name>>>> \o q[k + 2]
  BY ReadingRule DEF n
<1> HIDE DEF r, q
<1>5. n + 1 \in Good /\ n + 2 \in Good
  <2>1. \A k \in {n + 1, n + 2} : k \in 1..(n + 2) /\ k > n /\ m + k \in 1..(m + n + 2) /\ m + k > m + n
    BY <1>1
  <2>2. \A k \in {n + 1, n + 2} : r[m + k] = <<>> /\ q[k] = <<>>
    BY <1>3, <1>4, <2>1
  <2> QED
    BY <2>1, <2>2
<1>6. ASSUME NEW k \in 1..n, k + 1 \in Good, k + 2 \in Good PROVE k \in Good
  <2>1. k \in 1..(n + 2) /\ ~(k > n) /\ m + k \in 1..(m + n + 2) /\ ~(m + k > m + n)
    BY <1>1
  <2>2. (m + k) + 1 = m + (k + 1) /\ (m + k) + 2 = m + (k + 2) /\ (m + k = m + n <=> k = n)
    BY <1>1
  <2>3. r[m + (k + 1)] = q[k + 1] /\ r[m + (k + 2)] = q[k + 2]
    BY <1>6
  <2>4. u[m + k] = t[k] /\ (k # n => u[m + (k + 1)] = t[k + 1])
    <3>1. k # n => k + 1 \in 1..n
      BY <1>1
    <3> QED
      BY <1>2, <3>1
  <2>5. r[m + k] = IF u[m + k] = Terminator THEN <<>>
                   ELSE IF u[m + k].kind # "long" THEN r[m + (k + 1)]
                   ELSE IF u[m + k].value # Nil \/ ~TakesValue(command, u[m + k].name)
                   THEN <<<<u[m + k].name, u[m + k].value>>>> \o r[m + (k + 1)]
                   ELSE IF k = n THEN <<<<u[m + k].name, Nil>>>>
                   ELSE <<<<u[m + k].name, u[m + (k + 1)].name>>>> \o r[m + (k + 2)]
    BY <1>3, <2>1, <2>2
  <2>6. q[k] = IF t[k] = Terminator THEN <<>>
               ELSE IF t[k].kind # "long" THEN q[k + 1]
               ELSE IF t[k].value # Nil \/ ~TakesValue(command, t[k].name)
               THEN <<<<t[k].name, t[k].value>>>> \o q[k + 1]
               ELSE IF k = n THEN <<<<t[k].name, Nil>>>>
               ELSE <<<<t[k].name, t[k + 1].name>>>> \o q[k + 2]
    BY <1>4, <2>1
  <2>7. r[m + k] = q[k]
    BY <2>3, <2>4, <2>5, <2>6
  <2> QED
    BY <2>1, <2>7
<1>7. 1 \in Good
  <2> HIDE DEF Good
  <2>1. 1..(n + 2) \subseteq Good
    BY <1>1, <1>5, <1>6, DownFrom
  <2> QED
    BY <1>1, <2>1
<1> QED
  BY <1>7 DEF OptionsRead, r, q, u, m

(* What is read of words without error is not disturbed by what follows,     *)
(* and a terminator hides what follows.                                      *)
LEMMA ReadingAppends ==
  ASSUME NEW command, NEW surface, NEW s \in Seq(ArgumentType), NEW t \in Seq(ArgumentType),
         OptionError(command, surface, s) = NoError
  PROVE  OptionsRead(command, s \o t) =
           OptionsRead(command, s)
             \o (IF \A i \in DOMAIN s : s[i] # Terminator THEN OptionsRead(command, t) ELSE <<>>)
<1> DEFINE u == s \o t
           n == Len(s)
           N == Len(u)
           f == OptionErrors(command, surface, s)
           r == OptionsReadFrom(command, u)
           q == OptionsReadFrom(command, s)
           Open(i) == \A j \in i..n : s[j] # Terminator
           rest(i) == IF Open(i) THEN OptionsRead(command, t) ELSE <<>>
           Good == {i \in 1..(n + 2) : i <= n + 1 /\ f[i] = NoError => r[i] = q[i] \o rest(i)}
<1>1. n \in Nat /\ N \in Nat /\ n <= N /\ u \in Seq(ArgumentType) /\ DOMAIN s = 1..n
  OBVIOUS
<1>2. \A k \in 1..n : u[k] = s[k]
  OBVIOUS
<1>3. r[n + 1] = OptionsRead(command, t)
  BY ReadingShifts
<1>4. OptionsRead(command, t) \in Seq(Reading)
  <2>1. 1 \in 1..(Len(t) + 2)
    OBVIOUS
  <2> QED
    BY <2>1, ReadingRule DEF OptionsRead
<1> HIDE DEF u, n, N
<1>5. \A i \in 1..(N + 2) : /\ r[i] \in Seq(Reading)
                            /\ r[i] = IF i > N THEN <<>>
                                      ELSE IF u[i] = Terminator THEN <<>>
                                      ELSE IF u[i].kind # "long" THEN r[i + 1]
                                      ELSE IF u[i].value # Nil \/ ~TakesValue(command, u[i].name)
                                      THEN <<<<u[i].name, u[i].value>>>> \o r[i + 1]
                                      ELSE IF i = N THEN <<<<u[i].name, Nil>>>>
                                      ELSE <<<<u[i].name, u[i + 1].name>>>> \o r[i + 2]
  BY <1>1, ReadingRule DEF N
<1>6. \A i \in 1..(n + 2) : /\ q[i] \in Seq(Reading)
                            /\ q[i] = IF i > n THEN <<>>
                                      ELSE IF s[i] = Terminator THEN <<>>
                                      ELSE IF s[i].kind # "long" THEN q[i + 1]
                                      ELSE IF s[i].value # Nil \/ ~TakesValue(command, s[i].name)
                                      THEN <<<<s[i].name, s[i].value>>>> \o q[i + 1]
                                      ELSE IF i = n THEN <<<<s[i].name, Nil>>>>
                                      ELSE <<<<s[i].name, s[i + 1].name>>>> \o q[i + 2]
  BY ReadingRule DEF n
<1>12. \A a, b, c \in Seq(Reading) : (a \o b) \o c = a \o (b \o c)
  BY Associate
<1>7. n + 1 \in Good /\ n + 2 \in Good
  <2>1. n + 1 \in 1..(n + 2) /\ n + 1 > n /\ n + 2 \in 1..(n + 2) /\ ~(n + 2 <= n + 1) /\ (n + 1)..n = {}
    BY <1>1
  <2>2. q[n + 1] = <<>> /\ rest(n + 1) = OptionsRead(command, t)
    <3> HIDE DEF q
    <3> QED
      BY <1>6, <2>1
  <2>3. <<>> \o OptionsRead(command, t) = OptionsRead(command, t)
    BY <1>4
  <2> HIDE DEF r, q, f, rest
  <2> QED
    BY <1>3, <2>1, <2>2, <2>3
<1>8. ASSUME NEW i \in 1..n, i + 1 \in Good, i + 2 \in Good PROVE i \in Good
  <2>1. SUFFICES ASSUME f[i] = NoError PROVE r[i] = q[i] \o rest(i)
    <3>1. i \in 1..(n + 2)
      BY <1>1
    <3> HIDE DEF f, r, q, rest
    <3> QED
      BY <2>1, <3>1
  <2>2. /\ i \in 1..(n + 2) /\ ~(i > n) /\ i + 1 \in 1..(n + 2) /\ i + 2 \in 1..(n + 2)
        /\ i \in 1..(N + 2) /\ ~(i > N) /\ i + 1 \in 1..(N + 2) /\ i + 2 \in 1..(N + 2)
        /\ i + 1 <= n + 1 /\ (i < n => i + 2 <= n + 1 /\ i # n /\ i # N /\ i + 1 \in 1..n)
    BY <1>1
  <2>3. u[i] = s[i] /\ (i < n => u[i + 1] = s[i + 1])
    BY <1>2, <2>2
  <2>4. rest(i) \in Seq(Reading) /\ q[i + 1] \in Seq(Reading) /\ q[i + 2] \in Seq(Reading)
    <3>1. <<>> \in Seq(Reading)
      OBVIOUS
    <3> HIDE DEF q, Open
    <3> QED
      BY <1>4, <1>6, <2>2, <3>1
  <2>5. /\ f[i + 1] = NoError => r[i + 1] = q[i + 1] \o rest(i + 1)
        /\ i < n /\ f[i + 2] = NoError => r[i + 2] = q[i + 2] \o rest(i + 2)
    <3> HIDE DEF f, r, q, rest
    <3> QED
      BY <1>8, <2>2
  <2>6. \/ s[i] = Terminator
        \/ s[i] # Terminator /\ s[i].kind = "word" /\ f[i + 1] = NoError
        \/ /\ s[i] # Terminator /\ s[i].kind = "long"
           /\ TakesValue(command, s[i].name) <=> s[i].value # Nil
           /\ f[i + 1] = NoError
        \/ /\ s[i] # Terminator /\ s[i].kind = "long" /\ s[i].value = Nil
           /\ TakesValue(command, s[i].name)
           /\ i < n /\ s[i + 1].kind = "word" /\ f[i + 2] = NoError
    <3>1. f[i] = NoError /\ i \in 1..Len(s)
      BY <2>1 DEF n
    <3> HIDE DEF f
    <3> QED
      BY <3>1, OptionRead DEF f, n
  <2>7. s[i].name \in STRING /\ s[i].value \in PointerTo(STRING)
    <3>1. s[i] \in ArgumentType
      BY DEF n
    <3> QED
      BY <3>1, ArgumentFields
  <2>8. s[i] # Terminator => rest(i) = rest(i + 1)
    <3>1. \A j : j \in i..n <=> (j = i \/ j \in (i + 1)..n)
      BY <1>1
    <3>2. s[i] # Terminator => (Open(i) <=> Open(i + 1))
      BY <3>1
    <3> HIDE DEF Open
    <3> QED
      BY <3>2
  <2>9. ASSUME s[i] = Terminator PROVE r[i] = q[i] \o rest(i)
    <3>1. ~Open(i)
      <4>1. i \in i..n
        BY <1>1
      <4> QED
        BY <2>9, <4>1
    <3>2. rest(i) = <<>>
      <4> HIDE DEF Open
      <4> QED
        BY <3>1
    <3>3. r[i] = <<>> /\ q[i] = <<>>
      <4> HIDE DEF r, q
      <4> QED
        BY <1>5, <1>6, <2>2, <2>3, <2>9
    <3>4. <<>> \o <<>> = <<>>
      OBVIOUS
    <3> HIDE DEF r, q, rest
    <3> QED
      BY <3>2, <3>3, <3>4
  <2>10. ASSUME s[i] # Terminator, s[i].kind = "word", f[i + 1] = NoError PROVE r[i] = q[i] \o rest(i)
    <3>1. r[i] = r[i + 1] /\ q[i] = q[i + 1]
      <4> HIDE DEF r, q
      <4> QED
        BY <1>5, <1>6, <2>2, <2>3, <2>10
    <3> HIDE DEF r, q, rest, f
    <3> QED
      BY <2>5, <2>8, <2>10, <3>1
  <2>11. ASSUME s[i] # Terminator, s[i].kind = "long", TakesValue(command, s[i].name) <=> s[i].value # Nil,
                f[i + 1] = NoError
         PROVE  r[i] = q[i] \o rest(i)
    <3> DEFINE v == <<s[i].name, s[i].value>>
    <3>1. r[i] = <<v>> \o r[i + 1] /\ q[i] = <<v>> \o q[i + 1]
      <4> HIDE DEF r, q
      <4> QED
        BY <1>5, <1>6, <2>2, <2>3, <2>11
    <3>2. <<v>> \in Seq(Reading)
      BY <2>7 DEF Reading
    <3>3. r[i + 1] = q[i + 1] \o rest(i)
      <4> HIDE DEF r, q, rest, f
      <4> QED
        BY <2>5, <2>8, <2>11
    <3> HIDE DEF r, q, rest, v
    <3>6. (<<v>> \o q[i + 1]) \o rest(i) = <<v>> \o (q[i + 1] \o rest(i))
      BY <1>12, <2>4, <3>2
    <3> QED
      BY <3>1, <3>3, <3>6
  <2>12. ASSUME s[i] # Terminator, s[i].kind = "long", s[i].value = Nil, TakesValue(command, s[i].name),
                i < n, s[i + 1].kind = "word", f[i + 2] = NoError
         PROVE  r[i] = q[i] \o rest(i)
    <3> DEFINE v == <<s[i].name, s[i + 1].name>>
    <3>1. r[i] = <<v>> \o r[i + 2] /\ q[i] = <<v>> \o q[i + 2]
      <4> HIDE DEF r, q
      <4> QED
        BY <1>5, <1>6, <2>2, <2>3, <2>12
    <3>2. s[i + 1] # Terminator /\ s[i + 1].name \in STRING
      <4>1. s[i + 1] \in ArgumentType
        BY <2>2, <2>12 DEF n
      <4> QED
        BY <2>12, <4>1, ArgumentFields
    <3>3. <<v>> \in Seq(Reading)
      BY <2>7, <3>2 DEF Reading, PointerTo
    <3>4. rest(i + 1) = rest(i + 2)
      <4>1. \A j : j \in (i + 1)..n <=> (j = i + 1 \/ j \in (i + 2)..n)
        BY <1>1, <2>12
      <4>2. Open(i + 1) <=> Open(i + 2)
        BY <3>2, <4>1
      <4> HIDE DEF Open
      <4> QED
        BY <4>2
    <3>5. r[i + 2] = q[i + 2] \o rest(i)
      <4> HIDE DEF r, q, rest, f
      <4> QED
        BY <2>5, <2>8, <2>12, <3>4
    <3> HIDE DEF r, q, rest, v
    <3>6. (<<v>> \o q[i + 2]) \o rest(i) = <<v>> \o (q[i + 2] \o rest(i))
      BY <1>12, <2>4, <3>3
    <3> QED
      BY <3>1, <3>5, <3>6
  <2> HIDE DEF r, q, rest, f
  <2> QED
    BY <2>6, <2>9, <2>10, <2>11, <2>12
<1>9. 1 \in Good
  <2> HIDE DEF Good
  <2>1. 1..(n + 2) \subseteq Good
    BY <1>1, <1>7, <1>8, DownFrom
  <2> QED
    BY <1>1, <2>1
<1>10. f[1] = NoError /\ 1 <= n + 1
  BY <1>1 DEF OptionError
<1>11. r[1] = q[1] \o rest(1)
  <2> HIDE DEF f, r, q, rest
  <2> QED
    BY <1>9, <1>10
<1> QED
  BY <1>1, <1>11 DEF OptionsRead, u

(* The readings of a list of defaults.                                      *)
ReadingsOf(defaults) == [i \in DOMAIN defaults |-> <<defaults[i].option, defaults[i].value>>]

LEMMA DefaultWords ==
  ASSUME NEW defaults \in Seq(DefaultType)
  PROVE  /\ DefaultArguments(defaults) \in Seq(ArgumentType)
         /\ Len(DefaultArguments(defaults)) = Len(defaults)
         /\ ReadingsOf(defaults) \in Seq(Reading) /\ Len(ReadingsOf(defaults)) = Len(defaults)
         /\ \A i \in 1..Len(defaults) :
               /\ DefaultArguments(defaults)[i] = Inline(defaults[i].option, defaults[i].value)
               /\ ReadingsOf(defaults)[i] = <<defaults[i].option, defaults[i].value>>
               /\ defaults[i].value # Nil
<1>1. DOMAIN defaults = 1..Len(defaults) /\ Len(defaults) \in Nat
  OBVIOUS
<1>2. \A i \in 1..Len(defaults) : defaults[i].option \in STRING /\ defaults[i].value \in STRING
  <2>1. \A i \in 1..Len(defaults) : defaults[i] \in DefaultType
    OBVIOUS
  <2> QED
    BY <2>1 DEF DefaultType
<1>3. \A i \in 1..Len(defaults) : Inline(defaults[i].option, defaults[i].value) \in ArgumentType
  BY <1>2 DEF Inline, ArgumentType, PointerTo
<1>4. \A i \in 1..Len(defaults) : <<defaults[i].option, defaults[i].value>> \in Reading
  BY <1>2 DEF Reading, PointerTo
<1>5. \A i \in 1..Len(defaults) : defaults[i].value # Nil
  BY <1>2, NilAssumption
<1>6. DefaultArguments(defaults) \in Seq(ArgumentType) /\ Len(DefaultArguments(defaults)) = Len(defaults)
  BY <1>1, <1>3 DEF DefaultArguments
<1>7. ReadingsOf(defaults) \in Seq(Reading) /\ Len(ReadingsOf(defaults)) = Len(defaults)
  BY <1>1, <1>4 DEF ReadingsOf
<1> QED
  BY <1>1, <1>5, <1>6, <1>7 DEF DefaultArguments, ReadingsOf

(* Defaults in front of an argument vector are read one by one, each with   *)
(* its own value, and what follows is read as it is without them.           *)
LEMMA ReadingDefaults ==
  ASSUME NEW command, NEW defaults \in Seq(DefaultType), NEW t \in Seq(ArgumentType)
  PROVE  OptionsRead(command, DefaultArguments(defaults) \o t) = ReadingsOf(defaults) \o OptionsRead(command, t)
<1> DEFINE D == DefaultArguments(defaults)
           P == ReadingsOf(defaults)
           m == Len(defaults)
           u == D \o t
           r == OptionsReadFrom(command, u)
           R == OptionsRead(command, t)
           Good == {i \in 1..(m + 2) : i <= m + 1 => r[i] = SubSeq(P, i, m) \o R}
<1>1. /\ m \in Nat /\ D \in Seq(ArgumentType) /\ Len(D) = m /\ P \in Seq(Reading) /\ Len(P) = m
      /\ \A i \in 1..m : /\ D[i] = Inline(defaults[i].option, defaults[i].value)
                         /\ P[i] = <<defaults[i].option, defaults[i].value>>
                         /\ defaults[i].value # Nil
  BY DefaultWords
<1>2. R \in Seq(Reading)
  <2>1. 1 \in 1..(Len(t) + 2)
    OBVIOUS
  <2> QED
    BY <2>1, ReadingRule DEF OptionsRead
<1>3. r[m + 1] = R
  <2> HIDE DEF D
  <2> QED
    BY <1>1, ReadingShifts
<1> HIDE DEF D, P, m, R
<1>4. u \in Seq(ArgumentType) /\ m <= Len(u) /\ Len(u) \in Nat /\ \A i \in 1..m : u[i] = D[i]
  BY <1>1
<1>5. ASSUME NEW i \in 1..m PROVE r[i] = <<P[i]>> \o r[i + 1]
  <2>1. /\ u[i].kind = "long" /\ u[i] # Terminator /\ u[i].value # Nil
        /\ <<u[i].name, u[i].value>> = P[i]
    <3> HIDE DEF u
    <3>1. /\ u[i] = Inline(defaults[i].option, defaults[i].value)
          /\ P[i] = <<defaults[i].option, defaults[i].value>> /\ defaults[i].value # Nil
      BY <1>1, <1>4
    <3>2. /\ u[i].kind = "long" /\ u[i].name = defaults[i].option /\ u[i].value = defaults[i].value
          /\ Terminator.kind = "terminator"
      BY <3>1 DEF Inline, Terminator
    <3> QED
      BY <3>1, <3>2
  <2>2. i \in 1..(Len(u) + 2) /\ ~(i > Len(u))
    <3> HIDE DEF u
    <3> QED
      BY <1>1, <1>4
  <2>3. r[i] = <<<<u[i].name, u[i].value>>>> \o r[i + 1]
    <3> HIDE DEF u
    <3> QED
      BY <1>4, <2>1, <2>2, ReadingRule
  <2> HIDE DEF u, r
  <2> QED
    BY <2>1, <2>3
<1>6. \A a, b, c \in Seq(Reading) : (a \o b) \o c = a \o (b \o c)
  BY Associate
<1> HIDE DEF u, r
<1>7. m + 1 \in Good /\ m + 2 \in Good
  <2>1. SubSeq(P, m + 1, m) \o R = R
    BY <1>1, <1>2
  <2>2. m + 1 \in 1..(m + 2) /\ m + 2 \in 1..(m + 2) /\ ~(m + 2 <= m + 1)
    BY <1>1
  <2> QED
    BY <1>3, <2>1, <2>2
<1>8. ASSUME NEW i \in 1..m, i + 1 \in Good, i + 2 \in Good PROVE i \in Good
  <2>1. i + 1 <= m + 1 /\ i \in 1..(m + 2)
    BY <1>1
  <2>2. r[i + 1] = SubSeq(P, i + 1, m) \o R
    BY <1>8, <2>1
  <2>3. P[i] \in Reading /\ <<P[i]>> \in Seq(Reading)
    BY <1>1
  <2>4. SubSeq(P, i + 1, m) \in Seq(Reading)
    BY <1>1
  <2>5. <<P[i]>> \o (SubSeq(P, i + 1, m) \o R) = (<<P[i]>> \o SubSeq(P, i + 1, m)) \o R
    BY <1>2, <1>6, <2>3, <2>4
  <2>6. <<P[i]>> \o SubSeq(P, i + 1, m) = SubSeq(P, i, m)
    BY <1>1, HeadOf
  <2> QED
    BY <1>5, <2>1, <2>2, <2>5, <2>6
<1>9. 1 \in Good
  <2> HIDE DEF Good
  <2>1. 1..(m + 2) \subseteq Good
    BY <1>1, <1>7, <1>8, DownFrom
  <2> QED
    BY <1>1, <2>1
<1>10. SubSeq(P, 1, m) = P
  <2> DEFINE x == SubSeq(P, 1, m)
  <2>1. x \in Seq(Reading) /\ Len(x) = Len(P)
    BY <1>1
  <2>2. \A i \in 1..Len(P) : x[i] = P[i]
    BY <1>1
  <2>3. x = P
    <3> HIDE DEF x
    <3> QED
      BY <1>1, <2>1, <2>2
  <2> QED
    BY <2>3
<1>11. r[1] = P \o R
  <2>1. 1 <= m + 1
    BY <1>1
  <2> QED
    BY <1>9, <1>10, <2>1
<1> QED
  BY <1>11 DEF OptionsRead, D, P, R, r, u

LEMMA WordsAreArguments ==
  ASSUME NEW path \in Seq(StableNames)
  PROVE  Words(path) \in Seq(ArgumentType) /\ Len(Words(path)) = Len(path)
<1>1. \A i \in 1..Len(path) : path[i] \in STRING
  <2>1. StableNames \subseteq STRING
    BY AlphabetAssumption DEF StableNames, ToSet
  <2>2. \A i \in 1..Len(path) : path[i] \in StableNames
    OBVIOUS
  <2> QED
    BY <2>1, <2>2
<1>2. \A i \in 1..Len(path) : Word(path[i]) \in ArgumentType
  BY <1>1 DEF Word, ArgumentType
<1>3. DOMAIN path = 1..Len(path) /\ Len(path) \in Nat
  OBVIOUS
<1> QED
  BY <1>2, <1>3 DEF Words

(* What follows a command path.                                             *)
LEMMA TailAfterPath ==
  ASSUME NEW path \in Seq(StableNames), NEW t \in Seq(ArgumentType)
  PROVE  CallerTail(path, Words(path) \o t) = t
<1> DEFINE W == Words(path)
           m == Len(path)
           x == SubSeq(W \o t, m + 1, Len(W \o t))
<1>1. m \in Nat /\ DOMAIN path = 1..m
  OBVIOUS
<1>3. W \in Seq(ArgumentType) /\ Len(W) = m
  BY WordsAreArguments
<1> HIDE DEF W, m
<1>4. x \in Seq(ArgumentType) /\ Len(x) = Len(t)
  BY <1>1, <1>3
<1>5. \A i \in 1..Len(t) : x[i] = t[i]
  BY <1>1, <1>3
<1>6. x = t
  <2> HIDE DEF x
  <2> QED
    BY <1>4, <1>5
<1> QED
  BY <1>6 DEF CallerTail, W, m

(* A plan in terms of what the source reads of it.                          *)
LEMMA PlannedReading ==
  ASSUME NEW b, BundleDecodes(b), ValidBundle(b), NEW e, NEW c, NEW args \in Seq(ArgumentType),
         Planned(b, c, e, args), e.command = c.path
  PROVE  ReadAsPlanned(PlannedFor(b, c, e, args), c, args)
<1> DEFINE p == PlannedFor(b, c, e, args)
           D == e.wrapper.defaults
           A == e.wrapper.append
           tail == CallerTail(c.path, args)
           read == OptionsRead(c, tail)
           left == AppliedDefaults(D, tail)
           W == Words(c.path)
           open == \A i \in DOMAIN tail : tail[i] # Terminator
           after == IF open THEN OptionsRead(c, A) ELSE <<>>
<1>1. /\ Surfaced(b, e, c) /\ IsPrefix(W, args) /\ OptionError(c, e.options, tail) = NoError
  BY DEF Planned
<1>2. /\ c.path \in Seq(StableNames) /\ e.command = c.path
      /\ D \in Seq(DefaultType) /\ A \in Seq(ArgumentType)
  BY <1>1, SurfacedCommand
<1>3. /\ p.command = c.path /\ p.defaults = D /\ p.append = A /\ p.options = e.options
      /\ p.args = ((W \o DefaultArguments(left)) \o tail) \o A
  BY <1>2 DEF PlannedFor, PlanOf, Transformed
<1>4. tail \in Seq(ArgumentType)
  BY <1>1, <1>2, TailPoints
<1>5. left \in Seq(DefaultType)
  <2> HIDE DEF D, tail
  <2> QED
    BY <1>2, FilterElements DEF AppliedDefaults
<1> HIDE DEF p, D, A, tail
<1>6. NamesIn(read) = ActiveNames(tail) /\ ActiveNames(tail) \subseteq Allowed(e.options, c)
  BY <1>1, <1>4, ReadsWhatIsNamed
<1>7. {o[1] : o \in ToSet(read)} = ActiveNames(tail)
  <2> HIDE DEF read
  <2>1. {o[1] : o \in ToSet(read)} = NamesIn(read)
    BY DEF ToSet, NamesIn
  <2> QED
    BY <1>6, <2>1
<1>8. Filter(D, {d \in ToSet(D) : d.option \notin ActiveNames(tail)}) = left
  BY DEF AppliedDefaults
<1>9. W \in Seq(ArgumentType) /\ DefaultArguments(left) \in Seq(ArgumentType)
  <2>2. W \in Seq(ArgumentType)
    BY <1>2, WordsAreArguments
  <2> HIDE DEF left
  <2> QED
    BY <1>5, <2>2, DefaultWords
<1> HIDE DEF left, W
<1>10. \A x, y, z \in Seq(ArgumentType) : (x \o y) \o z = x \o (y \o z)
  BY Associate
<1>11. p.args = W \o (DefaultArguments(left) \o (tail \o A))
  <2> DEFINE L == DefaultArguments(left)
  <2>1. L \in Seq(ArgumentType)
    BY <1>9
  <2>2. p.args = ((W \o L) \o tail) \o A
    BY <1>3
  <2> HIDE DEF L
  <2>3. (W \o L) \in Seq(ArgumentType) /\ (tail \o A) \in Seq(ArgumentType)
    BY <1>2, <1>4, <1>9, <2>1
  <2>4. ((W \o L) \o tail) \o A = (W \o L) \o (tail \o A)
    BY <1>2, <1>4, <1>10, <2>3, Zenon
  <2>5. (W \o L) \o (tail \o A) = W \o (L \o (tail \o A))
    <3>1. W \in Seq(ArgumentType)
      BY <1>9
    <3> QED
      BY <1>10, <2>1, <2>3, <3>1, Zenon
  <2> QED
    BY <2>2, <2>4, <2>5 DEF L
<1>12. CallerTail(c.path, p.args) = DefaultArguments(left) \o (tail \o A)
  <2> DEFINE x == DefaultArguments(left) \o (tail \o A)
  <2>1. x \in Seq(ArgumentType)
    BY <1>2, <1>4, <1>9
  <2>2. p.args = Words(c.path) \o x
    BY <1>11 DEF W
  <2> HIDE DEF x
  <2>3. CallerTail(c.path, Words(c.path) \o x) = x
    BY <1>2, <2>1, TailAfterPath
  <2> QED
    BY <2>2, <2>3 DEF x
<1>13. OptionsRead(c, DefaultArguments(left) \o (tail \o A)) = ReadingsOf(left) \o OptionsRead(c, tail \o A)
  <2>1. tail \o A \in Seq(ArgumentType)
    BY <1>2, <1>4
  <2> QED
    BY <1>5, <2>1, ReadingDefaults
<1>14. OptionsRead(c, tail \o A) = read \o after
  BY <1>1, <1>2, <1>4, ReadingAppends
<1>15. ReadingsOf(left) \o (read \o after) = (ReadingsOf(left) \o read) \o after
  <2>1. \A x \in Seq(ArgumentType) : OptionsRead(c, x) \in Seq(Reading)
    <3> TAKE x \in Seq(ArgumentType)
    <3>1. 1 \in 1..(Len(x) + 2)
      OBVIOUS
    <3> QED
      BY <3>1, ReadingRule DEF OptionsRead
  <2>2. <<>> \in Seq(Reading)
    OBVIOUS
  <2>3. read \in Seq(Reading) /\ after \in Seq(Reading)
    <3> HIDE DEF open
    <3> QED
      BY <1>2, <1>4, <2>1, <2>2
  <2>4. ReadingsOf(left) \in Seq(Reading)
    BY <1>5, DefaultWords
  <2>5. \A x, y, z \in Seq(Reading) : (x \o y) \o z = x \o (y \o z)
    BY Associate
  <2> HIDE DEF read, after
  <2> QED
    BY <2>3, <2>4, <2>5
<1>16. OptionsRead(c, CallerTail(c.path, p.args)) = (ReadingsOf(left) \o read) \o after
  <2> HIDE DEF read, after
  <2> QED
    BY <1>12, <1>13, <1>14, <1>15
<1>17. CallerTail(p.command, args) = tail /\ CallerTail(p.command, p.args) = CallerTail(c.path, p.args)
  BY <1>3 DEF tail
<1>18. ReadAsPlanned(p, c, args)
  <2>1. ReadingsOf(left) = [i \in DOMAIN left |-> <<left[i].option, left[i].value>>]
    BY DEF ReadingsOf
  <2> QED
    BY <1>3, <1>6, <1>7, <1>8, <1>16, <1>17, <2>1, Zenon DEF ReadAsPlanned
<1> QED
  BY <1>18 DEF p

(* What the source reads of a planned invocation is the defaults whose      *)
(* option the caller left out, then what the caller gave, all of it         *)
(* allowed, then what the wrapper appends.                                  *)
THEOREM OptionsStayEffective == Spec => []EffectiveOptions
<1>1. ASSUME JustAdopted, NEW args \in Attempts PROVE ReadByTheSource(PlanFor(args), args)
  <2> DEFINE b == bundleFile.bundle
             built == PlanFor(args)
  <2>1. SUFFICES ASSUME built.ok PROVE ReadAsPlanned(built.value, CommandAt(b.catalog, built.value.command), args)
    <3> HIDE DEF built, b
    <3>1. ReadByTheSource(built, args)
      BY <2>1 DEF ReadByTheSource, b
    <3> QED
      BY <3>1 DEF built
  <2>2. Usable.ok
    BY <1>1 DEF JustAdopted
  <2> HIDE DEF b, built
  <2>3. /\ BundleDecodes(b) /\ ValidBundle(b) /\ args \in Seq(ArgumentType)
        /\ \/ ~built.ok /\ built.error \in Refusals
           \/ \E c, e : PlannedAs(b, c, e, args, built)
    BY <2>2, UsablePlans DEF b, built
  <2>4. PICK c, e : /\ Planned(b, c, e, args) /\ built = Success(PlannedFor(b, c, e, args))
                    /\ e.command = c.path
    BY <2>1, <2>3 DEF PlannedAs, Failure
  <2>5. built.value = PlannedFor(b, c, e, args)
    BY <2>4 DEF Success
  <2>6. CommandAt(b.catalog, c.path) = c
    BY <2>3, <2>4, SurfacedCommand DEF Planned
  <2>7. built.value.command = c.path
    BY <2>4, <2>5 DEF PlannedFor, PlanOf
  <2>8. ReadAsPlanned(PlannedFor(b, c, e, args), c, args)
    BY <2>3, <2>4, PlannedReading
  <2> QED
    BY <2>5, <2>6, <2>7, <2>8
<1>2. EffectiveOptions
  BY <1>1 DEF EffectiveOptions
<1> QED
  BY <1>2, PTL

-----------------------------------------------------------------------------
(* Drafts *)

(* A specification of one command.                                           *)
LEMMA SingleEntry ==
  ASSUME NEW s, NEW e, s.commands = <<e>>
  PROVE  /\ ToSet(s.commands) = {e} /\ Optimizers(s) = OptimizerOf(e)
         /\ DOMAIN s.commands = {1} /\ Len(s.commands) = 1 /\ s.commands[1] = e
         /\ \A path : EntryOf(s, path) = IF Joined(e.command) = Joined(path) THEN e ELSE Nil
<1>1. DOMAIN s.commands = {1} /\ Len(s.commands) = 1 /\ s.commands[1] = e
  <2>1. DOMAIN <<e>> = 1..1 /\ Len(<<e>>) = 1 /\ <<e>>[1] = e
    OBVIOUS
  <2>2. 1..1 = {1}
    OBVIOUS
  <2> QED
    BY <2>1, <2>2
<1>2. ToSet(s.commands) = {e}
  BY <1>1 DEF ToSet
<1>3. Optimizers(s) = OptimizerOf(e)
  BY <1>2 DEF Optimizers
<1>4. ASSUME NEW path PROVE EntryOf(s, path) = IF Joined(e.command) = Joined(path) THEN e ELSE Nil
  <2> DEFINE of == {i \in DOMAIN s.commands : Joined(s.commands[i].command) = Joined(path)}
             newest(i) == \A j \in of : j <= i
  <2>1. EntryOf(s, path) = IF of = {} THEN Nil ELSE s.commands[CHOOSE i \in of : newest(i)]
    BY DEF EntryOf
  <2>2. of = IF Joined(e.command) = Joined(path) THEN {1} ELSE {}
    BY <1>1
  <2>3. ASSUME of = {1} PROVE (CHOOSE i \in of : newest(i)) = 1
    <3>1. newest(1)
      BY <2>3
    <3> HIDE DEF newest, of
    <3> QED
      BY <2>3, <3>1
  <2> HIDE DEF of, newest
  <2> QED
    BY <1>1, <2>1, <2>2, <2>3
<1> QED
  BY <1>1, <1>2, <1>3, <1>4

(* What a function with an unchanged field needs to be what it was.          *)
Whole(r) == r = [field \in DOMAIN r |-> r[field]]

(* An entry whose every list is written out is read as it was written.      *)
Explained(e) ==
  /\ e = [command |-> e.command, presence |-> e.presence, reason |-> e.reason,
          options |-> InheritAll, wrapper |-> e.wrapper]
  /\ e.wrapper = [kind |-> e.wrapper.kind, before |-> <<>>, defaults |-> <<>>,
                  append |-> e.wrapper.append, after |-> <<>>, output |-> e.wrapper.output]
  /\ e.wrapper.append # Nil
  /\ e.wrapper.output = Nil \/ e.wrapper.output.projection = Nil

LEMMA ExplainedConverts ==
  ASSUME NEW e, Explained(e)
  PROVE  ConvertCommand(e) = e /\ DefaultsWritten(e)
<1> DEFINE w == e.wrapper
<1>1. Explicit(<<>>) = <<>> /\ Explicit(w.append) = w.append
  BY DEF Explicit, Explained
<1>2. ConvertOutput(w.output) = w.output
  BY DEF ConvertOutput, Explained
<1>9. Whole(InheritAll) /\ InheritAll.include = <<>> /\ InheritAll.exclude = <<>>
  BY DEF Whole, InheritAll
<1>3. [InheritAll EXCEPT !.include = Explicit(@), !.exclude = Explicit(@)] = InheritAll
  BY <1>1, <1>9 DEF Whole
<1>4. [w EXCEPT !.before = Explicit(@), !.append = Explicit(@),
                !.after = Explicit(@), !.output = ConvertOutput(@)] = w
  <2>1. Whole(w) /\ w.before = <<>> /\ w.after = <<>>
    <3> DEFINE k == w.kind
               a == w.append
               o == w.output
    <3>1. w = [kind |-> k, before |-> <<>>, defaults |-> <<>>, append |-> a, after |-> <<>>, output |-> o]
      BY DEF Explained
    <3> HIDE DEF w, k, a, o
    <3> QED
      BY <3>1 DEF Whole
  <2> HIDE DEF w
  <2> QED
    BY <1>1, <1>2, <2>1 DEF Whole
<1>5. e.options = InheritAll
  BY DEF Explained
<1>6. ConvertCommand(e) = e
  <2>2. ConvertOptions(e.options) = e.options
    BY <1>3, <1>5 DEF ConvertOptions
  <2>3. ConvertWrapper(w) = w
    <3> HIDE DEF w
    <3> QED
      BY <1>4 DEF ConvertWrapper
  <2>4. Whole(e)
    <3> DEFINE c == e.command
               p == e.presence
               r == e.reason
    <3>1. e = [command |-> c, presence |-> p, reason |-> r, options |-> InheritAll, wrapper |-> w]
      BY DEF Explained
    <3> HIDE DEF c, p, r, w
    <3> QED
      BY <3>1 DEF Whole
  <2> QED
    BY <2>2, <2>3, <2>4 DEF ConvertCommand, Whole
<1>8. DefaultsWritten(e)
  <2>1. w.defaults = <<>>
    BY DEF Explained
  <2> HIDE DEF w
  <2> QED
    BY <2>1, EmptyList DEF DefaultsWritten, w
<1> QED
  BY <1>6, <1>8

(* The draft of one command, and what the loader makes of it.                *)
DraftOf(digest, e) == [schema |-> 5, catalogDigest |-> digest, default |-> "exclude", commands |-> <<e>>]

LEMMA DraftIsRead ==
  ASSUME NEW digest, NEW e, Explained(e)
  PROVE  LET d == DraftOf(digest, e)
         IN  /\ Encoded(d) = d /\ SortSpecification(d) = d
             /\ [d EXCEPT !.commands = [i \in DOMAIN @ |-> ConvertCommand(@[i])]] = d
             /\ \A c \in ToSet(d.commands) : DefaultsWritten(c)
<1> DEFINE d == DraftOf(digest, e)
<1>1. ConvertCommand(e) = e /\ DefaultsWritten(e)
  BY ExplainedConverts
<1>2. d.commands = <<e>>
  BY DEF DraftOf
<1>3. ToSet(d.commands) = {e}
  BY <1>2, SingleEntry
<1>4. Whole(d)
  BY DEF DraftOf, Whole
<1>5. [d EXCEPT !.commands = [i \in DOMAIN @ |-> ConvertCommand(@[i])]] = d
  <2> DEFINE Converted(list) == [i \in DOMAIN list |-> ConvertCommand(list[i])]
  <2>1. Converted(<<e>>) = <<e>>
    <3>1. DOMAIN <<e>> = {1} /\ <<e>>[1] = e /\ <<e>> = [i \in {1} |-> e]
      <4>1. DOMAIN <<e>> = 1..1 /\ <<e>>[1] = e /\ 1..1 = {1}
        OBVIOUS
      <4>2. <<e>> = [i \in 1..1 |-> e]
        OBVIOUS
      <4> QED
        BY <4>1, <4>2
    <3> QED
      BY <1>1, <3>1
  <2>2. [d EXCEPT !.commands = Converted(@)] = d
    <3> HIDE DEF Converted, d
    <3> QED
      BY <1>2, <1>4, <2>1 DEF Whole
  <2> QED
    BY <2>2
<1>6. SortSpecification(d) = d
  <2> DEFINE Ordered(x) == IF x.options = Nil THEN x
                           ELSE [x EXCEPT !.options.include = SortNames(@), !.options.exclude = SortNames(@)]
             ordered == [i \in DOMAIN d.commands |-> Ordered(d.commands[i])]
  <2>1. SortNames(<<>>) = <<>>
    BY DEF SortNames, SortedBy
  <2>2. Ordered(e) = e
    <3>3. Whole(e) /\ Whole(e.options) /\ e.options.include = <<>> /\ e.options.exclude = <<>>
      <4>1. e.options = InheritAll
        BY DEF Explained
      <4> DEFINE c == e.command
                 p == e.presence
                 r == e.reason
                 w == e.wrapper
      <4>2. e = [command |-> c, presence |-> p, reason |-> r, options |-> InheritAll, wrapper |-> w]
        BY DEF Explained
      <4>3. Whole(InheritAll) /\ InheritAll.include = <<>> /\ InheritAll.exclude = <<>>
        BY DEF Whole, InheritAll
      <4> HIDE DEF c, p, r, w
      <4> QED
        BY <4>1, <4>2, <4>3 DEF Whole
    <3>4. [e EXCEPT !.options.include = SortNames(@)] = e
      BY <2>1, <3>3 DEF Whole
    <3>5. [e EXCEPT !.options.exclude = SortNames(@)] = e
      BY <2>1, <3>3 DEF Whole
    <3>6. [e EXCEPT !.options.include = SortNames(@), !.options.exclude = SortNames(@)] = e
      BY <3>4, <3>5
    <3> QED
      BY <3>6
  <2>3. ordered = <<e>>
    <3>1. DOMAIN d.commands = {1} /\ d.commands[1] = e
      BY <1>2, SingleEntry
    <3>2. <<e>> = [i \in {1} |-> e]
      <4>1. 1..1 = {1} /\ <<e>> = [i \in 1..1 |-> e]
        OBVIOUS
      <4> QED
        BY <4>1
    <3> HIDE DEF Ordered, d
    <3> QED
      BY <2>2, <3>1, <3>2
  <2>4. SortedBy(<<e>>, LAMBDA a, b : PathBefore(Joined(a.command), Joined(b.command))) = <<e>>
    BY DEF SortedBy
  <2>5. SortSpecification(d) = [d EXCEPT !.commands = SortedBy(ordered, LAMBDA a, b : PathBefore(Joined(a.command), Joined(b.command)))]
    BY DEF SortSpecification
  <2>6. [d EXCEPT !.commands = SortedBy(ordered, LAMBDA a, b : PathBefore(Joined(a.command), Joined(b.command)))]
          = [d EXCEPT !.commands = <<e>>]
    <3> HIDE DEF ordered, d
    <3> QED
      BY <2>3, <2>4
  <2>7. [d EXCEPT !.commands = <<e>>] = d
    <3> HIDE DEF d
    <3> QED
      BY <1>2, <1>4 DEF Whole
  <2> QED
    BY <2>5, <2>6, <2>7
<1>7. Encoded(d) = d
  BY <1>5 DEF Encoded
<1> QED
  BY <1>1, <1>3, <1>5, <1>6, <1>7

PassWrapper == [kind |-> "transform", before |-> <<>>, defaults |-> <<>>,
                append |-> <<JsonFlag>>, after |-> <<>>, output |-> PassOptimizer]
PassEntry == [command |-> GoTest, presence |-> "include", reason |-> "default", options |-> InheritAll,
              wrapper |-> PassWrapper]

(* What spec init drafted, when it drafted anything.                         *)
LEMMA DraftOutcome ==
  ASSUME NEW path, NEW observed \in BOOLEAN,
         NEW drafted, drafted = DraftFrom(LoadCatalog, LoadObservation, path, observed), drafted.ok
  PROVE  LET e == IF observed THEN PassEntry ELSE IdentityEntry(path)
             d == DraftOf(catalogFile.digest, e)
         IN  /\ LoadCatalog.ok /\ drafted = Success(d)
             /\ CommandNamed(LoadCatalog.value, path) # Nil
             /\ ValidSpecification(d, LoadCatalog.value)
             /\ observed => /\ LoadObservation.ok /\ path = GoTest
                            /\ GoTestCataloged(LoadCatalog.value)
                            /\ ObservationAdmitted(LoadObservation.value)
                            /\ OptimizerOf(PassEntry) # {}
<1> DEFINE C == LoadCatalog.value
           default == DefaultEntry(C, LoadObservation.value)
           e == IF observed THEN default.value ELSE IdentityEntry(path)
           d == DraftOf(catalogFile.digest, e)
<1>1. \A error : ~Failure(error).ok
  BY DEF Failure
<1>2. drafted = IF ~LoadCatalog.ok THEN LoadCatalog
                ELSE IF CommandError(C, path) # NoError THEN Failure(CommandError(C, path))
                ELSE IF observed /\ ~LoadObservation.ok THEN LoadObservation
                ELSE IF observed /\ ~default.ok THEN Failure("processor_default_not_admitted")
                ELSE IF observed /\ ~ValidProcessorDefault(e, path) THEN Failure("invalid_processor_default")
                ELSE IF ~ValidSpecification(d, C) THEN Failure("invalid_specification_draft")
                ELSE Success(d)
  BY DEF DraftFrom, DraftOf
<1>3. /\ LoadCatalog.ok /\ CommandError(C, path) = NoError /\ drafted = Success(d)
      /\ ValidSpecification(d, C)
      /\ observed => LoadObservation.ok /\ default.ok /\ ValidProcessorDefault(e, path)
  <2> HIDE DEF C, default, e, d
  <2> QED
    BY <1>1, <1>2
<1>4. observed => /\ GoTestCataloged(C) /\ ObservationAdmitted(LoadObservation.value)
                  /\ default = Success(PassEntry)
  <2> HIDE DEF C
  <2>1. DefaultEntry(C, LoadObservation.value) =
          IF ~GoTestCataloged(C) THEN Failure("source_tuple")
          ELSE IF ~ObservationAdmitted(LoadObservation.value) THEN Failure("observation")
          ELSE Success(PassEntry)
    BY DEF DefaultEntry, PassEntry, PassWrapper
  <2> QED
    BY <1>1, <1>3, <2>1
<1>5. e = IF observed THEN PassEntry ELSE IdentityEntry(path)
  <2> HIDE DEF default
  <2> QED
    BY <1>4 DEF Success
<1>6. CommandNamed(C, path) # Nil
  <2> HIDE DEF C
  <2> QED
    BY <1>3 DEF CommandError, NoError
<1>7. observed => path = GoTest /\ OptimizerOf(PassEntry) # {}
  <2>1. PassEntry.command = GoTest
    BY DEF PassEntry
  <2> HIDE DEF e
  <2> QED
    BY <1>3, <1>5, <2>1 DEF ValidProcessorDefault
<1> HIDE DEF C, default, e
<1> QED
  BY <1>3, <1>4, <1>5, <1>6, <1>7 DEF C

(* The entry of a valid draft has its lists written out.                    *)
LEMMA DraftsAreExplained ==
  ASSUME NEW digest, NEW catalog, NEW path,
         NEW e \in {IdentityEntry(path), PassEntry}, ValidSpecification(DraftOf(digest, e), catalog)
  PROVE  Explained(e)
<1>1. ValidEntry(e, catalog)
  <2>1. DraftOf(digest, e).commands = <<e>>
    BY DEF DraftOf
  <2>2. 1 \in DOMAIN DraftOf(digest, e).commands /\ DraftOf(digest, e).commands[1] = e
    BY <2>1, SingleEntry
  <2> QED
    BY <2>2 DEF ValidSpecification
<1>2. e.presence = "include"
  BY DEF IdentityEntry, PassEntry
<1>3. e.wrapper.append # Nil
  BY <1>1, <1>2 DEF ValidEntry, ValidWrapper
<1>4. CASE e = IdentityEntry(path)
  <2>1. /\ e.command = path /\ e.reason = "included" /\ e.options = InheritAll /\ e.wrapper = Identity
    BY <1>4 DEF IdentityEntry
  <2>2. e = [command |-> e.command, presence |-> e.presence, reason |-> e.reason,
             options |-> InheritAll, wrapper |-> e.wrapper]
    <3> HIDE DEF IdentityEntry
    <3> QED
      BY <1>2, <1>4, <2>1 DEF IdentityEntry
  <2>3. Identity = [kind |-> Identity.kind, before |-> <<>>, defaults |-> <<>>,
                    append |-> Identity.append, after |-> <<>>, output |-> Identity.output]
        /\ Identity.output = Nil
    BY DEF Identity
  <2> QED
    BY <1>3, <2>1, <2>2, <2>3 DEF Explained
<1>5. CASE e = PassEntry
  <2>1. /\ e.command = GoTest /\ e.reason = "default" /\ e.options = InheritAll /\ e.wrapper = PassWrapper
    BY <1>5 DEF PassEntry
  <2>2. e = [command |-> e.command, presence |-> e.presence, reason |-> e.reason,
             options |-> InheritAll, wrapper |-> e.wrapper]
    BY <1>2, <1>5, <2>1 DEF PassEntry
  <2>3. PassWrapper = [kind |-> PassWrapper.kind, before |-> <<>>, defaults |-> <<>>,
                       append |-> PassWrapper.append, after |-> <<>>, output |-> PassWrapper.output]
        /\ PassWrapper.output.projection = Nil
    BY DEF PassWrapper, PassOptimizer
  <2> QED
    BY <1>3, <2>1, <2>2, <2>3 DEF Explained
<1> QED
  BY <1>4, <1>5

(* What the loader of the specification makes of a stored draft.             *)
LEMMA DraftIsLoaded ==
  ASSUME NEW digest, NEW e, Explained(e), specificationFile = DraftOf(digest, e), specificationFile # Nil
  PROVE  LoadSpecification = Success(DraftOf(digest, e))
<1> DEFINE d == DraftOf(digest, e)
<1>1. /\ SortSpecification(d) = d
      /\ [d EXCEPT !.commands = [i \in DOMAIN @ |-> ConvertCommand(@[i])]] = d
      /\ \A c \in ToSet(d.commands) : DefaultsWritten(c)
  BY DraftIsRead
<1>2. d.schema = 5 /\ 5 \notin 1..4
  BY DEF DraftOf
<1> HIDE DEF d
<1>3. specificationFile = d
  BY DEF d
<1>4. LoadSpecification = Success(SortSpecification(
            [specificationFile EXCEPT !.commands = [i \in DOMAIN @ |-> ConvertCommand(@[i])]]))
  BY <1>1, <1>2, <1>3 DEF LoadSpecification
<1>5. LoadSpecification = Success(SortSpecification(d))
  BY <1>1, <1>3, <1>4
<1> QED
  BY <1>1, <1>5 DEF d

(* The commands of a loaded catalog.                                         *)
LEMMA LoadedCatalog ==
  ASSUME LoadCatalog.ok
  PROVE  LET C == LoadCatalog.value
         IN  /\ C = catalogFile.catalog /\ LoadCatalog = Success(C) /\ C.commands \in SliceOf(CommandType)
             /\ CatalogDigest(C) # NoDigest /\ catalogFile.digest = CatalogDigest(C) /\ ValidCatalog(C)
             /\ catalogFile # Nil
<1> DEFINE file == catalogFile.catalog
           digest == CatalogDigest(file)
<1>1. LoadCatalog = IF catalogFile = Nil THEN Failure("catalog_file_not_found")
                    ELSE IF file.commands \notin SliceOf(CommandType) \/ digest = NoDigest
                    THEN Failure("invalid_catalog_file")
                    ELSE IF catalogFile.digest # digest THEN Failure("catalog_digest_mismatch")
                    ELSE Success(file)
  BY DEF LoadCatalog
<1>2. \A error : ~Failure(error).ok
  BY DEF Failure
<1>3. /\ file.commands \in SliceOf(CommandType) /\ digest # NoDigest /\ catalogFile.digest = digest
      /\ LoadCatalog = Success(file) /\ catalogFile # Nil
  <2> HIDE DEF file, digest
  <2> QED
    BY <1>1, <1>2
<1>4. LoadCatalog.value = file
  BY <1>3 DEF Success
<1>5. ValidCatalog(file)
  BY <1>3, DigestedCatalog
<1> HIDE DEF file
<1> QED
  BY <1>3, <1>4, <1>5 DEF file

LEMMA LoadedObservation ==
  ASSUME LoadObservation.ok
  PROVE  LoadObservation = Success(observationFile) /\ LoadObservation.value = observationFile
         /\ observationFile # Nil
<1>1. \A error : ~Failure(error).ok
  BY DEF Failure
<1>2. LoadObservation = Success(observationFile) /\ observationFile # Nil
  BY <1>1 DEF LoadObservation
<1> QED
  BY <1>2 DEF Success

(* What compiling valid parts gives is a valid bundle, with a digest.        *)
CompiledOf(catalog, s, bindings) ==
  [schema |-> 4, catalogDigest |-> CatalogDigest(catalog), catalog |-> catalog,
   specificationDigest |-> SpecificationDigest(s, catalog), specification |-> s,
   processors |-> bindings, surface |-> DerivedSurface(catalog, s)]

LEMMA ValidPartsCompile ==
  ASSUME NEW catalog, NEW s, NEW bindings, CatalogDigest(catalog) # NoDigest,
         ValidSpecification(s, catalog), ValidBindings(s, bindings)
  PROVE  LET b == CompiledOf(catalog, s, bindings)
         IN  /\ Compile(catalog, s, bindings) = Success(b)
             /\ ValidBundle(b) /\ BundleDigest(b) # NoDigest
             /\ b.catalog = catalog /\ b.processors = bindings /\ b.surface = DerivedSurface(catalog, s)
<1> DEFINE b == CompiledOf(catalog, s, bindings)
<1>1. Compile(catalog, s, bindings) = Success(b)
  BY Zenon DEF Compile, CompiledOf
<1>2. SpecificationDigest(s, catalog) # NoDigest
  <2>1. SpecificationDigest(s, catalog) = <<s>>
    BY DEF SpecificationDigest
  <2> QED
    BY <2>1 DEF NoDigest
<1>3. /\ b.schema = 4 /\ b.catalogDigest = CatalogDigest(catalog) /\ b.catalog = catalog
      /\ b.specificationDigest = SpecificationDigest(s, catalog) /\ b.specification = s
      /\ b.processors = bindings /\ b.surface = DerivedSurface(catalog, s)
  BY DEF CompiledOf
<1> HIDE DEF b
<1>4. ValidBundle(b)
  BY <1>2, <1>3, Zenon DEF ValidBundle
<1>5. BundleDigest(b) # NoDigest
  BY <1>4 DEF BundleDigest, NoDigest
<1> QED
  BY <1>1, <1>3, <1>4, <1>5 DEF b

(* The strings of the registry's entry are those of the command it is for.   *)
LEMMA PassEntryType ==
  ASSUME NEW catalog, catalog.commands \in SliceOf(CommandType), GoTestCataloged(catalog)
  PROVE  /\ PassEntry \in EntryType /\ PassEntry # Nil
         /\ PassEntry.command = GoTest /\ PassEntry.presence = "include" /\ PassEntry.reason = "default"
         /\ PassEntry.options = InheritAll /\ PassEntry.wrapper = PassWrapper
         /\ <<JsonFlag>> \in Seq(ArgumentType)
<1> DEFINE c == CommandAt(catalog, GoTest)
<1>1. /\ ValidCatalog(catalog) /\ c # Nil /\ ExactTestOutput(c.structured)
  BY DEF GoTestCataloged
<1>2. c \in CommandType /\ ValidCommand(c) /\ c.path = GoTest
  <2>1. c \in ToSet(catalog.commands) /\ c.path = GoTest
    BY <1>1, CommandAtPath
  <2> QED
    BY <1>1, <2>1, CatalogCommands
<1> HIDE DEF c
<1>3. GoTest \in Seq(STRING) /\ c.structured \in Seq(StructuredType)
  <2>1. c.path \in Seq(STRING)
    BY <1>2 DEF CommandType
  <2> QED
    BY <1>2, <2>1, CommandFields
<1>4. JsonFlag.name \in STRING
  <2>1. Len(c.structured) = 1 /\ c.structured[1].selector = JsonFlag.name
    BY <1>1 DEF ExactTestOutput
  <2>2. c.structured[1] \in StructuredType
    BY <1>3, <2>1
  <2> QED
    BY <2>1, <2>2 DEF StructuredType
<1>5. JsonFlag \in ArgumentType
  <2>1. JsonFlag = [kind |-> "short", name |-> JsonFlag.name, value |-> Nil]
    BY DEF JsonFlag, Short
  <2> HIDE DEF JsonFlag
  <2> QED
    BY <1>4, <2>1 DEF ArgumentType
<1>6. <<JsonFlag>> \in Seq(ArgumentType)
  BY <1>5
<1>7. PassOptimizer \in OutputType
  BY StringAssumption DEF PassOptimizer, OutputType, OptimizerType, PointerTo, PassContract
<1>8. PassWrapper \in WrapperType
  <2>1. /\ <<>> \in SliceOf(ActionType) /\ <<>> \in SliceOf(DefaultType)
        /\ <<JsonFlag>> \in SliceOf(ArgumentType) /\ PassOptimizer \in PointerTo(OutputType)
    BY <1>6, <1>7, EmptyIsList DEF SliceOf, PointerTo
  <2> QED
    BY <2>1, StringAssumption DEF PassWrapper, WrapperType
<1>9. InheritAll \in OptionSurfaceType
  BY <1>2, InheritedEntry
<1>10. PassEntry \in EntryType
  <2>1. PassWrapper \in PointerTo(WrapperType) /\ InheritAll \in PointerTo(OptionSurfaceType)
    BY <1>8, <1>9 DEF PointerTo
  <2> HIDE DEF GoTest, InheritAll, PassWrapper
  <2> QED
    BY <1>3, <2>1, StringAssumption DEF PassEntry, EntryType
<1>11. PassEntry # Nil
  BY <1>10, NilEntryAssumption
<1>12. /\ PassEntry.command = GoTest /\ PassEntry.presence = "include" /\ PassEntry.reason = "default"
       /\ PassEntry.options = InheritAll /\ PassEntry.wrapper = PassWrapper
  BY DEF PassEntry
<1> QED
  BY <1>6, <1>10, <1>11, <1>12

(* The surface of the registry's draft is its one entry.                     *)
LEMMA PassSurface ==
  ASSUME NEW catalog, catalog.commands \in SliceOf(CommandType), GoTestCataloged(catalog), NEW digest
  PROVE  LET surface == DerivedSurface(catalog, DraftOf(digest, PassEntry))
         IN  /\ Len(surface) = 1 /\ surface[1].command = GoTest
             /\ surface[1].options = InheritAll /\ surface[1].wrapper = PassWrapper
<1> DEFINE C == catalog.commands
           s == DraftOf(digest, PassEntry)
           Included(c) == /\ c.provenance = "verified_builtin"
                          /\ IF EntryOf(s, c.path) = Nil THEN s.default = "inherit"
                             ELSE EntryOf(s, c.path).presence = "include"
           Entry(c) ==
             IF EntryOf(s, c.path) = Nil
             THEN [command |-> c.path, reason |-> "inherited", options |-> InheritAll, wrapper |-> Identity]
             ELSE [command |-> EntryOf(s, c.path).command, reason |-> EntryOf(s, c.path).reason,
                   options |-> EntryOf(s, c.path).options, wrapper |-> EntryOf(s, c.path).wrapper]
           kept == Filter(C, {c \in ToSet(C) : Included(c)})
           test == CommandAt(catalog, GoTest)
<1>1. DerivedSurface(catalog, s) = [i \in DOMAIN kept |-> Entry(kept[i])]
  BY DEF DerivedSurface
<1>2. s.commands = <<PassEntry>> /\ s.default = "exclude"
  BY DEF DraftOf
<1>3. /\ PassEntry # Nil /\ PassEntry.command = GoTest /\ PassEntry.presence = "include"
      /\ PassEntry.options = InheritAll /\ PassEntry.wrapper = PassWrapper
  BY PassEntryType
<1>4. /\ ValidCatalog(catalog) /\ test # Nil /\ test.provenance = "verified_builtin"
  BY DEF GoTestCataloged
<1>5. \A c \in ToSet(C) : EntryOf(s, c.path) = IF c.path = GoTest THEN PassEntry ELSE Nil
  <2> TAKE c \in ToSet(C)
  <2>1. EntryOf(s, c.path) = IF Joined(GoTest) = Joined(c.path) THEN PassEntry ELSE Nil
    <3> HIDE DEF s
    <3> QED
      BY <1>2, <1>3, SingleEntry
  <2>2. Joined(GoTest) = GoTest /\ Joined(c.path) = c.path
    <3>1. test \in ToSet(C) /\ test.path = GoTest
      BY <1>4, CommandAtPath
    <3> HIDE DEF test
    <3> QED
      BY <1>4, <3>1, CommandNamedByKey
  <2> HIDE DEF s
  <2> QED
    BY <2>1, <2>2
<1>6. /\ C \in Seq(CommandType)
      /\ \A i, j \in DOMAIN C : C[i].path = C[j].path => i = j
      /\ test \in ToSet(C) /\ test.path = GoTest
  BY <1>4, CatalogCommands, CommandAtPath
<1> HIDE DEF s, test
<1>7. \A c \in ToSet(C) : Included(c) <=> c.provenance = "verified_builtin" /\ c.path = GoTest
  BY <1>2, <1>3, <1>5
<1>8. PICK p \in DOMAIN C : C[p] = test
  <2> HIDE DEF C
  <2> QED
    BY <1>6 DEF ToSet
<1>9. kept = <<test>>
  <2> DEFINE S == {c \in ToSet(C) : Included(c)}
  <2>1. C[p] \in S
    <3> HIDE DEF Included, C
    <3> QED
      BY <1>4, <1>6, <1>7, <1>8
  <2>2. \A i \in 1..Len(C) : C[i] \in S => i = p
    <3>1. \A i \in 1..Len(C) : C[i] \in S => C[i].path = GoTest
      <4>1. \A c \in S : c \in ToSet(C) /\ Included(c)
        OBVIOUS
      <4> HIDE DEF Included, C, S
      <4> QED
        BY <1>7, <4>1
    <3>2. DOMAIN C = 1..Len(C)
      BY <1>6
    <3> HIDE DEF S, C
    <3> QED
      BY <1>6, <1>8, <3>1, <3>2
  <2>3. p \in 1..Len(C)
    BY <1>6, <1>8
  <2> HIDE DEF S, C
  <2>4. Filter(C, S) = <<C[p]>>
    BY <1>6, <2>1, <2>2, <2>3, FilterOne
  <2> QED
    BY <1>8, <2>4 DEF S
<1>10. Entry(test) = [command |-> GoTest, reason |-> PassEntry.reason, options |-> InheritAll, wrapper |-> PassWrapper]
  BY <1>3, <1>5, <1>6
<1>11. [i \in DOMAIN kept |-> Entry(kept[i])] = <<Entry(test)>>
  <2>1. DOMAIN kept = 1..1 /\ kept[1] = test
    <3> HIDE DEF kept
    <3> QED
      BY <1>9
  <2> HIDE DEF kept, Entry
  <2>2. \A i \in 1..1 : Entry(kept[i]) = Entry(test)
    <3>1. \A i \in 1..1 : i = 1
      OBVIOUS
    <3> QED
      BY <2>1, <3>1
  <2>3. [i \in 1..1 |-> Entry(kept[i])] = [i \in 1..1 |-> Entry(test)]
    BY <2>2
  <2>4. [i \in 1..1 |-> Entry(test)] = <<Entry(test)>>
    OBVIOUS
  <2> QED
    BY <2>1, <2>3, <2>4
<1> DEFINE x == Entry(test)
<1>12. x.command = GoTest /\ x.options = InheritAll /\ x.wrapper = PassWrapper
  <2> HIDE DEF Entry
  <2> QED
    BY <1>10
<1>13. DerivedSurface(catalog, s) = <<x>>
  <2> HIDE DEF Entry, kept
  <2> QED
    BY <1>1, <1>11
<1> HIDE DEF x
<1>14. Len(<<x>>) = 1 /\ <<x>>[1] = x
  OBVIOUS
<1> QED
  BY <1>12, <1>13, <1>14 DEF s

(* The binding of an admitted observation is valid, and binds the draft.     *)
LEMMA PassBinding ==
  ASSUME NEW o, ObservationAdmitted(o), NEW digest, NEW catalog,
         catalog.commands \in SliceOf(CommandType), GoTestCataloged(catalog),
         ValidSpecification(DraftOf(digest, PassEntry), catalog),
         OptimizerOf(PassEntry) # {}, Nil # <<CanonicalBinding(o)>>
  PROVE  /\ BindingOf(o) = Success(CanonicalBinding(o))
         /\ ValidBindings(DraftOf(digest, PassEntry), <<CanonicalBinding(o)>>)
         /\ Optimizers(DraftOf(digest, PassEntry)) # {}
<1> DEFINE b == CanonicalBinding(o)
           d == DraftOf(digest, PassEntry)
           p == PassOptimizer.optimizer
<1>1. /\ b.contract = PassContract /\ b.observation = o /\ b.input = "go_test_jsonl"
      /\ b.output = "go_test_pass_summary" /\ b.allowOriginal = TRUE
      /\ b.execution.args = <<Word("pipe"), Inline("filter", "go-test")>>
      /\ b.execution.stdin = "stage_input" /\ b.execution.directory = "isolated"
      /\ b.execution.environment = "rtk_isolated" /\ b.execution.attempts = 1
      /\ b.execution.bounds = Limit.execution
  BY DEF CanonicalBinding
<1>2. p.input = "go_test_jsonl" /\ p.contract = PassContract
  BY DEF PassOptimizer
<1>3. /\ PassEntry # Nil /\ PassEntry.command = GoTest /\ PassEntry.presence = "include"
      /\ PassEntry.wrapper = PassWrapper
  BY PassEntryType
<1>4. OptimizerOf(PassEntry) = {p}
  <2>1. PassWrapper.output = PassOptimizer
    BY DEF PassWrapper
  <2> HIDE DEF p
  <2> QED
    BY <1>3, <2>1 DEF OptimizerOf, p
<1>5. d.commands = <<PassEntry>>
  BY DEF DraftOf
<1>6. Optimizers(d) = {p}
  <2> HIDE DEF d, p
  <2> QED
    BY <1>4, <1>5, SingleEntry
<1>7. PassContract \in StableNames /\ "go_test_jsonl" \in StableNames
  <2>1. ValidEntry(PassEntry, catalog)
    <3>1. 1 \in DOMAIN d.commands /\ d.commands[1] = PassEntry
      BY <1>5, SingleEntry
    <3> QED
      BY <3>1 DEF ValidSpecification
  <2>2. ValidWrapper(PassWrapper, PassEntry.options, CommandNamed(catalog, GoTest))
    BY <1>3, <2>1 DEF ValidEntry
  <2>3. PassWrapper.output = PassOptimizer /\ PassWrapper.kind = "transform"
    BY DEF PassWrapper
  <2>4. PassOptimizer # Nil
    <3>1. OptimizerOf(PassEntry) # {} /\ PassEntry.wrapper.output = PassOptimizer
      BY <1>3, <2>3
    <3> QED
      BY <3>1 DEF OptimizerOf
  <2>5. ValidOutput(PassOptimizer, CommandNamed(catalog, GoTest))
    BY <2>2, <2>3, <2>4 DEF ValidWrapper
  <2>6. PassOptimizer.kind = "optimizer"
    BY DEF PassOptimizer
  <2>7. ValidOptimizer(p, CommandNamed(catalog, GoTest))
    BY <2>5, <2>6 DEF ValidOutput
  <2> QED
    BY <1>2, <2>7 DEF ValidOptimizer, StableName
<1>8. o.image # Nil /\ o.environment = "rtk_isolated"
  BY DEF ObservationAdmitted
<1>9. /\ Len(b.execution.args) \in 1..Limit.processorArguments
      /\ \A i \in DOMAIN b.execution.args : ValidArgument(b.execution.args[i])
  <2> DEFINE args == <<Word("pipe"), Inline("filter", "go-test")>>
  <2>1. Len(args) = 2 /\ DOMAIN args = 1..2 /\ args[1] = Word("pipe") /\ args[2] = Inline("filter", "go-test")
    OBVIOUS
  <2>2. Limit.processorArguments \in Nat /\ Limit.processorArguments >= 2
    BY LimitAssumption, RegistryAssumption
  <2>3. ValidArgument(Word("pipe")) /\ ValidArgument(Inline("filter", "go-test"))
    <3>1. Nil # "control" /\ Nil # "oversized" /\ Nil # FullText
      <4>1. "control" \in STRING /\ "oversized" \in STRING /\ FullText \in STRING
        BY StringAssumption
      <4> QED
        BY <4>1, NilAssumption
    <3> QED
      BY <3>1 DEF ValidArgument, Word, Inline, FullText
  <2>4. \A i \in 1..2 : i = 1 \/ i = 2
    OBVIOUS
  <2> HIDE DEF args, b
  <2>5. b.execution.args = args
    BY <1>1 DEF args
  <2>6. \A i \in 1..2 : ValidArgument(args[i])
    BY <2>1, <2>3, <2>4
  <2>7. Len(b.execution.args) = 2 /\ 2 \in 1..Limit.processorArguments
    BY <2>1, <2>2, <2>5
  <2>8. DOMAIN b.execution.args = 1..2
    BY <2>1, <2>5
  <2> QED
    BY <2>5, <2>6, <2>7, <2>8
<1>10. Limit.execution \in 1..Limit.execution
  BY LimitAssumption
<1> HIDE DEF b
<1>11. ValidBinding(b)
  BY <1>1, <1>7, <1>8, <1>9, <1>10, RegistryAssumption DEF ValidBinding, StableName
<1>12. BindingOf(o) = Success(b)
  BY <1>11 DEF BindingOf, b
<1>13. DOMAIN <<b>> = {1} /\ Len(<<b>>) = 1 /\ <<b>>[1] = b /\ ToSet(<<b>>) = {b}
  <2>1. DOMAIN <<b>> = 1..1 /\ Len(<<b>>) = 1 /\ <<b>>[1] = b /\ 1..1 = {1}
    OBVIOUS
  <2> QED
    BY <2>1 DEF ToSet
<1> HIDE DEF d, p
<1>14. Bounded(<<b>>, Limit.bindings)
  <2>1. Limit.bindings \in Nat \ {0}
    BY LimitAssumption
  <2>2. Len(<<b>>) <= Limit.bindings
    BY <1>13, <2>1
  <2>3. <<b>> # Nil
    BY DEF b
  <2> QED
    BY <2>2, <2>3 DEF Bounded
<1>15. SortedUnique([i \in DOMAIN <<b>> |-> <<b>>[i].contract])
  <2> DEFINE names == [i \in DOMAIN <<b>> |-> <<b>>[i].contract]
  <2>1. Len(names) = 1
    <3>1. DOMAIN <<b>> = 1..1
      OBVIOUS
    <3> QED
      BY <3>1
  <2> HIDE DEF names
  <2>2. SortedUnique(names)
    BY <2>1 DEF SortedUnique
  <2> QED
    BY <2>2 DEF names
<1>16. {<<x.contract, x.input>> : x \in ToSet(<<b>>)} = {<<x.contract, x.input>> : x \in Optimizers(d)}
  BY <1>1, <1>2, <1>6, <1>13
<1>17. ValidBindings(d, <<b>>)
  <2>1. \A i \in DOMAIN <<b>> : ValidBinding(<<b>>[i])
    BY <1>11, <1>13
  <2>2. \A x, y \in Optimizers(d) : x.contract = y.contract => x.input = y.input
    BY <1>6
  <2> QED
    BY <1>14, <1>15, <1>16, <2>1, <2>2 DEF ValidBindings
<1> QED
  BY <1>6, <1>12, <1>17 DEF b, d

(* A bundle of the registry's draft is one the registry admits.              *)
LEMMA PassAdmitted ==
  ASSUME NEW catalog, catalog.commands \in SliceOf(CommandType), GoTestCataloged(catalog), NEW digest, NEW o,
         BindingOf(o) = Success(CanonicalBinding(o)), OptimizerOf(PassEntry) # {},
         NEW b, ValidBundle(b), b.catalog = catalog, b.processors = <<CanonicalBinding(o)>>,
         b.surface = DerivedSurface(catalog, DraftOf(digest, PassEntry))
  PROVE  TupleAdmitted(b)
<1>1. /\ Len(b.surface) = 1 /\ b.surface[1].command = GoTest
      /\ b.surface[1].options = InheritAll /\ b.surface[1].wrapper = PassWrapper
  BY PassSurface
<1>2. PassWrapper.output = PassOptimizer
  BY DEF PassWrapper
<1>3. OptimizerWrapper(PassWrapper)
  <2>1. /\ PassOptimizer.kind = "optimizer" /\ PassOptimizer.projection = Nil
        /\ PassOptimizer.optimizer.input = "go_test_jsonl" /\ PassOptimizer.optimizer.allowOriginal
    BY DEF PassOptimizer
  <2>2. PassOptimizer # Nil /\ PassOptimizer.optimizer # Nil
    <3>1. PassEntry.wrapper = PassWrapper
      BY PassEntryType
    <3> QED
      BY <1>2, <3>1 DEF OptimizerOf
  <2>3. /\ PassWrapper.kind = "transform" /\ PassWrapper.before = <<>> /\ PassWrapper.after = <<>>
        /\ PassWrapper.defaults = <<>> /\ PassWrapper.append = <<JsonFlag>>
    BY DEF PassWrapper
  <2> QED
    BY <1>2, <2>1, <2>2, <2>3 DEF OptimizerWrapper
<1>4. Len(b.processors) = 1 /\ b.processors[1] = CanonicalBinding(o)
  OBVIOUS
<1>5. CanonicalBinding(o).observation = o
  BY DEF CanonicalBinding
<1> QED
  BY <1>1, <1>2, <1>3, <1>4, <1>5 DEF TupleAdmitted

(* A draft of the last inspection, as a file holds it, is a document.        *)
LEMMA DraftIsWritten ==
  ASSUME NEW c \in Inspections, NEW digest, digest = CatalogDigest(SortCatalog(c)), NEW e \in EntryType
  PROVE  DraftOf(digest, e) # Nil
<1> DEFINE D == [schema : {5}, catalogDigest : {digest}, default : SurfaceDefaults, commands : Seq(EntryType)]
<1>1. Nil \notin D
  BY DocumentAssumption
<1>2. <<e>> \in Seq(EntryType) /\ "exclude" \in SurfaceDefaults
  BY DEF SurfaceDefaults
<1>3. DraftOf(digest, e) \in D
  BY <1>2 DEF DraftOf
<1> HIDE DEF D
<1> QED
  BY <1>1, <1>3

LEMMA IdentityEntryType ==
  ASSUME NEW catalog, catalog.commands \in SliceOf(CommandType), ValidCatalog(catalog),
         NEW path \in Seq(STRING), CommandNamed(catalog, path) # Nil
  PROVE  IdentityEntry(path) \in EntryType /\ OptimizerOf(IdentityEntry(path)) = {}
<1>1. PICK c \in ToSet(catalog.commands) : TRUE
  BY CommandNamedByKey
<1>2. c \in CommandType /\ ValidCommand(c)
  BY CatalogCommands
<1>4. InheritAll \in PointerTo(OptionSurfaceType) /\ Identity \in PointerTo(WrapperType)
  BY <1>2, InheritedEntry DEF PointerTo
<1>5. Identity.output = Nil
  BY DEF Identity
<1> HIDE DEF InheritAll, Identity
<1>6. IdentityEntry(path) \in EntryType /\ IdentityEntry(path).wrapper = Identity
  BY <1>4, StringAssumption DEF IdentityEntry, EntryType
<1> QED
  BY <1>5, <1>6 DEF OptimizerOf

(* The evidence on disk is what the inspections found.                      *)
EvidenceIsInspected ==
  /\ catalogFile # Nil => \E c \in Inspections : catalogFile.catalog = SortCatalog(c)
  /\ observationFile # Nil => observationFile \in Observations

(* A draft is on disk as spec init wrote it, next to what it was drafted from. *)
DraftedFrom(path, observed) ==
  LET drafted == DraftFrom(LoadCatalog, LoadObservation, path, observed)
  IN drafted.ok /\ specificationFile = Encoded(drafted.value)

DraftIsStored == last = "spec_init" => \E path \in Requested, observed \in BOOLEAN : DraftedFrom(path, observed)

DraftInv == EvidenceIsInspected /\ DraftIsStored

(* A stored draft builds from the evidence next to it.                       *)
LEMMA StoredDraftBuilds ==
  ASSUME NEW path \in Seq(STRING), NEW observed \in BOOLEAN, DraftedFrom(path, observed), EvidenceIsInspected
  PROVE  BuiltFrom(Inputs, LoadObservation, Optimizers(Inputs.value) # {}).ok
<1> DEFINE drafted == DraftFrom(LoadCatalog, LoadObservation, path, observed)
           e == IF observed THEN PassEntry ELSE IdentityEntry(path)
           d == DraftOf(catalogFile.digest, e)
           C == LoadCatalog.value
           o == LoadObservation.value
           B == IF observed THEN <<CanonicalBinding(o)>> ELSE <<>>
           b == CompiledOf(C, d, B)
<1>1. /\ LoadCatalog.ok /\ drafted = Success(d)
      /\ CommandNamed(C, path) # Nil /\ ValidSpecification(d, C)
      /\ observed => /\ LoadObservation.ok /\ path = GoTest
                     /\ GoTestCataloged(C) /\ ObservationAdmitted(o) /\ OptimizerOf(PassEntry) # {}
  <2>1. drafted.ok
    BY DEF DraftedFrom
  <2> HIDE DEF drafted
  <2>2. drafted = DraftFrom(LoadCatalog, LoadObservation, path, observed)
    BY DEF drafted
  <2> QED
    BY <2>1, <2>2, DraftOutcome
<1>2. /\ C = catalogFile.catalog /\ LoadCatalog = Success(C) /\ C.commands \in SliceOf(CommandType)
      /\ CatalogDigest(C) # NoDigest /\ catalogFile.digest = CatalogDigest(C) /\ ValidCatalog(C)
      /\ catalogFile # Nil
  BY <1>1, LoadedCatalog
<1>3. observed => LoadObservation = Success(o) /\ o \in Observations
  BY <1>1, LoadedObservation DEF EvidenceIsInspected
<1>4. specificationFile = Encoded(d)
  <2>1. specificationFile = Encoded(drafted.value)
    BY DEF DraftedFrom
  <2> HIDE DEF drafted, d
  <2> QED
    BY <1>1, <2>1 DEF Success
<1> HIDE DEF drafted, C, o
<1>5. e \in EntryType
  <2>1. observed => PassEntry \in EntryType
    BY <1>1, <1>2, PassEntryType
  <2>2. IdentityEntry(path) \in EntryType
    BY <1>1, <1>2, IdentityEntryType
  <2> QED
    BY <2>1, <2>2
<1>6. Explained(e)
  <2>1. e \in {IdentityEntry(path), PassEntry}
    OBVIOUS
  <2> HIDE DEF e
  <2> QED
    BY <1>1, <2>1, DraftsAreExplained
<1> HIDE DEF e
<1>7. Encoded(d) = d
  BY <1>6, DraftIsRead
<1>8. d # Nil
  <2>1. PICK c \in Inspections : catalogFile.catalog = SortCatalog(c)
    BY <1>2 DEF EvidenceIsInspected
  <2>2. catalogFile.digest = CatalogDigest(SortCatalog(c))
    BY <1>2, <2>1
  <2> QED
    BY <1>5, <2>2, DraftIsWritten
<1>9. LoadSpecification = Success(d)
  <2>1. specificationFile = d /\ specificationFile # Nil
    <3> HIDE DEF d
    <3> QED
      BY <1>4, <1>7, <1>8
  <2> QED
    BY <1>6, <2>1, DraftIsLoaded
<1>10. Inputs = Success(d)
  <2> HIDE DEF d
  <2>1. Success(d).ok /\ Success(d).value = d /\ Success(C).ok /\ Success(C).value = C
    BY DEF Success
  <2> QED
    BY <1>1, <1>2, <1>9, <2>1 DEF Inputs, Validated
<1>11. d.commands = <<e>>
  BY DEF DraftOf
<1>12. /\ ValidBindings(d, B)
       /\ observed <=> Optimizers(d) # {}
       /\ observed => BindingOf(o) = Success(CanonicalBinding(o))
  <2>1. CASE observed
    <3>1. e = PassEntry
      BY <2>1 DEF e
    <3>2. Nil # <<CanonicalBinding(o)>>
      BY <1>3, <2>1, DocumentAssumption
    <3>3. ValidSpecification(DraftOf(catalogFile.digest, PassEntry), C)
      BY <1>1, <3>1
    <3>4. /\ BindingOf(o) = Success(CanonicalBinding(o))
          /\ ValidBindings(DraftOf(catalogFile.digest, PassEntry), <<CanonicalBinding(o)>>)
          /\ Optimizers(DraftOf(catalogFile.digest, PassEntry)) # {}
      BY <1>1, <1>2, <2>1, <3>2, <3>3, PassBinding
    <3> QED
      BY <2>1, <3>1, <3>4
  <2>2. CASE ~observed
    <3>1. Optimizers(d) = {}
      <4>1. e = IdentityEntry(path)
        BY <2>2 DEF e
      <4>2. OptimizerOf(e) = {}
        BY <1>1, <1>2, <4>1, IdentityEntryType
      <4> HIDE DEF d
      <4> QED
        BY <1>11, <4>2, SingleEntry
    <3>2. Limit.bindings \in Nat
      BY LimitAssumption
    <3>3. [i \in DOMAIN <<>> |-> <<>>[i].contract] = <<>>
      OBVIOUS
    <3> HIDE DEF d
    <3>4. ValidBindings(d, <<>>)
      BY <3>1, <3>2, <3>3, EmptyList DEF ValidBindings
    <3> QED
      BY <2>2, <3>1, <3>4
  <2> QED
    BY <2>1, <2>2
<1>13. /\ Compile(C, d, B) = Success(b) /\ ValidBundle(b) /\ BundleDigest(b) # NoDigest
       /\ b.catalog = C /\ b.processors = B /\ b.surface = DerivedSurface(C, d)
  <2> HIDE DEF B, b, d
  <2>1. ValidBindings(d, B) /\ ValidSpecification(d, C) /\ CatalogDigest(C) # NoDigest
    BY <1>1, <1>2, <1>12
  <2> QED
    BY <2>1, ValidPartsCompile DEF b
<1>14. observed => TupleAdmitted(b)
  <2>1. SUFFICES ASSUME observed PROVE TupleAdmitted(b)
    OBVIOUS
  <2>2. B = <<CanonicalBinding(o)>> /\ e = PassEntry
    BY <2>1 DEF e
  <2> HIDE DEF b, B
  <2>3. b.surface = DerivedSurface(C, DraftOf(catalogFile.digest, PassEntry))
    BY <1>13, <2>2
  <2> QED
    BY <1>1, <1>2, <1>12, <1>13, <2>1, <2>2, <2>3, PassAdmitted
<1>15. BuiltFrom(Inputs, LoadObservation, Optimizers(Inputs.value) # {}) = Success(b)
  <2> HIDE DEF b, d
  <2>1. \A x : Success(x).ok /\ Success(x).value = x
    BY DEF Success
  <2>2. LoadCatalog.value = C /\ Inputs.value = d /\ Inputs.ok
    BY <1>10, <2>1 DEF C
  <2>3. Assembled(Success(b), observed) = Success(b)
    BY <1>13, <1>14, <2>1 DEF Assembled
  <2>4. CASE observed
    <3>1. B = <<BindingOf(o).value>> /\ BindingOf(o).ok /\ LoadObservation.ok /\ LoadObservation.value = o
      BY <1>1, <1>12, <2>1, <2>4 DEF o
    <3> HIDE DEF B
    <3> QED
      BY <1>12, <1>13, <2>2, <2>3, <2>4, <3>1 DEF BuiltFrom
  <2>5. CASE ~observed
    <3>1. B = <<>>
      BY <2>5
    <3> HIDE DEF B
    <3> QED
      BY <1>12, <1>13, <2>2, <2>3, <2>5, <3>1 DEF BuiltFrom
  <2> QED
    BY <2>4, <2>5
<1> HIDE DEF b
<1> QED
  BY <1>15 DEF Success

LEMMA DraftInit ==
  ASSUME Init
  PROVE  DraftInv
  BY DEF Init, DraftInv, EvidenceIsInspected, DraftIsStored

(* The loaders read the evidence only.                                       *)
LEMMA DraftNext ==
  ASSUME DraftInv, [Next]_vars
  PROVE  DraftInv'
<1> USE DEF DraftInv
<1>1. ASSUME UNCHANGED vars PROVE DraftInv'
  <2>1. /\ catalogFile' = catalogFile /\ observationFile' = observationFile
        /\ specificationFile' = specificationFile /\ last' = last
    BY <1>1 DEF vars, files
  <2>2. EvidenceIsInspected'
    BY <2>1 DEF EvidenceIsInspected
  <2>3. ASSUME NEW path, NEW observed, DraftedFrom(path, observed) PROVE DraftedFrom(path, observed)'
    <3>1. DraftFrom(LoadCatalog, LoadObservation, path, observed)'
            = DraftFrom(LoadCatalog, LoadObservation, path, observed)
      BY <2>1 DEF DraftFrom, LoadCatalog, LoadObservation
    <3> QED
      BY <2>1, <2>3, <3>1 DEF DraftedFrom
  <2>4. DraftIsStored'
    BY <2>1, <2>3 DEF DraftIsStored
  <2> QED
    BY <2>2, <2>4
<1>2. ASSUME NEW c \in Inspections, SourceInspect(c) PROVE DraftInv'
  <2>1. catalogFile'.catalog = SortCatalog(c) /\ observationFile' = observationFile /\ last' = "source_inspect"
    BY <1>2 DEF SourceInspect, Answer, Success
  <2> QED
    BY <2>1 DEF EvidenceIsInspected, DraftIsStored
<1>3. ASSUME NEW o \in Observations, ProcessorInspect(o) PROVE DraftInv'
  <2>1. catalogFile' = catalogFile /\ observationFile' = o /\ last' = "processor_inspect"
    BY <1>3 DEF ProcessorInspect, Answer, Success
  <2> QED
    BY <2>1 DEF EvidenceIsInspected, DraftIsStored
<1>4. ASSUME NEW path \in Requested, NEW observed \in BOOLEAN, SpecInit(path, observed) PROVE DraftInv'
  <2> DEFINE drafted == DraftFrom(LoadCatalog, LoadObservation, path, observed)
  <2>1. /\ last' = IF drafted.ok THEN "spec_init" ELSE "none"
        /\ specificationFile' = IF drafted.ok THEN Encoded(drafted.value) ELSE specificationFile
        /\ catalogFile' = catalogFile /\ observationFile' = observationFile
    BY <1>4, Zenon DEF SpecInit, WriteDraft, Answer
  <2>2. DraftFrom(LoadCatalog, LoadObservation, path, observed)' = drafted
    BY <2>1 DEF DraftFrom, LoadCatalog, LoadObservation
  <2>3. last' = "spec_init" => DraftedFrom(path, observed)'
    <3> HIDE DEF drafted
    <3> QED
      BY <2>1, <2>2 DEF DraftedFrom
  <2>4. EvidenceIsInspected'
    BY <2>1 DEF EvidenceIsInspected
  <2>5. DraftIsStored'
    <3> SUFFICES ASSUME last' = "spec_init"
                 PROVE  (\E x \in Requested, y \in BOOLEAN : DraftedFrom(x, y))'
      BY DEF DraftIsStored
    <3> HIDE DEF drafted
    <3> QED
      BY <2>3
  <2> QED
    BY <2>4, <2>5
<1>5. ASSUME \/ \E d \in Edits : EditSpecification(d)
             \/ \E observed \in BOOLEAN : BundleBuild(observed)
             \/ bundleFile # Nil /\ \E b \in Tampered(bundleFile.bundle) :
                   \E digest \in {bundleFile.digest, BundleDigest(b)} : EditBundle(b, digest)
             \/ BundleTrust
             \/ WrapperRender
             \/ Replace
      PROVE  DraftInv'
  <2>1. catalogFile' = catalogFile /\ observationFile' = observationFile /\ last' # "spec_init"
    BY <1>5, Zenon DEF EditSpecification, BundleBuild, WriteBundle, EditBundle, Change, BundleTrust, Adopt,
                       WrapperRender, PrintWrapper, Replace, Answer, files
  <2> QED
    BY <2>1 DEF EvidenceIsInspected, DraftIsStored
<1> QED
  BY <1>1, <1>2, <1>3, <1>4, <1>5 DEF Next

(* What spec init drafts, bundle build builds, from the same evidence: with  *)
(* the identity as with the entry the processor registry proposes, every    *)
(* check of the build has been made, or is implied by one that has.          *)
THEOREM DraftsStayBuildable == Spec => []DraftsBuild
<1>1. Init => DraftInv
  BY DraftInit
<1>2. DraftInv /\ [Next]_vars => DraftInv'
  BY DraftNext
<1>3. DraftInv => DraftsBuild
  BY StoredDraftBuilds, RequestedAssumption DEF DraftInv, DraftIsStored, DraftsBuild
<1> QED
  BY <1>1, <1>2, <1>3, PTL DEF Spec
=============================================================================
