------------------------------ MODULE Counting ------------------------------
(***************************************************************************)
(* Lemmas that the proofs about lists and circular queues share: places on *)
(* a circle, how many positions of a list are in a set, the rank of a      *)
(* number in a finite set of numbers, and what the elements of a list      *)
(* make, one after the other, of a value.                                  *)
(***************************************************************************)
EXTENDS Integers, FiniteSetTheorems, TLAPS

(* A circle of n slots: arithmetic modulo n of what is close.              *)

(* Going forward from a slot wraps at most once.                           *)
LEMMA Forward ==
  ASSUME NEW n \in Nat \ {0}, NEW h \in 0 .. n - 1, NEW k \in 0 .. n
  PROVE  (h + k) % n = IF h + k < n THEN h + k ELSE h + k - n
OBVIOUS

(* So does going backward.                                                 *)
LEMMA Backward ==
  ASSUME NEW n \in Nat \ {0}, NEW i \in 0 .. n - 1, NEW k \in 0 .. n
  PROVE  (i - k) % n = IF k <= i THEN i - k ELSE i - k + n
OBVIOUS

-----------------------------------------------------------------------------
(* How many of the positions 1 .. k are in S.                              *)
Count(S, k) == Cardinality({j \in 1 .. k : j \in S})

(* The positions counted are finitely many, and none when there are none.  *)
LEMMA CountType ==
  ASSUME NEW S, NEW k \in Nat
  PROVE  /\ IsFiniteSet({j \in 1 .. k : j \in S})
         /\ Count(S, k) \in 0 .. k
         /\ Count(S, 0) = 0
<1> DEFINE T == {j \in 1 .. k : j \in S}
<1>1. IsFiniteSet(1 .. k) /\ Cardinality(1 .. k) = k
  BY FS_Interval
<1>2. IsFiniteSet(T) /\ Cardinality(T) <= k
  BY <1>1, FS_Subset
<1>3. Cardinality(T) \in Nat
  BY <1>2, FS_CardinalityType
<1>4. {j \in 1 .. 0 : j \in S} = {}
  OBVIOUS
<1> QED
  BY <1>2, <1>3, <1>4, FS_EmptySet DEF Count

(* One more position counts if it is in the set.                           *)
LEMMA CountStep ==
  ASSUME NEW S, NEW k \in Nat
  PROVE  Count(S, k + 1) = Count(S, k) + (IF k + 1 \in S THEN 1 ELSE 0)
<1> DEFINE T == {j \in 1 .. k : j \in S}
           U == {j \in 1 .. k + 1 : j \in S}
<1>1. IsFiniteSet(T) /\ Cardinality(T) \in Nat
  BY CountType, FS_CardinalityType
<1>2. CASE k + 1 \in S
  <2>1. U = T \cup {k + 1} /\ k + 1 \notin T
    BY <1>2
  <2>2. Cardinality(U) = Cardinality(T) + 1
    BY <2>1, <1>1, FS_AddElement
  <2> QED
    BY <2>2, <1>2 DEF Count
<1>3. CASE k + 1 \notin S
  <2>1. U = T
    BY <1>3
  <2> QED
    BY <2>1, <1>3, <1>1 DEF Count
<1> QED
  BY <1>2, <1>3

(* More positions count at least as many.                                  *)
LEMMA CountMono ==
  ASSUME NEW S, NEW k \in Nat, NEW l \in Nat, k <= l
  PROVE  Count(S, k) <= Count(S, l)
<1>1. IsFiniteSet({j \in 1 .. l : j \in S})
  BY CountType
<1>2. {j \in 1 .. k : j \in S} \subseteq {j \in 1 .. l : j \in S}
  OBVIOUS
<1> QED
  BY <1>1, <1>2, FS_Subset DEF Count

(* What counts depends only on the positions up to k.                      *)
LEMMA CountAgree ==
  ASSUME NEW S, NEW T, NEW k \in Nat, \A j \in 1 .. k : j \in S <=> j \in T
  PROVE  Count(S, k) = Count(T, k)
<1>1. {j \in 1 .. k : j \in S} = {j \in 1 .. k : j \in T}
  OBVIOUS
<1> QED
  BY <1>1 DEF Count

(* A list that loses its first element counts it no longer.                *)
LEMMA CountShift ==
  ASSUME NEW S, NEW T, NEW k \in Nat, \A j \in 1 .. k : j \in T <=> j + 1 \in S
  PROVE  Count(T, k) = Count(S, k + 1) - (IF 1 \in S THEN 1 ELSE 0)
<1> DEFINE U == {j \in 1 .. k : j \in T}
           V == {j \in 1 .. k + 1 : j \in S}
           f == [j \in U |-> j + 1]
<1>1. IsFiniteSet(U) /\ IsFiniteSet(V)
  <2>1. k + 1 \in Nat
    OBVIOUS
  <2> QED
    BY <2>1, CountType
<1>2. f \in Bijection(U, V \ {1})
  <2>1. f \in [U -> V \ {1}]
    OBVIOUS
  <2>2. \A i, j \in U : f[i] = f[j] => i = j
    OBVIOUS
  <2>3. \A j \in V \ {1} : j - 1 \in U /\ f[j - 1] = j
    OBVIOUS
  <2> QED
    BY <2>1, <2>2, <2>3 DEF Bijection, Injection, Surjection, IsInjective
<1>3. Cardinality(U) = Cardinality(V \ {1})
  BY <1>1, <1>2, FS_Bijection DEF ExistsBijection
<1>4. Cardinality(V \ {1}) = Cardinality(V) - (IF 1 \in S THEN 1 ELSE 0)
  <2>1. Cardinality(V \ {1}) = IF 1 \in V THEN Cardinality(V) - 1 ELSE Cardinality(V)
    BY <1>1, FS_RemoveElement
  <2>2. 1 \in V <=> 1 \in S
    OBVIOUS
  <2>3. Cardinality(V) \in Nat
    BY <1>1, FS_CardinalityType
  <2> QED
    BY <2>1, <2>2, <2>3
<1> QED
  BY <1>3, <1>4 DEF Count

-----------------------------------------------------------------------------
(* How many numbers of S are below p.                                      *)
Rank(S, p) == Cardinality({q \in S : q < p})

(* Different numbers of a finite set have different ranks.                 *)
LEMMA RankInjective ==
  ASSUME NEW S \in SUBSET Int, IsFiniteSet(S), NEW p \in S, NEW q \in S, p < q
  PROVE  Rank(S, p) < Rank(S, q)
<1> DEFINE P == {x \in S : x < p}
           Q == {x \in S : x < q}
<1>1. IsFiniteSet(P) /\ IsFiniteSet(Q)
  BY FS_Subset
<1>2. P \cup {p} \subseteq Q /\ p \notin P
  <2>1. p \in Int /\ q \in Int /\ S \subseteq Int
    OBVIOUS
  <2>2. \A x \in P : x \in S /\ x < q
    BY <2>1
  <2>3. p \in Q /\ p \notin P
    BY <2>1
  <2> QED
    BY <2>2, <2>3
<1>3. Cardinality(P \cup {p}) = Cardinality(P) + 1
  BY <1>1, <1>2, FS_AddElement
<1>4. Cardinality(P \cup {p}) <= Cardinality(Q)
  BY <1>1, <1>2, FS_Subset
<1>5. Cardinality(P) \in Nat /\ Cardinality(Q) \in Nat
  BY <1>1, FS_CardinalityType
<1> QED
  BY <1>3, <1>4, <1>5 DEF Rank

(* The numbers of a finite set have all the ranks below its size.          *)
LEMMA RankExists ==
  ASSUME NEW S \in SUBSET Int, IsFiniteSet(S), NEW i \in 0 .. Cardinality(S) - 1
  PROVE  \E p \in S : Rank(S, p) = i
<1> DEFINE n == Cardinality(S)
           f == [p \in S |-> Rank(S, p)]
<1>1. n \in Nat
  BY FS_CardinalityType
<1>2. \A p \in S : Rank(S, p) \in 0 .. n - 1
  <2> SUFFICES ASSUME NEW p \in S PROVE Rank(S, p) \in 0 .. n - 1
    OBVIOUS
  <2> DEFINE P == {q \in S : q < p}
  <2>1. IsFiniteSet(P) /\ Cardinality(P) <= n /\ (n = Cardinality(P) => S = P)
    BY FS_Subset
  <2>2. P # S
    OBVIOUS
  <2>3. Cardinality(P) \in Nat
    BY <2>1, FS_CardinalityType
  <2> QED
    BY <1>1, <2>1, <2>2, <2>3 DEF Rank
<1>3. f \in Injection(S, 0 .. n - 1)
  <2>1. f \in [S -> 0 .. n - 1]
    BY <1>2
  <2>2. \A p, q \in S : f[p] = f[q] => p = q
    <3> SUFFICES ASSUME NEW p \in S, NEW q \in S, p # q PROVE f[p] # f[q]
      OBVIOUS
    <3>1. p < q \/ q < p
      OBVIOUS
    <3>2. f[p] \in Int /\ f[q] \in Int
      BY <1>2
    <3>3. f[p] < f[q] \/ f[q] < f[p]
      BY <3>1, RankInjective
    <3> QED
      BY <3>2, <3>3
  <2> QED
    BY <2>1, <2>2 DEF Injection, IsInjective
<1>4. IsFiniteSet(0 .. n - 1) /\ Cardinality(0 .. n - 1) = n
  BY <1>1, FS_Interval
<1>5. f \in Surjection(S, 0 .. n - 1)
  BY <1>3, <1>4, FS_Injection
<1> QED
  BY <1>5 DEF Surjection

(* A finite set of numbers that is not empty has a smallest element.       *)
LEMMA LeastExists ==
  ASSUME NEW S \in SUBSET Int, IsFiniteSet(S), S # {}
  PROVE  \E p \in S : \A q \in S : p <= q
<1>1. Cardinality(S) \in Nat /\ Cardinality(S) # 0
  BY FS_CardinalityType, FS_EmptySet
<1>2. PICK p \in S : Rank(S, p) = 0
  BY <1>1, RankExists
<1>3. {q \in S : q < p} = {}
  <2>1. IsFiniteSet({q \in S : q < p})
    BY FS_Subset
  <2> QED
    BY <1>2, <2>1, FS_EmptySet DEF Rank
<1> QED
  BY <1>3

(* And a greatest one.                                                     *)
LEMMA GreatestExists ==
  ASSUME NEW S \in SUBSET Int, IsFiniteSet(S), S # {}
  PROVE  \E p \in S : \A q \in S : q <= p
<1>1. Cardinality(S) \in Nat /\ Cardinality(S) # 0
  BY FS_CardinalityType, FS_EmptySet
<1>2. PICK p \in S : Rank(S, p) = Cardinality(S) - 1
  BY <1>1, RankExists
<1>3. SUFFICES ASSUME NEW q \in S, p < q PROVE FALSE
  OBVIOUS
<1>4. Rank(S, q) > Cardinality(S) - 1
  <2>1. Rank(S, p) < Rank(S, q)
    BY <1>3, RankInjective
  <2> QED
    BY <2>1, <1>2
<1>5. Rank(S, q) \in Nat /\ Rank(S, q) < Cardinality(S)
  <2> DEFINE Q == {x \in S : x < q}
  <2>1. IsFiniteSet(Q) /\ Cardinality(Q) <= Cardinality(S) /\ (Cardinality(S) = Cardinality(Q) => S = Q)
    BY FS_Subset
  <2>2. Q # S
    OBVIOUS
  <2>3. Cardinality(Q) \in Nat
    BY <2>1, FS_CardinalityType
  <2> QED
    BY <1>1, <2>1, <2>2, <2>3 DEF Rank
<1> QED
  BY <1>1, <1>4, <1>5

-----------------------------------------------------------------------------
(* What a list makes of a start x: f[k] is what its k-th element does.     *)
Follows(g, x, f, n) == g[0] = x /\ \A k \in 1 .. n : g[k] = f[k][g[k - 1]]

(* There is one such sequence of values.                                   *)
LEMMA FollowsExists ==
  ASSUME NEW n \in Nat, NEW X, NEW x \in X, NEW f \in [1 .. n -> [X -> X]]
  PROVE  \E g \in [0 .. n -> X] : Follows(g, x, f, n)
<1> DEFINE P(k) == \E g \in [0 .. k -> X] : Follows(g, x, f, k)
           S == {k \in 0 .. n : ~P(k)}
<1>1. SUFFICES ASSUME S # {} PROVE FALSE
  <2>1. n \in 0 .. n
    OBVIOUS
  <2> QED
    BY <2>1
<1>2. PICK p \in S : \A q \in S : p <= q
  <2>1. S \in SUBSET Int
    OBVIOUS
  <2>2. IsFiniteSet(0 .. n)
    BY FS_Interval
  <2>3. IsFiniteSet(S)
    BY <2>2, FS_Subset
  <2> QED
    BY <1>1, <2>1, <2>3, LeastExists
<1>3. CASE p = 0
  <2> DEFINE g == [k \in 0 .. 0 |-> x]
  <2>1. g \in [0 .. 0 -> X] /\ Follows(g, x, f, 0)
    BY DEF Follows
  <2>2. P(0)
    BY <2>1
  <2> QED
    BY <1>2, <1>3, <2>2
<1>4. CASE p # 0
  <2>1. p - 1 \in 0 .. n /\ p - 1 \notin S /\ p \in 1 .. n
    BY <1>2, <1>4
  <2>2. PICK h \in [0 .. p - 1 -> X] : Follows(h, x, f, p - 1)
    BY <2>1
  <2> DEFINE g == [k \in 0 .. p |-> IF k = p THEN f[p][h[p - 1]] ELSE h[k]]
  <2>3. f[p][h[p - 1]] \in X
    BY <2>1
  <2>4. g \in [0 .. p -> X]
    BY <2>1, <2>3
  <2>5. g[0] = x /\ \A k \in 1 .. p - 1 : g[k] = f[k][g[k - 1]]
    BY <2>1, <2>2 DEF Follows
  <2>6. g[p] = f[p][g[p - 1]]
    BY <2>1
  <2>7. Follows(g, x, f, p)
    <3> HIDE DEF g
    <3>1. \A k \in 1 .. p : k = p \/ k \in 1 .. p - 1
      BY <2>1
    <3> QED
      BY <2>5, <2>6, <3>1 DEF Follows
  <2>8. P(p)
    BY <2>4, <2>7
  <2> QED
    BY <1>2, <2>8
<1> QED
  BY <1>3, <1>4

(* It depends only on the start and on the elements so far.                *)
LEMMA FollowsUnique ==
  ASSUME NEW m \in Nat, NEW x, NEW f, NEW g, NEW h, NEW e,
         Follows(g, x, f, m), Follows(h, x, e, m), \A k \in 1 .. m : e[k] = f[k]
  PROVE  \A k \in 0 .. m : g[k] = h[k]
<1> DEFINE S == {k \in 0 .. m : g[k] # h[k]}
<1>1. SUFFICES ASSUME S # {} PROVE FALSE
  OBVIOUS
<1>2. PICK p \in S : \A q \in S : p <= q
  <2>1. S \in SUBSET Int
    OBVIOUS
  <2>2. IsFiniteSet(0 .. m)
    BY FS_Interval
  <2>3. IsFiniteSet(S)
    BY <2>2, FS_Subset
  <2> QED
    BY <1>1, <2>1, <2>3, LeastExists
<1>3. p # 0 /\ p \in 1 .. m
  BY DEF Follows
<1>4. g[p - 1] = h[p - 1]
  BY <1>2, <1>3
<1>5. g[p] = h[p]
  BY <1>3, <1>4 DEF Follows
<1> QED
  BY <1>5
=============================================================================
