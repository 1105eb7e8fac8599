--------------------------- MODULE FetchUnitProofs ---------------------------
(***************************************************************************)
(* Theorems about FetchUnit. The branch queue holds the branches in flight *)
(* in program order, FETCH1 is idle only while somebody will restart it,   *)
(* and the speculative history, the top of the return address stack and    *)
(* every log entry are those of the path in front of them; with walk       *)
(* recovery so is what the return address stack holds.                     *)
(***************************************************************************)
EXTENDS FetchUnit, SequenceTheorems, Counting

-----------------------------------------------------------------------------
(* What is in the model's data.                                            *)

LEMMA Sizes ==
  /\ BqSize \in Nat \ {0} /\ Slot = 0 .. BqSize - 1
  /\ RasSize \in Nat \ {0} /\ Tos = 0 .. RasSize - 1
  /\ WindowSize \in Nat /\ WindowSize <= BqSize
  /\ FetchWidth \in Nat \ {0} /\ BhrLen \in Nat \ {0}
BY FetchUnitAssumption DEF Slot, Tos

(* How many branches, or conditional ones, are among the first ones.       *)
LEMMA BranchesIs ==
  ASSUME NEW b, NEW k \in Nat
  PROVE  /\ Branches(b, k) \in 0 .. k /\ Conds(b, k) \in 0 .. k /\ Branches(b, 0) = 0
         /\ Branches(b, k + 1) = Branches(b, k) + (IF IsBranch(b[k + 1]) THEN 1 ELSE 0)
<1> DEFINE S == {j \in Int : IsBranch(b[j])}
           C == {j \in Int : IsCond(b[j])}
<1>1. \A n \in Nat : Branches(b, n) = Count(S, n)
  <2> TAKE n \in Nat
  <2>1. {j \in 1 .. n : IsBranch(b[j])} = {j \in 1 .. n : j \in S}
    OBVIOUS
  <2> QED
    BY <2>1 DEF Branches, Count
<1>2. Conds(b, k) = Count(C, k)
  <2>1. {j \in 1 .. k : IsCond(b[j])} = {j \in 1 .. k : j \in C}
    OBVIOUS
  <2> QED
    BY <2>1 DEF Conds, Count
<1>3. k + 1 \in S <=> IsBranch(b[k + 1])
  OBVIOUS
<1>4. Count(S, k) \in 0 .. k /\ Count(C, k) \in 0 .. k /\ Count(S, 0) = 0
  BY CountType
<1>5. Count(S, k + 1) = Count(S, k) + (IF k + 1 \in S THEN 1 ELSE 0)
  BY CountStep
<1> HIDE DEF S, C
<1>6. k + 1 \in Nat /\ 0 \in Nat
  OBVIOUS
<1> QED
  BY <1>1, <1>2, <1>3, <1>4, <1>5, <1>6

(* Only the elements counted matter.                                       *)
LEMMA BranchesAgree ==
  ASSUME NEW b, NEW c, NEW k \in Nat, \A j \in 1 .. k : b[j] = c[j]
  PROVE  Branches(b, k) = Branches(c, k) /\ Conds(b, k) = Conds(c, k)
<1>1. {j \in 1 .. k : IsBranch(b[j])} = {j \in 1 .. k : IsBranch(c[j])}
  OBVIOUS
<1>2. {j \in 1 .. k : IsCond(b[j])} = {j \in 1 .. k : IsCond(c[j])}
  OBVIOUS
<1> QED
  BY <1>1, <1>2 DEF Branches, Conds

(* The count grows with the place, past a branch by one at least.          *)
LEMMA BranchesMono ==
  ASSUME NEW b, NEW j \in Nat, NEW k \in Nat, j <= k
  PROVE  Branches(b, j) <= Branches(b, k)
<1> DEFINE S == {i \in Int : IsBranch(b[i])}
<1>1. \A n \in Nat : Branches(b, n) = Count(S, n)
  <2> TAKE n \in Nat
  <2>1. {i \in 1 .. n : IsBranch(b[i])} = {i \in 1 .. n : i \in S}
    OBVIOUS
  <2> QED
    BY <2>1 DEF Branches, Count
<1> QED
  BY <1>1, CountMono

(* The first element of b gone.                                            *)
LEMMA BranchesShift ==
  ASSUME NEW b, NEW c, NEW k \in Nat, \A j \in 1 .. k : c[j] = b[j + 1]
  PROVE  Branches(c, k) = Branches(b, k + 1) - (IF IsBranch(b[1]) THEN 1 ELSE 0)
<1> DEFINE S == {i \in Int : IsBranch(b[i])}
           T == {i \in Int : IsBranch(c[i])}
<1>1. {i \in 1 .. k + 1 : IsBranch(b[i])} = {i \in 1 .. k + 1 : i \in S}
  OBVIOUS
<1>2. {i \in 1 .. k : IsBranch(c[i])} = {i \in 1 .. k : i \in T}
  OBVIOUS
<1>3. \A j \in 1 .. k : j \in T <=> j + 1 \in S
  OBVIOUS
<1>4. 1 \in S <=> IsBranch(b[1])
  OBVIOUS
<1>5. Branches(b, k + 1) = Count(S, k + 1) /\ Branches(c, k) = Count(T, k)
  BY <1>1, <1>2 DEF Branches, Count
<1> HIDE DEF S, T
<1>6. Count(T, k) = Count(S, k + 1) - (IF 1 \in S THEN 1 ELSE 0)
  BY <1>3, CountShift
<1> QED
  BY <1>4, <1>5, <1>6

(* A list and what is appended to it.                                      *)
Appended(w, n, b, k, c) ==
  /\ \A j \in 1 .. n : c[j] = w[j]
  /\ \A j \in 1 .. k : c[n + j] = b[j]
LEMMA BranchesConcat ==
  ASSUME NEW w, NEW b, NEW c, NEW n \in Nat, NEW k \in Nat, Appended(w, n, b, k, c)
  PROVE  Branches(c, n + k) = Branches(w, n) + Branches(b, k)
<1> DEFINE U == {j \in 1 .. n : IsBranch(w[j])}
           V == {j \in 1 .. k : IsBranch(b[j])}
           W == {j \in n + 1 .. n + k : IsBranch(c[j])}
           f == [j \in V |-> n + j]
<1> USE DEF Appended
<1>1. IsFiniteSet(1 .. n) /\ IsFiniteSet(1 .. k) /\ IsFiniteSet(n + 1 .. n + k)
  BY FS_Interval
<1>2. IsFiniteSet(U) /\ IsFiniteSet(V) /\ IsFiniteSet(W)
  BY <1>1, FS_Subset
<1>3. f \in Bijection(V, W)
  <2>1. f \in [V -> W]
    OBVIOUS
  <2>2. \A i, j \in V : f[i] = f[j] => i = j
    OBVIOUS
  <2>3. \A j \in W : j - n \in V /\ f[j - n] = j
    <3> SUFFICES ASSUME NEW j \in W PROVE j - n \in V /\ f[j - n] = j
      OBVIOUS
    <3>1. j - n \in 1 .. k /\ n + (j - n) = j
      OBVIOUS
    <3>2. c[n + (j - n)] = b[j - n]
      BY <3>1
    <3> QED
      BY <3>1, <3>2
  <2> QED
    BY <2>1, <2>2, <2>3 DEF Bijection, Injection, Surjection, IsInjective
<1>4. Cardinality(V) = Cardinality(W)
  BY <1>2, <1>3, FS_Bijection DEF ExistsBijection
<1>5. {j \in 1 .. n + k : IsBranch(c[j])} = U \cup W
  <2>1. \A j \in 1 .. n + k : j \in 1 .. n \/ j \in n + 1 .. n + k
    OBVIOUS
  <2>2. \A j \in 1 .. n : j \in 1 .. n + k
    OBVIOUS
  <2>3. \A j \in n + 1 .. n + k : j \in 1 .. n + k
    OBVIOUS
  <2> QED
    BY <2>1, <2>2, <2>3
<1>6. U \cap W = {}
  OBVIOUS
<1>7. Cardinality(U \cup W) = Cardinality(U) + Cardinality(W) - Cardinality(U \cap W)
  BY <1>2, FS_Union
<1>8. Cardinality({}) = 0 /\ Cardinality(U) \in Nat /\ Cardinality(W) \in Nat
  BY <1>2, FS_EmptySet, FS_CardinalityType
<1> HIDE DEF U, W
<1>9. Branches(c, n + k) = Cardinality(U) + Cardinality(W)
  <2>1. Cardinality(U \cup W) = Cardinality(U) + Cardinality(W)
    <3>1. Cardinality(U \cap W) = 0
      BY <1>6, <1>8
    <3>2. Cardinality(U) \in Nat /\ Cardinality(W) \in Nat
      BY <1>8
    <3> QED
      BY <1>7, <3>1, <3>2
  <2>2. Branches(c, n + k) = Cardinality(U \cup W)
    BY <1>5 DEF Branches
  <2> QED
    BY <2>1, <2>2
<1> QED
  BY <1>4, <1>9 DEF Branches, U

-----------------------------------------------------------------------------
(* The history and the context along a list of instructions.               *)

(* One more outcome.                                                       *)
LEMMA UpdateType ==
  ASSUME NEW h \in History, NEW t \in BOOLEAN
  PROVE  update_bhr(h, t) \in History
<1>1. BhrLen \in Nat \ {0}
  BY Sizes
<1>2. h \in Seq(BOOLEAN) /\ Len(h) = BhrLen /\ h # <<>>
  <2>1. h \in Seq(BOOLEAN)
    BY <1>1 DEF History
  <2>2. Len(h) = BhrLen
    BY <1>1, <2>1 DEF History
  <2> QED
    BY <1>1, <2>1, <2>2
<1>3. Tail(h) \in Seq(BOOLEAN) /\ Len(Tail(h)) = BhrLen - 1
  BY <1>2
<1>4. Append(Tail(h), t) \in Seq(BOOLEAN) /\ Len(Append(Tail(h), t)) = BhrLen
  BY <1>1, <1>3
<1>5. \A q \in Seq(BOOLEAN) : q \in [1 .. Len(q) -> BOOLEAN]
  OBVIOUS
<1> QED
  BY <1>4, <1>5 DEF update_bhr, History

(* What each instruction of b does to the history.                         *)
HistorySteps(b) ==
  [k \in 1 .. Len(b) |->
     [y \in History |-> IF IsCond(b[k]) THEN update_bhr(y, b[k].taken) ELSE y]]

LEMMA BhrAlongIs ==
  ASSUME NEW h \in History, NEW b, Len(b) \in Nat, \A k \in 1 .. Len(b) : b[k].taken \in BOOLEAN
  PROVE  /\ BhrAlong(h, b) \in [0 .. Len(b) -> History]
         /\ Follows(BhrAlong(h, b), h, HistorySteps(b), Len(b))
         /\ BhrAlong(h, b)[0] = h
         /\ \A k \in 1 .. Len(b) : BhrAlong(h, b)[k] =
               IF IsCond(b[k]) THEN update_bhr(BhrAlong(h, b)[k - 1], b[k].taken)
                               ELSE BhrAlong(h, b)[k - 1]
<1> DEFINE n == Len(b)
           step(y, k) == IF IsCond(b[k]) THEN update_bhr(y, b[k].taken) ELSE y
           Body(H) == [k \in 0 .. n |-> IF k = 0 THEN h
                          ELSE IF IsCond(b[k]) THEN update_bhr(H[k - 1], b[k].taken) ELSE H[k - 1]]
<1>1. HistorySteps(b) \in [1 .. n -> [History -> History]]
  BY UpdateType DEF HistorySteps
<1>2. PICK g \in [0 .. n -> History] : Follows(g, h, HistorySteps(b), n)
  BY <1>1, FollowsExists
<1>3. \A k \in 1 .. n : \A y \in History : HistorySteps(b)[k][y] = step(y, k)
  BY DEF HistorySteps
<1>4. \A k \in 1 .. n : g[k - 1] \in History /\ g[k] = step(g[k - 1], k)
  BY <1>2, <1>3 DEF Follows
<1>5. g = Body(g)
  BY <1>2, <1>4 DEF Follows
<1>6. BhrAlong(h, b) = CHOOSE H : H = Body(H)
  BY DEF BhrAlong
<1>7. BhrAlong(h, b) = Body(BhrAlong(h, b))
  BY <1>5, <1>6
<1>8. ASSUME NEW F, F = Body(F)
      PROVE  /\ F[0] = h /\ \A k \in 1 .. n : F[k] = step(F[k - 1], k)
             /\ F = [k \in 0 .. n |-> F[k]]
  <2>1. \A k \in 0 .. n : F[k] = Body(F)[k]
    BY <1>8
  <2>2. F[0] = h
    BY <2>1
  <2>3. \A k \in 1 .. n : k \in 0 .. n /\ k # 0
    OBVIOUS
  <2>4. \A k \in 1 .. n : F[k] = step(F[k - 1], k)
    BY <2>1, <2>3
  <2>5. DOMAIN F = 0 .. n
    BY <1>8
  <2>6. F = [k \in DOMAIN F |-> F[k]]
    BY <1>8
  <2> QED
    BY <2>2, <2>4, <2>5, <2>6
<1> DEFINE f == BhrAlong(h, b)
<1> HIDE DEF f, Body, step
<1>9. f[0] = h /\ (\A k \in 1 .. n : f[k] = step(f[k - 1], k)) /\ f = [k \in 0 .. n |-> f[k]]
  BY <1>7, <1>8 DEF f
<1> USE DEF step
<1>10. \A k \in 0 .. n : f[k] = g[k]
  <2> DEFINE e == [k \in 1 .. n |-> [y \in {f[k - 1], g[k - 1]} |-> step(y, k)]]
  <2>1. Follows(f, h, e, n)
    BY <1>9 DEF Follows
  <2>2. Follows(g, h, e, n)
    BY <1>2, <1>4 DEF Follows
  <2> HIDE DEF e
  <2> QED
    BY <2>1, <2>2, FollowsUnique
<1>11. f = g
  BY <1>9, <1>10
<1> QED
  BY <1>2, <1>9, <1>11 DEF f

(* A context, and what an instruction does to it.                          *)
InContext == [bhr : History, tos : Tos, stack : Seq(RetAddr \cup {0})]

LEMMA AfterType ==
  ASSUME NEW c \in InContext, NEW i, i.taken \in BOOLEAN, i.ra \in RetAddr \cup {0}
  PROVE  After(c, i) \in InContext
<1>1. c = [bhr |-> c.bhr, tos |-> c.tos, stack |-> c.stack] /\ c.bhr \in History
      /\ c.tos \in Tos /\ c.stack \in Seq(RetAddr \cup {0})
  BY DEF InContext
<1>2. CASE i.kind = "cond"
  <2>1. update_bhr(c.bhr, i.taken) \in History
    BY <1>1, UpdateType
  <2>2. After(c, i) = [c EXCEPT !.bhr = update_bhr(c.bhr, i.taken)]
    BY <1>2 DEF After
  <2> HIDE DEF History
  <2> QED
    BY <1>1, <2>1, <2>2 DEF InContext
<1>3. CASE i.kind = "call"
  <2>1. Up(c.tos) \in Tos
    BY <1>1, Sizes DEF Up
  <2>2. Append(c.stack, i.ra) \in Seq(RetAddr \cup {0})
    BY <1>1
  <2>3. After(c, i) = [c EXCEPT !.tos = Up(c.tos), !.stack = Append(c.stack, i.ra)]
    BY <1>3 DEF After
  <2> QED
    BY <1>1, <2>1, <2>2, <2>3 DEF InContext
<1>4. CASE i.kind = "return"
  <2>1. Down(c.tos) \in Tos
    BY <1>1, Sizes DEF Down
  <2> DEFINE t == IF c.stack = <<>> THEN c.stack ELSE Front(c.stack)
  <2>2. t \in Seq(RetAddr \cup {0})
    <3>1. CASE c.stack = <<>>
      BY <1>1, <3>1
    <3>2. CASE c.stack # <<>>
      <4>1. Len(c.stack) \in Nat \ {0}
        BY <1>1, <3>2
      <4>2. SubSeq(c.stack, 1, Len(c.stack) - 1) \in Seq(RetAddr \cup {0})
        BY <1>1, <4>1
      <4> QED
        BY <3>2, <4>2 DEF Front
    <3> QED
      BY <3>1, <3>2
  <2>3. After(c, i) = [c EXCEPT !.tos = Down(c.tos), !.stack = t]
    BY <1>4 DEF After
  <2> HIDE DEF t
  <2> QED
    BY <1>1, <2>1, <2>2, <2>3 DEF InContext
<1>5. CASE i.kind \notin {"cond", "call", "return"}
  BY <1>5 DEF After
<1> QED
  BY <1>2, <1>3, <1>4, <1>5

(* What it does to the two parts that predictions read.                    *)
LEMMA AfterIs ==
  ASSUME NEW c \in InContext, NEW i
  PROVE  /\ IsCond(i) => After(c, i).bhr = update_bhr(c.bhr, i.taken)
         /\ ~IsCond(i) => After(c, i).bhr = c.bhr
         /\ i.kind = "call" => After(c, i).tos = Up(c.tos)
         /\ i.kind = "return" => After(c, i).tos = Down(c.tos)
         /\ i.kind \notin {"call", "return"} => After(c, i).tos = c.tos /\ After(c, i).stack = c.stack
         /\ ~IsBranch(i) => After(c, i) = c
<1>1. CASE i.kind = "cond"
  BY <1>1 DEF After, InContext, IsCond, IsBranch, Branch
<1>2. CASE i.kind = "call"
  BY <1>2 DEF After, InContext, IsCond, IsBranch, Branch
<1>3. CASE i.kind = "return"
  BY <1>3 DEF After, InContext, IsCond, IsBranch, Branch
<1>4. CASE i.kind \notin {"cond", "call", "return"}
  BY <1>4 DEF After, InContext, IsCond, IsBranch, Branch
<1> QED
  BY <1>1, <1>2, <1>3, <1>4

(* Instructions as they are in a bundle, as far as contexts go.            *)
Codes(s) == Len(s) \in Nat /\ \A k \in 1 .. Len(s) : s[k].taken \in BOOLEAN /\ s[k].ra \in RetAddr \cup {0}
ContextSteps(s) == [k \in 1 .. Len(s) |-> [c \in InContext |-> After(c, s[k])]]

LEMMA ContextsIs ==
  ASSUME NEW c \in InContext, NEW s, Codes(s)
  PROVE  /\ Contexts(c, s) \in [0 .. Len(s) -> InContext]
         /\ Follows(Contexts(c, s), c, ContextSteps(s), Len(s))
         /\ Contexts(c, s)[0] = c
         /\ \A k \in 1 .. Len(s) : Contexts(c, s)[k] = After(Contexts(c, s)[k - 1], s[k])
<1> DEFINE n == Len(s)
           Body(H) == [k \in 0 .. n |-> IF k = 0 THEN c ELSE After(H[k - 1], s[k])]
<1>0. n \in Nat
  BY DEF Codes
<1>1. ContextSteps(s) \in [1 .. n -> [InContext -> InContext]]
  BY AfterType DEF ContextSteps, Codes
<1>2. PICK g \in [0 .. n -> InContext] : Follows(g, c, ContextSteps(s), n)
  BY <1>0, <1>1, FollowsExists
<1>3. ASSUME NEW k \in 1 .. n, NEW y \in InContext PROVE ContextSteps(s)[k][y] = After(y, s[k])
  BY DEF ContextSteps
<1>4. ASSUME NEW k \in 1 .. n PROVE g[k - 1] \in InContext /\ g[k] = After(g[k - 1], s[k])
  <2>1. g[k - 1] \in InContext
    BY <1>0, <1>2
  <2>2. g[k] = ContextSteps(s)[k][g[k - 1]]
    BY <1>2 DEF Follows
  <2> QED
    BY <1>3, <2>1, <2>2
<1>5. g = Body(g)
  BY <1>0, <1>2, <1>4 DEF Follows
<1>6. Contexts(c, s) = CHOOSE H : H = Body(H)
  BY DEF Contexts
<1>7. Contexts(c, s) = Body(Contexts(c, s))
  BY <1>5, <1>6
<1>8. ASSUME NEW F, F = Body(F)
      PROVE  /\ F[0] = c /\ \A k \in 1 .. n : F[k] = After(F[k - 1], s[k])
             /\ F = [k \in 0 .. n |-> F[k]]
  <2>1. \A k \in 0 .. n : F[k] = Body(F)[k]
    BY <1>8
  <2>2. F[0] = c
    BY <1>0, <2>1
  <2>3. \A k \in 1 .. n : k \in 0 .. n /\ k # 0
    BY <1>0
  <2>4. \A k \in 1 .. n : F[k] = After(F[k - 1], s[k])
    BY <2>1, <2>3
  <2>5. DOMAIN F = 0 .. n
    BY <1>8
  <2>6. F = [k \in DOMAIN F |-> F[k]]
    BY <1>8
  <2> QED
    BY <2>2, <2>4, <2>5, <2>6
<1> DEFINE f == Contexts(c, s)
<1> HIDE DEF f, Body
<1>9. f[0] = c /\ (\A k \in 1 .. n : f[k] = After(f[k - 1], s[k])) /\ f = [k \in 0 .. n |-> f[k]]
  BY <1>7, <1>8 DEF f
<1>10. \A k \in 0 .. n : f[k] = g[k]
  <2> DEFINE e == [k \in 1 .. n |-> [y \in {f[k - 1], g[k - 1]} |-> After(y, s[k])]]
  <2>1. Follows(f, c, e, n)
    BY <1>9 DEF Follows
  <2>2. Follows(g, c, e, n)
    BY <1>2, <1>4 DEF Follows
  <2> HIDE DEF e
  <2> QED
    BY <1>0, <2>1, <2>2, FollowsUnique
<1>11. f = g
  BY <1>9, <1>10
<1> QED
  BY <1>2, <1>9, <1>11 DEF f

(* Lists that begin alike have the same contexts there.                    *)
LEMMA ContextsAgree ==
  ASSUME NEW c \in InContext, NEW s, NEW t, Codes(s), Codes(t), NEW m \in Nat,
         m <= Len(s), m <= Len(t), \A k \in 1 .. m : t[k] = s[k]
  PROVE  \A k \in 0 .. m : Contexts(c, t)[k] = Contexts(c, s)[k]
<1>1. Len(s) \in Nat /\ Len(t) \in Nat
  BY DEF Codes
<1>2. Follows(Contexts(c, s), c, ContextSteps(s), m)
  BY <1>1, ContextsIs DEF Follows
<1>3. Follows(Contexts(c, t), c, ContextSteps(t), m)
  BY <1>1, ContextsIs DEF Follows
<1>4. \A k \in 1 .. m : ContextSteps(t)[k] = ContextSteps(s)[k]
  BY <1>1 DEF ContextSteps
<1> QED
  BY <1>2, <1>3, <1>4, FollowsUnique

(* The list u is the first n instructions of s, and t behind them.         *)
Joined(s, n, t, u) ==
  /\ Codes(s) /\ Codes(t) /\ Codes(u)
  /\ n <= Len(s) /\ Len(u) = n + Len(t)
  /\ \A k \in 1 .. n : u[k] = s[k]
  /\ \A k \in 1 .. Len(t) : u[n + k] = t[k]

(* A list behind another continues its context.                            *)
LEMMA ContextsConcat ==
  ASSUME NEW c \in InContext, NEW s, NEW t, NEW u, NEW n \in Nat, Joined(s, n, t, u)
  PROVE  /\ Contexts(c, s)[n] \in InContext
         /\ \A k \in 0 .. n : Contexts(c, u)[k] = Contexts(c, s)[k]
         /\ \A k \in 0 .. Len(t) : Contexts(c, u)[n + k] = Contexts(Contexts(c, s)[n], t)[k]
<1> DEFINE d == Contexts(c, s)[n]
           C == Contexts(c, u)
           g == [k \in 0 .. Len(t) |-> C[n + k]]
<1> USE DEF Joined
<1>1. Len(s) \in Nat /\ Len(t) \in Nat /\ Len(u) \in Nat
  BY DEF Codes
<1>2. d \in InContext
  <2>1. n \in 0 .. Len(s) /\ Contexts(c, s) \in [0 .. Len(s) -> InContext]
    BY <1>1, ContextsIs
  <2> QED
    BY <2>1
<1>3. \A k \in 0 .. n : C[k] = Contexts(c, s)[k]
  BY <1>1, ContextsAgree
<1>4. C[n] = d
  BY <1>3
<1>5. \A k \in 1 .. Len(u) : C[k - 1] \in InContext /\ C[k] = After(C[k - 1], u[k])
  <2>1. Codes(u) /\ \A k \in 1 .. Len(u) : k - 1 \in 0 .. Len(u)
    BY <1>1
  <2> HIDE DEF Joined
  <2>2. C \in [0 .. Len(u) -> InContext] /\ \A k \in 1 .. Len(u) : C[k] = After(C[k - 1], u[k])
    BY <2>1, ContextsIs
  <2> HIDE DEF C
  <2> QED
    BY <2>1, <2>2
<1> HIDE DEF C, d
<1>6. \A k \in 1 .. Len(t) : g[k] = ContextSteps(t)[k][g[k - 1]]
  <2> SUFFICES ASSUME NEW k \in 1 .. Len(t) PROVE g[k] = ContextSteps(t)[k][g[k - 1]]
    OBVIOUS
  <2>1. n + k \in 1 .. Len(u) /\ (n + k) - 1 = n + (k - 1) /\ k - 1 \in 0 .. Len(t) /\ k \in 0 .. Len(t)
    BY <1>1
  <2>2. C[n + (k - 1)] \in InContext /\ C[n + k] = After(C[n + (k - 1)], t[k])
    BY <1>5, <2>1
  <2>3. g[k] = C[n + k] /\ g[k - 1] = C[n + (k - 1)]
    BY <2>1
  <2> HIDE DEF g
  <2> QED
    BY <2>2, <2>3 DEF ContextSteps
<1>7. g[0] = d
  BY <1>1, <1>4
<1>8. Follows(g, d, ContextSteps(t), Len(t))
  BY <1>6, <1>7 DEF Follows
<1>9. Follows(Contexts(d, t), d, ContextSteps(t), Len(t))
  BY <1>2, ContextsIs
<1>10. \A k \in 0 .. Len(t) : g[k] = C[n + k]
  OBVIOUS
<1> HIDE DEF g
<1>11. \A k \in 0 .. Len(t) : g[k] = Contexts(d, t)[k]
  BY <1>1, <1>8, <1>9, FollowsUnique
<1>12. \A k \in 0 .. Len(t) : C[n + k] = Contexts(d, t)[k]
  BY <1>10, <1>11
<1> QED
  BY <1>2, <1>3, <1>12 DEF C, d

(* The context of a list without its first instruction, which is in front. *)
LEMMA ContextsTail ==
  ASSUME NEW c \in InContext, NEW s, NEW t, Codes(s), Codes(t), Len(s) = Len(t) + 1,
         \A k \in 1 .. Len(t) : t[k] = s[k + 1]
  PROVE  /\ After(c, s[1]) \in InContext
         /\ \A k \in 0 .. Len(t) : Contexts(After(c, s[1]), t)[k] = Contexts(c, s)[k + 1]
<1>1. Len(s) \in Nat /\ Len(t) \in Nat /\ 1 \in 1 .. Len(s)
  BY DEF Codes
<1>2. Contexts(c, s)[1] = After(c, s[1]) /\ Contexts(c, s)[1] \in InContext
  BY <1>1, ContextsIs
<1>3. /\ Len(s) = 1 + Len(t) /\ 1 <= Len(s) /\ 1 \in Nat
      /\ \A k \in 1 .. 1 : s[k] = s[k]
      /\ \A k \in 1 .. Len(t) : s[1 + k] = t[k]
  BY <1>1
<1>6. Joined(s, 1, t, s)
  BY <1>3 DEF Joined
<1>4. \A k \in 0 .. Len(t) : Contexts(c, s)[1 + k] = Contexts(Contexts(c, s)[1], t)[k]
  BY <1>3, <1>6, ContextsConcat
<1>5. \A k \in 0 .. Len(t) : 1 + k = k + 1
  BY <1>1
<1> QED
  BY <1>2, <1>4, <1>5

(* The history of the context is the history along the list.               *)
LEMMA ContextBhr ==
  ASSUME NEW c \in InContext, NEW s, Codes(s)
  PROVE  \A k \in 0 .. Len(s) : Contexts(c, s)[k].bhr = BhrAlong(c.bhr, s)[k]
<1> DEFINE C == Contexts(c, s)
           g == [k \in 0 .. Len(s) |-> C[k].bhr]
<1>1. Len(s) \in Nat /\ c.bhr \in History /\ \A k \in 1 .. Len(s) : s[k].taken \in BOOLEAN
  BY DEF Codes, InContext
<1>2. C[0] = c /\ \A k \in 1 .. Len(s) : C[k - 1] \in InContext /\ C[k] = After(C[k - 1], s[k])
  BY <1>1, ContextsIs
<1> HIDE DEF C
<1>3. \A k \in 1 .. Len(s) : C[k - 1].bhr \in History /\ C[k].bhr = IF IsCond(s[k]) THEN update_bhr(C[k - 1].bhr, s[k].taken) ELSE C[k - 1].bhr
  <2> SUFFICES ASSUME NEW k \in 1 .. Len(s) PROVE C[k - 1].bhr \in History /\ C[k].bhr = IF IsCond(s[k]) THEN update_bhr(C[k - 1].bhr, s[k].taken) ELSE C[k - 1].bhr
    OBVIOUS
  <2>1. C[k - 1] \in InContext /\ C[k] = After(C[k - 1], s[k])
    BY <1>2
  <2>2. C[k - 1].bhr \in History
    BY <2>1 DEF InContext
  <2> QED
    BY <2>1, <2>2, AfterIs
<1>4. \A k \in 1 .. Len(s) : g[k] = C[k].bhr /\ g[k - 1] = C[k - 1].bhr
  BY <1>1
<1>5. g[0] = c.bhr
  BY <1>1, <1>2
<1> HIDE DEF g
<1>6. \A k \in 1 .. Len(s) : g[k] = HistorySteps(s)[k][g[k - 1]]
  BY <1>3, <1>4 DEF HistorySteps
<1>7. Follows(g, c.bhr, HistorySteps(s), Len(s))
  BY <1>5, <1>6 DEF Follows
<1>8. Follows(BhrAlong(c.bhr, s), c.bhr, HistorySteps(s), Len(s))
  BY <1>1, BhrAlongIs
<1>9. \A k \in 0 .. Len(s) : g[k] = BhrAlong(c.bhr, s)[k]
  BY <1>1, <1>7, <1>8, FollowsUnique
<1> QED
  BY <1>9 DEF g, C

(* The history depends only on the kinds and the outcomes.                 *)
LEMMA BhrAgree ==
  ASSUME NEW h \in History, NEW b, NEW d, Len(b) \in Nat, Len(d) = Len(b),
         \A k \in 1 .. Len(b) : /\ b[k].taken \in BOOLEAN /\ d[k].taken = b[k].taken
                                /\ d[k].kind = b[k].kind
  PROVE  \A k \in 0 .. Len(b) : BhrAlong(h, d)[k] = BhrAlong(h, b)[k]
<1>1. Follows(BhrAlong(h, b), h, HistorySteps(b), Len(b))
  BY BhrAlongIs
<1>2. Follows(BhrAlong(h, d), h, HistorySteps(d), Len(b))
  BY BhrAlongIs
<1>3. \A k \in 1 .. Len(b) : HistorySteps(d)[k] = HistorySteps(b)[k]
  BY DEF HistorySteps, IsCond
<1> QED
  BY <1>1, <1>2, <1>3, FollowsUnique

(* A call or a return moves the top of the stack, other instructions leave *)
(* it, and only branches change the context at all.                        *)
LEMMA ContextStays ==
  ASSUME NEW c \in InContext, NEW s, Codes(s), NEW m \in Nat, m <= Len(s)
  PROVE  /\ (\A k \in 1 .. m : s[k].kind \notin {"call", "return"})
              => \A k \in 0 .. m : Contexts(c, s)[k].tos = c.tos /\ Contexts(c, s)[k].stack = c.stack
         /\ (\A k \in 1 .. m : ~IsBranch(s[k]))
              => \A k \in 0 .. m : Contexts(c, s)[k] = c
<1> DEFINE C == Contexts(c, s)
           S == {k \in 0 .. m : ~(C[k].tos = c.tos /\ C[k].stack = c.stack)}
           T == {k \in 0 .. m : C[k] # c}
<1>1. Len(s) \in Nat
  BY DEF Codes
<1>2. C[0] = c /\ \A k \in 1 .. m : C[k - 1] \in InContext /\ C[k] = After(C[k - 1], s[k])
  <2>1. \A k \in 1 .. m : k - 1 \in 0 .. Len(s) /\ k \in 1 .. Len(s)
    BY <1>1
  <2>2. /\ C \in [0 .. Len(s) -> InContext] /\ C[0] = c
        /\ \A k \in 1 .. Len(s) : C[k] = After(C[k - 1], s[k])
    BY ContextsIs
  <2> HIDE DEF C
  <2> QED
    BY <2>1, <2>2
<1> HIDE DEF C
<1>3. IsFiniteSet(S) /\ IsFiniteSet(T) /\ S \in SUBSET Int /\ T \in SUBSET Int
  <2>1. IsFiniteSet(0 .. m)
    BY FS_Interval
  <2>2. IsFiniteSet(S) /\ IsFiniteSet(T)
    BY <2>1, FS_Subset
  <2> QED
    BY <2>2
<1>4. ASSUME \A k \in 1 .. m : s[k].kind \notin {"call", "return"}, S # {} PROVE FALSE
  <2>1. PICK p \in S : \A q \in S : p <= q
    BY <1>3, <1>4, LeastExists
  <2>2. p \in 1 .. m /\ p - 1 \in 0 .. m /\ p - 1 \notin S
    BY <1>2, <2>1
  <2>3. C[p - 1].tos = c.tos /\ C[p - 1].stack = c.stack
    BY <2>2
  <2>4. C[p - 1] \in InContext /\ C[p] = After(C[p - 1], s[p]) /\ s[p].kind \notin {"call", "return"}
    BY <1>2, <1>4, <2>2
  <2>5. C[p].tos = C[p - 1].tos /\ C[p].stack = C[p - 1].stack
    BY <2>4, AfterIs
  <2> QED
    BY <2>1, <2>3, <2>5
<1>5. ASSUME \A k \in 1 .. m : ~IsBranch(s[k]), T # {} PROVE FALSE
  <2>1. PICK p \in T : \A q \in T : p <= q
    BY <1>3, <1>5, LeastExists
  <2>2. p \in 1 .. m /\ p - 1 \in 0 .. m /\ p - 1 \notin T
    BY <1>2, <2>1
  <2>3. C[p - 1] = c
    BY <2>2
  <2>4. C[p - 1] \in InContext /\ C[p] = After(C[p - 1], s[p]) /\ ~IsBranch(s[p])
    BY <1>2, <1>5, <2>2
  <2>5. C[p] = C[p - 1]
    BY <2>4, AfterIs
  <2> QED
    BY <2>1, <2>3, <2>5
<1> QED
  BY <1>4, <1>5 DEF C

-----------------------------------------------------------------------------
(* The inductive invariant.                                                *)

(* What a bundle is: it holds instructions up to the first that is taken   *)
(* or has an exception, FETCH2 is empty or was filled while FETCH1 ran,    *)
(* and once something was thrown away nothing more is. Only branches are   *)
(* resolved.                                                               *)
Bundling ==
  /\ ~fetch2.valid => fetch2.insns = <<>>
  /\ fetch2.valid /\ fetch2.misfetch => fetch_active
  /\ \A k \in 1 .. Len(fetch2.insns) :
       /\ fetch2.insns[k].taken => k = Len(fetch2.insns)
       /\ fetch2.insns[k].kind = "except" => k = Len(fetch2.insns)
       /\ fetch2.insns[k].kind \in {"jump", "call", "return"} => fetch2.insns[k].taken
  /\ dropped # <<>> => Behind(fetch2.insns) = <<>>
  /\ \A k \in 1 .. Len(window) : window[k].resolved => IsBranch(window[k].insn)

(* The bundle in FETCH2 has saved the context in front of it, and each of  *)
(* its instructions knows the history and the slot of its prediction.      *)
BundleContext ==
  fetch2.valid =>
    /\ fetch2.bhr = Contexts(base, Insns)[Len(window)].bhr
    /\ fetch2.tos = Contexts(base, Insns)[Len(window)].tos
    /\ \A k \in 1 .. Len(fetch2.insns) :
         /\ fetch2.insns[k].bhr = fetch2.bhr
         /\ fetch2.insns[k].slot = Conds(fetch2.insns, k - 1)

IInv ==
  /\ TypeOK
  /\ QueueExact
  /\ Bundling
  /\ FetchActiveExact
  /\ BundleContext
  /\ HistoryExact
  /\ LogExact

-----------------------------------------------------------------------------
(* What the type invariant says of the lists.                              *)

LEMMA WindowType ==
  ASSUME NEW w \in Seq(InFlight)
  PROVE  /\ Len(w) \in Nat /\ DOMAIN w = 1 .. Len(w)
         /\ \A k \in 1 .. Len(w) : w[k] \in InFlight
OBVIOUS

LEMMA FetchedCodes ==
  ASSUME NEW s \in Seq(Fetched)
  PROVE  /\ Codes(s) /\ Len(s) \in Nat /\ DOMAIN s = 1 .. Len(s)
         /\ \A k \in 1 .. Len(s) : s[k] \in Fetched
<1>1. Len(s) \in Nat /\ DOMAIN s = 1 .. Len(s) /\ \A k \in 1 .. Len(s) : s[k] \in Fetched
  OBVIOUS
<1> QED
  BY <1>1 DEF Codes, Fetched

LEMMA InsnsType ==
  ASSUME TypeOK
  PROVE  /\ Insns \in Seq(Fetched) /\ Len(Insns) = Len(window)
         /\ Len(window) \in Nat /\ DOMAIN window = 1 .. Len(window)
         /\ \A k \in 1 .. Len(window) : window[k] \in InFlight /\ Insns[k] = window[k].insn
         /\ Codes(Insns) /\ base \in InContext
<1>1. window \in Seq(InFlight)
  BY DEF TypeOK
<1>2. /\ Len(window) \in Nat /\ DOMAIN window = 1 .. Len(window)
      /\ \A k \in 1 .. Len(window) : window[k] \in InFlight
  BY <1>1, WindowType
<1>3. \A k \in 1 .. Len(window) : window[k].insn \in Fetched
  BY <1>2 DEF InFlight
<1>4. Insns = [k \in 1 .. Len(window) |-> window[k].insn]
  BY <1>2 DEF Insns
<1>5. Insns \in Seq(Fetched) /\ Len(Insns) = Len(window)
  BY <1>2, <1>3, <1>4
<1>6. base \in InContext
  BY DEF TypeOK, InContext
<1> QED
  BY <1>2, <1>4, <1>5, <1>6, FetchedCodes

(* The bundle, and what FETCH2 keeps of it.                                *)
LEMMA BundleType ==
  ASSUME TypeOK
  PROVE  /\ fetch2.insns \in Seq(Fetched) /\ Codes(fetch2.insns)
         /\ Len(fetch2.insns) \in 0 .. FetchWidth
         /\ dropped \in Seq(Fetched) /\ Codes(dropped)
         /\ fetch2.valid \in BOOLEAN /\ fetch2.misfetch \in BOOLEAN
         /\ fetch2.bhr \in History /\ fetch2.tos \in Tos /\ fetch2.content \in RetAddr \cup {0}
<1>1. fetch2 \in Bundled /\ Len(fetch2.insns) <= FetchWidth /\ dropped \in Seq(Fetched)
  BY DEF TypeOK
<1>2. /\ fetch2.insns \in Seq(Fetched) /\ fetch2.valid \in BOOLEAN /\ fetch2.misfetch \in BOOLEAN
      /\ fetch2.bhr \in History /\ fetch2.tos \in Tos /\ fetch2.content \in RetAddr \cup {0}
  BY <1>1 DEF Bundled
<1>3. Len(fetch2.insns) \in Nat
  BY <1>2
<1> QED
  BY <1>1, <1>2, <1>3, FetchedCodes, Sizes

(* Predecode splits the bundle behind its first serializing instruction.   *)
LEMMA KeptIs ==
  ASSUME NEW b \in Seq(Fetched)
  PROVE  /\ Kept(b) \in Seq(Fetched) /\ Behind(b) \in Seq(Fetched)
         /\ Len(Kept(b)) + Len(Behind(b)) = Len(b) /\ Len(Kept(b)) <= Len(b)
         /\ \A k \in 1 .. Len(Kept(b)) : Kept(b)[k] = b[k]
         /\ \A k \in 1 .. Len(Behind(b)) : Behind(b)[k] = b[Len(Kept(b)) + k]
         /\ \A k \in 1 .. Len(Kept(b)) - 1 : b[k].kind # "serial"
         /\ Len(Kept(b)) = Len(b) \/ (Len(Kept(b)) \in 1 .. Len(b) /\ b[Len(Kept(b))].kind = "serial")
         /\ (\A k \in 1 .. Len(b) : b[k].kind # "serial") => Kept(b) = b
<1>1. Len(b) \in Nat /\ DOMAIN b = 1 .. Len(b)
  OBVIOUS
<1>2. CASE Serials(b) = {}
  <2>1. Kept(b) = b
    BY <1>2 DEF Kept
  <2>2. Behind(b) = SubSeq(b, Len(b) + 1, Len(b))
    BY <2>1 DEF Behind
  <2>3. Behind(b) = <<>>
    BY <1>1, <2>2
  <2>4. \A k \in 1 .. Len(b) : b[k].kind # "serial"
    BY <1>1, <1>2 DEF Serials
  <2> QED
    BY <1>1, <2>1, <2>3, <2>4
<1>3. CASE Serials(b) # {}
  <2> DEFINE m == CHOOSE k \in Serials(b) : \A j \in Serials(b) : k <= j
  <2>1. Serials(b) \subseteq 1 .. Len(b)
    BY <1>1 DEF Serials
  <2>2. \E k \in Serials(b) : \A j \in Serials(b) : k <= j
    <3>1. IsFiniteSet(1 .. Len(b)) /\ Serials(b) \in SUBSET Int
      BY <1>1, <2>1, FS_Interval
    <3>2. IsFiniteSet(Serials(b))
      BY <2>1, <3>1, FS_Subset
    <3> QED
      BY <1>3, <3>1, <3>2, LeastExists
  <2>3. m \in Serials(b) /\ \A j \in Serials(b) : m <= j
    BY <2>2
  <2>4. Kept(b) = SubSeq(b, 1, m)
    BY <1>3 DEF Kept
  <2> HIDE DEF m
  <2>5. m \in 1 .. Len(b)
    BY <2>1, <2>3
  <2>6. Kept(b) \in Seq(Fetched) /\ Len(Kept(b)) = m /\ \A k \in 1 .. m : Kept(b)[k] = b[k]
    BY <1>1, <2>4, <2>5
  <2>7. Behind(b) = SubSeq(b, m + 1, Len(b))
    BY <2>6 DEF Behind
  <2>8. /\ Behind(b) \in Seq(Fetched) /\ Len(Behind(b)) = Len(b) - m
        /\ \A k \in 1 .. Len(b) - m : Behind(b)[k] = b[m + k]
    <3>0. m \in Nat /\ Len(b) \in Nat /\ m <= Len(b)
      BY <1>1, <2>5
    <3>1. m + 1 \in Int /\ Len(b) \in Int /\ Len(b) - (m + 1) + 1 = Len(b) - m
          /\ (IF m + 1 <= Len(b) THEN Len(b) - (m + 1) + 1 ELSE 0) = Len(b) - m
      BY <3>0
    <3>2. \A i \in m + 1 .. Len(b) : b[i] \in Fetched
      BY <1>1, <2>5
    <3>3. /\ Behind(b) \in Seq(Fetched) /\ Len(Behind(b)) = Len(b) - m
          /\ \A k \in 1 .. Len(b) - m : Behind(b)[k] = b[(m + 1) + k - 1]
      BY <2>7, <3>1, <3>2, SubSeqProperties
    <3>4. \A k \in 1 .. Len(b) - m : (m + 1) + k - 1 = m + k
      BY <1>1, <2>5
    <3> QED
      BY <3>3, <3>4
  <2>9. b[m].kind = "serial" /\ \A k \in 1 .. m - 1 : b[k].kind # "serial"
    <3>1. \A k \in 1 .. m - 1 : k \in 1 .. Len(b) /\ ~(m <= k)
      BY <1>1, <2>5
    <3>2. \A k \in 1 .. m - 1 : k \notin Serials(b)
      BY <2>3, <3>1
    <3> QED
      BY <1>1, <2>3, <3>1, <3>2 DEF Serials
  <2>10. Len(Behind(b)) = Len(b) - Len(Kept(b)) /\ Len(Kept(b)) = m
    BY <2>6, <2>8
  <2>11. ~(\A k \in 1 .. Len(b) : b[k].kind # "serial")
    BY <2>5, <2>9
  <2>12. Len(Kept(b)) + Len(Behind(b)) = Len(b) /\ Len(Kept(b)) <= Len(b)
         /\ Len(Kept(b)) \in 1 .. Len(b)
    BY <1>1, <2>5, <2>10
  <2> QED
    BY <2>6, <2>8, <2>9, <2>10, <2>11, <2>12
<1> QED
  BY <1>2, <1>3

-----------------------------------------------------------------------------
(* The circular queue.                                                     *)

(* The place n behind the head h, with the phase that goes with it.        *)
Place(i, ph, n, h, hp) ==
  /\ i = (h + n) % BqSize
  /\ ph = IF h + n >= BqSize THEN ~hp ELSE hp

LEMMA PlaceIs ==
  ASSUME NEW h \in Slot, NEW hp \in BOOLEAN, NEW n \in 0 .. BqSize, NEW i, NEW ph
  PROVE  Place(i, ph, n, h, hp) <=> /\ i = IF h + n < BqSize THEN h + n ELSE h + n - BqSize
                                    /\ ph = IF h + n < BqSize THEN hp ELSE ~hp
<1>1. BqSize \in Nat \ {0} /\ h \in 0 .. BqSize - 1
  BY Sizes
<1>2. (h + n) % BqSize = IF h + n < BqSize THEN h + n ELSE h + n - BqSize
  BY <1>1, Forward
<1>3. (h + n < BqSize) <=> ~(h + n >= BqSize)
  BY <1>1
<1> QED
  BY <1>2, <1>3, Zenon DEF Place

LEMMA PlaceType ==
  ASSUME NEW h \in Slot, NEW hp \in BOOLEAN, NEW n \in 0 .. BqSize, NEW i, NEW ph,
         Place(i, ph, n, h, hp)
  PROVE  i \in Slot /\ ph \in BOOLEAN
<1>1. /\ i = IF h + n < BqSize THEN h + n ELSE h + n - BqSize
      /\ ph = IF h + n < BqSize THEN hp ELSE ~hp
  BY PlaceIs
<1>2. i \in Slot
  BY <1>1, Sizes
<1>3. ph \in BOOLEAN
  BY <1>1, Zenon
<1> QED
  BY <1>2, <1>3

(* Places less than a round apart differ.                                  *)
LEMMA PlacesApart ==
  ASSUME NEW h \in Slot, NEW hp \in BOOLEAN, NEW m \in 0 .. BqSize - 1, NEW n \in 0 .. BqSize - 1,
         NEW i, NEW ph, NEW qh, Place(i, ph, m, h, hp), Place(i, qh, n, h, hp)
  PROVE  m = n
<1>1. BqSize \in Nat \ {0} /\ h \in 0 .. BqSize - 1 /\ m \in 0 .. BqSize /\ n \in 0 .. BqSize
  BY Sizes
<1>2. i = IF h + n < BqSize THEN h + n ELSE h + n - BqSize
  BY <1>1, PlaceIs
<1>3. i = IF h + m < BqSize THEN h + m ELSE h + m - BqSize
  BY <1>1, PlaceIs
<1> QED
  BY <1>1, <1>2, <1>3

(* push(): m places further, and the phase turns at the wrap.              *)
LEMMA PlaceForward ==
  ASSUME NEW h \in Slot, NEW hp \in BOOLEAN, NEW n \in 0 .. BqSize, NEW m \in 0 .. BqSize,
         n + m <= BqSize, NEW i, NEW ph, Place(i, ph, n, h, hp), NEW l, l = n + m
  PROVE  /\ Place((i + m) % BqSize, IF i + m >= BqSize THEN ~ph ELSE ph, l, h, hp)
         /\ m < BqSize => Place((i + m) % BqSize, IF (i + m) % BqSize < i THEN ~ph ELSE ph, l, h, hp)
<1>1. BqSize \in Nat \ {0} /\ h \in 0 .. BqSize - 1 /\ l \in 0 .. BqSize
  BY Sizes
<1>2. /\ i = IF h + n < BqSize THEN h + n ELSE h + n - BqSize
      /\ ph = IF h + n < BqSize THEN hp ELSE ~hp
  BY PlaceIs
<1>3. i \in 0 .. BqSize - 1
  BY <1>1, <1>2
<1>4. (i + m) % BqSize = IF i + m < BqSize THEN i + m ELSE i + m - BqSize
  BY <1>1, <1>3, Forward
<1>5. (i + m) % BqSize = IF h + l < BqSize THEN h + l ELSE h + l - BqSize
  BY <1>1, <1>2, <1>4
<1>6. (h + l < BqSize) <=> (h + n < BqSize /\ ~(i + m >= BqSize))
  BY <1>1, <1>2
<1>7. ~(h + n < BqSize) => ~(i + m >= BqSize)
  BY <1>1, <1>2
<1>8. (IF i + m >= BqSize THEN ~ph ELSE ph) = IF h + l < BqSize THEN hp ELSE ~hp
  BY <1>2, <1>6, <1>7, Zenon
<1>9. m < BqSize => ((i + m) % BqSize < i <=> i + m >= BqSize)
  BY <1>1, <1>3, <1>4
<1>10. Place((i + m) % BqSize, IF i + m >= BqSize THEN ~ph ELSE ph, l, h, hp)
  BY <1>1, <1>5, <1>8, PlaceIs
<1> QED
  BY <1>9, <1>10, Zenon

(* rollback(): the place behind i.                                         *)
LEMMA PlaceSucc ==
  ASSUME NEW h \in Slot, NEW hp \in BOOLEAN, NEW n \in 0 .. BqSize - 1,
         NEW i, NEW ph, Place(i, ph, n, h, hp), NEW l, l = n + 1
  PROVE  Place(Succ(i), Phase(i, ph), l, h, hp) /\ Succ(i) \in Slot /\ Phase(i, ph) \in BOOLEAN
<1>1. BqSize \in Nat \ {0} /\ h \in 0 .. BqSize - 1 /\ n \in 0 .. BqSize /\ 1 \in 0 .. BqSize
      /\ l \in 0 .. BqSize /\ n + 1 <= BqSize
  BY Sizes
<1>2. i \in 0 .. BqSize - 1
  BY <1>1, PlaceType, Sizes
<1>3. Place((i + 1) % BqSize, IF i + 1 >= BqSize THEN ~ph ELSE ph, l, h, hp)
  BY <1>1, PlaceForward
<1>4. i + 1 >= BqSize <=> i + 1 = BqSize
  BY <1>1, <1>2
<1>5. Place(Succ(i), Phase(i, ph), l, h, hp)
  BY <1>3, <1>4, Zenon DEF Succ, Phase
<1> QED
  BY <1>1, <1>5, PlaceType

(* pop(): the head moves, and everybody is one nearer to it.               *)
LEMMA PlaceHead ==
  ASSUME NEW h \in Slot, NEW hp \in BOOLEAN, NEW n \in 1 .. BqSize,
         NEW i, NEW ph, Place(i, ph, n, h, hp), NEW l, l = n - 1
  PROVE  Place(i, ph, l, Succ(h), Phase(h, hp)) /\ Succ(h) \in Slot /\ Phase(h, hp) \in BOOLEAN
<1> DEFINE g == Succ(h)
           gp == Phase(h, hp)
<1>1. BqSize \in Nat \ {0} /\ h \in 0 .. BqSize - 1 /\ n \in 0 .. BqSize /\ 1 \in 0 .. BqSize
      /\ l \in 0 .. BqSize
  BY Sizes
<1>2. /\ i = IF h + n < BqSize THEN h + n ELSE h + n - BqSize
      /\ ph = IF h + n < BqSize THEN hp ELSE ~hp
  BY <1>1, PlaceIs
<1>3. g = IF h + 1 < BqSize THEN h + 1 ELSE h + 1 - BqSize
  BY <1>1, Forward DEF Succ
<1>4. g \in Slot
  BY <1>1, <1>3, Sizes
<1>5. gp = IF h + 1 = BqSize THEN ~hp ELSE hp
  BY Zenon DEF Phase
<1>6. gp \in BOOLEAN
  BY <1>5, Zenon
<1>7. i = IF g + l < BqSize THEN g + l ELSE g + l - BqSize
  BY <1>1, <1>2, <1>3
<1>8. /\ h + 1 = BqSize => (~(h + n < BqSize) /\ g + l < BqSize)
      /\ h + 1 # BqSize => ((h + n < BqSize) <=> (g + l < BqSize))
  BY <1>1, <1>3
<1>9. ph = IF g + l < BqSize THEN gp ELSE ~gp
  BY <1>2, <1>5, <1>8, Zenon
<1> HIDE DEF g, gp
<1>10. Place(i, ph, l, g, gp)
  BY <1>1, <1>4, <1>6, <1>7, <1>9, PlaceIs
<1> QED
  BY <1>4, <1>6, <1>10 DEF g, gp

(* A queue whose tail stands where its head stands is empty.               *)
LEMMA PlaceZero ==
  ASSUME NEW h \in Slot, NEW hp \in BOOLEAN, NEW n \in 0 .. BqSize
  PROVE  Place(h, hp, n, h, hp) <=> n = 0
<1>1. BqSize \in Nat \ {0} /\ h \in 0 .. BqSize - 1
  BY Sizes
<1>2. CASE n = 0
  <2>1. h = (IF h + n < BqSize THEN h + n ELSE h + n - BqSize) /\ h + n < BqSize
    BY <1>1, <1>2
  <2>2. hp = IF h + n < BqSize THEN hp ELSE ~hp
    BY <2>1, Zenon
  <2> QED
    BY <1>2, <2>1, <2>2, PlaceIs
<1>3. CASE n = BqSize
  <2>1. ~(h + n < BqSize) /\ n # 0
    BY <1>1, <1>3
  <2>2. hp # (IF h + n < BqSize THEN hp ELSE ~hp)
    BY <2>1, Zenon
  <2> QED
    BY <2>1, <2>2, PlaceIs
<1>4. CASE n # 0 /\ n # BqSize
  <2>1. h # (IF h + n < BqSize THEN h + n ELSE h + n - BqSize)
    BY <1>1, <1>4
  <2> QED
    BY <1>4, <2>1, PlaceIs
<1> QED
  BY <1>2, <1>3, <1>4

-----------------------------------------------------------------------------
(* What a bundle is when it is fetched.                                    *)

LEMMA LenIs ==
  ASSUME NEW X, NEW n \in Nat, NEW b \in [1 .. n -> X]
  PROVE  Len(b) = n /\ b \in Seq(X)
<1>1. b \in Seq(X) /\ DOMAIN b = 1 .. n
  OBVIOUS
<1>2. Len(b) \in Nat /\ DOMAIN b = 1 .. Len(b)
  BY <1>1
<1>3. 1 .. n = 1 .. Len(b)
  BY <1>1, <1>2
<1>4. \A i, j \in Nat : 1 .. i = 1 .. j => i = j
  <2> SUFFICES ASSUME NEW i \in Nat, NEW j \in Nat, 1 .. i = 1 .. j PROVE i = j
    OBVIOUS
  <2>1. Cardinality(1 .. i) = i /\ Cardinality(1 .. j) = j
    BY FS_Interval
  <2> QED
    BY <2>1
<1> QED
  BY <1>1, <1>2, <1>3, <1>4

LEMMA ConcatIs ==
  ASSUME NEW X, NEW s \in Seq(X), NEW t \in Seq(X), NEW u, u = s \o t
  PROVE  /\ u \in Seq(X) /\ Len(u) = Len(s) + Len(t)
         /\ Len(s) \in Nat /\ Len(t) \in Nat
         /\ \A k \in 1 .. Len(s) : u[k] = s[k]
         /\ \A k \in 1 .. Len(t) : u[Len(s) + k] = t[k]
<1>1. u \in Seq(X) /\ Len(u) = Len(s) + Len(t)
  OBVIOUS
<1>2. Len(s) \in Nat /\ Len(t) \in Nat
  OBVIOUS
<1>3. \A k \in 1 .. Len(s) : u[k] = s[k]
  BY <1>2
<1>4. \A k \in 1 .. Len(t) : u[Len(s) + k] = t[k]
  BY <1>2
<1> QED
  BY <1>1, <1>2, <1>3, <1>4

LEMMA BundlesAre ==
  ASSUME NEW b \in Bundles
  PROVE  /\ Len(b) \in 0 .. FetchWidth /\ DOMAIN b = 1 .. Len(b)
         /\ \A k \in 1 .. Len(b) : b[k] \in Insn
         /\ \A k \in 1 .. Len(b) - 1 : ~b[k].taken /\ b[k].kind # "except"
<1>1. PICK n \in 0 .. FetchWidth : b \in [1 .. n -> Insn]
  BY DEF Bundles
<1>2. n \in Nat
  BY <1>1, Sizes
<1>3. Len(b) = n /\ DOMAIN b = 1 .. n
  <2>1. b \in [1 .. n -> Insn] /\ n \in Nat
    BY <1>1, <1>2
  <2>2. DOMAIN b = 1 .. n
    BY <2>1
  <2> HIDE DEF Insn
  <2>3. Len(b) = n
    BY <2>1, LenIs
  <2> QED
    BY <2>2, <2>3
<1>4. \A k \in 1 .. Len(b) - 1 : Continues(b, k)
  BY DEF Bundles
<1> QED
  BY <1>1, <1>3, <1>4 DEF Continues

LEMMA InsnIs ==
  ASSUME NEW i \in Insn
  PROVE  /\ i.kind \in Branch \cup Stop /\ i.taken \in BOOLEAN /\ i.ra \in RetAddr \cup {0}
         /\ i.kind \in {"jump", "call", "return"} => i.taken
         /\ i.kind \in Stop => ~i.taken
BY DEF Insn, Branch, Stop

(* The bundle with its predictions.                                        *)
LEMMA PredictedIs ==
  ASSUME NEW b \in Bundles, bhr \in History
  PROVE  /\ Predicted(b) \in Seq(Fetched) /\ Len(Predicted(b)) = Len(b)
         /\ \A k \in 1 .. Len(b) :
              /\ Predicted(b)[k].kind = b[k].kind /\ Predicted(b)[k].taken = b[k].taken
              /\ Predicted(b)[k].ra = b[k].ra /\ Predicted(b)[k].bhr = bhr
              /\ Predicted(b)[k].slot = Conds(Predicted(b), k - 1)
<1>1. Len(b) \in Nat /\ Len(b) <= FetchWidth /\ DOMAIN b = 1 .. Len(b) /\ FetchWidth \in Nat
  BY BundlesAre, Sizes
<1> DEFINE p(k) == [kind |-> b[k].kind, taken |-> b[k].taken, ra |-> b[k].ra,
                    slot |-> Conds(b, k - 1), bhr |-> bhr]
<1>2. Predicted(b) = [k \in 1 .. Len(b) |-> p(k)]
  BY <1>1 DEF Predicted
<1>3. \A k \in 1 .. Len(b) : p(k) \in Fetched
  <2> SUFFICES ASSUME NEW k \in 1 .. Len(b) PROVE p(k) \in Fetched
    OBVIOUS
  <2>1. b[k].kind \in Branch \cup Stop /\ b[k].taken \in BOOLEAN /\ b[k].ra \in RetAddr \cup {0}
    BY BundlesAre, InsnIs
  <2>2. k - 1 \in Nat /\ k - 1 <= FetchWidth
    BY <1>1
  <2>3. Conds(b, k - 1) \in 0 .. k - 1
    BY <2>2, BranchesIs
  <2>4. Conds(b, k - 1) \in 0 .. FetchWidth
    BY <1>1, <2>2, <2>3
  <2> QED
    BY <2>1, <2>4 DEF Fetched
<1>4. Predicted(b) \in Seq(Fetched) /\ Len(Predicted(b)) = Len(b)
  <2> HIDE DEF p
  <2> QED
    BY <1>1, <1>2, <1>3
<1>5. \A k \in 1 .. Len(b) : Predicted(b)[k] = p(k)
  BY <1>2
<1>6. \A k \in 1 .. Len(b) : Conds(Predicted(b), k - 1) = Conds(b, k - 1)
  <2> SUFFICES ASSUME NEW k \in 1 .. Len(b) PROVE Conds(Predicted(b), k - 1) = Conds(b, k - 1)
    OBVIOUS
  <2>1. \A j \in 1 .. k - 1 : j \in 1 .. Len(b)
    BY <1>1
  <2>2. \A j \in 1 .. k - 1 : IsCond(Predicted(b)[j]) <=> IsCond(b[j])
    <3>1. \A j \in 1 .. k - 1 : Predicted(b)[j].kind = b[j].kind
      <4>1. \A j \in 1 .. k - 1 : p(j).kind = b[j].kind
        OBVIOUS
      <4> HIDE DEF p
      <4> QED
        BY <1>5, <2>1, <4>1
    <3> QED
      BY <3>1 DEF IsCond
  <2>3. {j \in 1 .. k - 1 : IsCond(Predicted(b)[j])} = {j \in 1 .. k - 1 : IsCond(b[j])}
    BY <2>2
  <2> QED
    BY <2>3 DEF Conds
<1>7. \A k \in 1 .. Len(b) :
        /\ Predicted(b)[k].kind = b[k].kind /\ Predicted(b)[k].taken = b[k].taken
        /\ Predicted(b)[k].ra = b[k].ra /\ Predicted(b)[k].bhr = bhr
        /\ Predicted(b)[k].slot = Conds(Predicted(b), k - 1)
  <2> SUFFICES ASSUME NEW k \in 1 .. Len(b)
               PROVE  /\ Predicted(b)[k].kind = b[k].kind /\ Predicted(b)[k].taken = b[k].taken
                      /\ Predicted(b)[k].ra = b[k].ra /\ Predicted(b)[k].bhr = bhr
                      /\ Predicted(b)[k].slot = Conds(Predicted(b), k - 1)
    OBVIOUS
  <2>1. Predicted(b)[k] = p(k) /\ Conds(Predicted(b), k - 1) = Conds(b, k - 1)
    BY <1>5, <1>6
  <2> QED
    BY <2>1
<1> QED
  BY <1>4, <1>7

-----------------------------------------------------------------------------
(* Each action keeps the types.                                            *)

LEMMA EmptyType == NoBundle \in Bundled /\ Len(NoBundle.insns) <= FetchWidth /\ NoBundle.insns = <<>> /\ ~NoBundle.valid
<1>1. [k \in 1 .. BhrLen |-> FALSE] \in History
  BY DEF History
<1>2. 0 \in Tos /\ 0 <= FetchWidth
  BY Sizes
<1>3. <<>> \in Seq(Fetched) /\ Len(<<>>) = 0
  OBVIOUS
<1> QED
  BY <1>1, <1>2, <1>3 DEF NoBundle, Bundled

LEMMA InitType ==
  ASSUME Init
  PROVE  TypeOK
<1>1. [k \in 1 .. BhrLen |-> FALSE] \in History
  BY DEF History
<1>2. 0 \in Tos /\ 0 \in Slot /\ WindowSize >= 0
  BY Sizes
<1>3. NoEntry \in Logged
  <2>1. 0 \in 0 .. FetchWidth
    BY Sizes
  <2> QED
    BY <1>1, <1>2, <2>1 DEF NoEntry, Logged, Branch
<1>4. fetch2 \in Bundled /\ Len(fetch2.insns) <= FetchWidth
  BY EmptyType DEF Init
<1>5. window \in Seq(InFlight) /\ Len(window) <= WindowSize /\ dropped \in Seq(Fetched)
  BY <1>2 DEF Init
<1>6. base \in [bhr : History, tos : Tos, stack : Seq(RetAddr \cup {0})]
  <2>1. <<>> \in Seq(RetAddr \cup {0})
    OBVIOUS
  <2> QED
    BY <1>1, <1>2, <2>1 DEF Init
<1>7. log \in [Slot -> Logged] /\ ras \in [Tos -> RetAddr \cup {0}]
  BY <1>3 DEF Init
<1> QED
  BY <1>1, <1>2, <1>4, <1>5, <1>6, <1>7 DEF Init, TypeOK

LEMMA Fetch1Type ==
  ASSUME TypeOK, Fetch1
  PROVE  TypeOK'
<1>1. PICK b \in Bundles, misfetch \in BOOLEAN :
        /\ fetch2' = [valid |-> TRUE, insns |-> Predicted(b), misfetch |-> misfetch,
                      bhr |-> bhr, tos |-> tos, content |-> ras[tos]]
        /\ SpecUpdate(b)
        /\ UNCHANGED <<fetch_active, bq, log, ras_tail, window, dropped, base, program>>
  BY DEF Fetch1
<1>2. bhr \in History /\ tos \in Tos /\ ras \in [Tos -> RetAddr \cup {0}]
  BY DEF TypeOK
<1>3. Len(b) \in 0 .. FetchWidth /\ \A k \in 1 .. Len(b) : b[k].taken \in BOOLEAN /\ b[k].ra \in RetAddr \cup {0}
  BY BundlesAre, InsnIs
<1>4. fetch2' \in Bundled /\ Len(fetch2'.insns) <= FetchWidth
  <2>1. Predicted(b) \in Seq(Fetched) /\ Len(Predicted(b)) <= FetchWidth
    BY <1>2, <1>3, PredictedIs, Sizes
  <2> QED
    BY <1>1, <1>2, <2>1 DEF Bundled
<1>5. bhr' \in History
  <2>1. BhrAlong(bhr, b) \in [0 .. Len(b) -> History] /\ Len(b) \in Nat
    BY <1>2, <1>3, BhrAlongIs, Sizes
  <2>2. bhr' = BhrAlong(bhr, b)[Len(b)]
    BY <1>1 DEF SpecUpdate, BhrAfter
  <2> QED
    BY <2>1, <2>2
<1>6. Up(tos) \in Tos /\ Down(tos) \in Tos
  BY <1>2, Sizes DEF Up, Down
<1>7. tos' \in Tos
  BY <1>1, <1>2, <1>6 DEF SpecUpdate
<1>8. ras' \in [Tos -> RetAddr \cup {0}]
  <2>1. CASE End(b) = "call"
    <3>1. b # <<>>
      BY <2>1 DEF End
    <3>2. Len(b) \in 1 .. Len(b)
      <4>1. Len(b) # 0
        <5>1. CASE Len(b) = 0
          <6>1. b \in Seq(Insn)
            BY BundlesAre, Sizes DEF Bundles
          <6> QED
            BY <3>1, <5>1, <6>1
        <5> QED
          BY <5>1
      <4> QED
        BY <1>3, <4>1, Sizes
    <3>3. Last(b).ra \in RetAddr \cup {0}
      BY <1>3, <3>2 DEF Last
    <3>4. ras' = [ras EXCEPT ![Up(tos)] = Last(b).ra]
      BY <1>1, <2>1 DEF SpecUpdate
    <3> QED
      BY <1>2, <1>6, <3>3, <3>4
  <2>2. CASE End(b) # "call"
    BY <1>1, <1>2, <2>2 DEF SpecUpdate
  <2> QED
    BY <2>1, <2>2
<1> HIDE DEF Bundled
<1> QED
  BY <1>1, <1>4, <1>5, <1>7, <1>8 DEF TypeOK, bq

LEMMA MisfetchType ==
  ASSUME TypeOK, Fetch2Misfetch
  PROVE  TypeOK'
<1>1. fetch2' \in Bundled /\ Len(fetch2'.insns) <= FetchWidth
  BY EmptyType DEF Fetch2Misfetch
<1>2. fetch2.bhr \in History /\ fetch2.tos \in Tos
  BY BundleType
<1> HIDE DEF Bundled, NoBundle
<1> QED
  BY <1>1, <1>2 DEF TypeOK, Fetch2Misfetch, bq

(* What both ways of leaving predecode do.                                 *)
LEMMA PredecodeType ==
  ASSUME TypeOK, Predecode
  PROVE  /\ fetch_active' \in BOOLEAN /\ dropped' \in Seq(Fetched)
         /\ Kept(fetch2.insns) \in Seq(Fetched) /\ Len(Kept(fetch2.insns)) \in 0 .. FetchWidth
<1>1. fetch2.insns \in Seq(Fetched) /\ Len(fetch2.insns) \in 0 .. FetchWidth /\ dropped \in Seq(Fetched)
  BY BundleType
<1>2. Kept(fetch2.insns) \in Seq(Fetched) /\ Behind(fetch2.insns) \in Seq(Fetched)
      /\ Len(Kept(fetch2.insns)) <= Len(fetch2.insns)
  BY <1>1, KeptIs
<1>3. dropped' = dropped \o Behind(fetch2.insns)
  BY DEF Predecode
<1>4. fetch_active' \in BOOLEAN
  BY Zenon DEF Predecode
<1>5. dropped' \in Seq(Fetched)
  BY <1>1, <1>2, <1>3
<1>6. Len(Kept(fetch2.insns)) \in Nat
  BY <1>2
<1> QED
  BY <1>1, <1>2, <1>4, <1>5, <1>6, Sizes

LEMMA StallType ==
  ASSUME TypeOK, Fetch2Stall
  PROVE  TypeOK'
<1> DEFINE K == Kept(fetch2.insns)
<1>1. /\ fetch_active' \in BOOLEAN /\ dropped' \in Seq(Fetched)
      /\ K \in Seq(Fetched) /\ Len(K) \in 0 .. FetchWidth
  BY PredecodeType DEF Fetch2Stall
<1>2. fetch2' = [fetch2 EXCEPT !.insns = K] /\ fetch2 \in Bundled
  BY DEF Fetch2Stall, TypeOK
<1> HIDE DEF K
<1>3. fetch2' \in Bundled /\ fetch2'.insns = K
  BY <1>1, <1>2 DEF Bundled
<1> HIDE DEF Bundled
<1> QED
  BY <1>1, <1>3 DEF TypeOK, Fetch2Stall, bq

(* What enters the window and the log.                                     *)
LEMMA ItemIs ==
  ASSUME TypeOK, NEW b \in Seq(Fetched), NEW k \in 1 .. Len(b)
  PROVE  /\ Item(b, k) \in InFlight /\ Item(b, k).insn = b[k] /\ ~Item(b, k).resolved
         /\ IsBranch(b[k]) => Item(b, k).tag = PredTag(b, k)
         /\ IsBranch(b[k]) => Item(b, k).phase = PredPhase(b, k)
         /\ PredTag(b, k) \in Slot
<1>1. b[k] \in Fetched /\ k - 1 \in Nat
  BY FetchedCodes
<1>2. Branches(b, k - 1) \in 0 .. k - 1
  BY <1>1, BranchesIs
<1>3. PredTag(b, k) \in Slot /\ 0 \in Slot
  <2>1. bq_tail \in Slot
    BY DEF TypeOK
  <2>2. bq_tail + Branches(b, k - 1) \in Int
    BY <1>1, <1>2, <2>1, Sizes
  <2> QED
    BY <2>2, Sizes DEF PredTag
<1>4. PredPhase(b, k) \in BOOLEAN
  BY Zenon DEF PredPhase, TypeOK
<1> QED
  BY <1>1, <1>3, <1>4 DEF Item, InFlight

LEMMA EntryIs ==
  ASSUME TypeOK, NEW b \in Seq(Fetched), Len(b) <= FetchWidth, NEW k \in 1 .. Len(b), IsBranch(b[k])
  PROVE  /\ Entry(b, k) \in Logged
         /\ BhrAlong(fetch2.bhr, b)[k - 1] \in History
<1>1. b[k] \in Fetched /\ k - 1 \in 0 .. Len(b) /\ k - 1 \in Nat /\ Len(b) \in Nat
      /\ \A j \in 1 .. Len(b) : b[j].taken \in BOOLEAN
  BY FetchedCodes DEF Codes
<1>2. b[k].kind \in Branch /\ b[k].taken \in BOOLEAN
  BY <1>1 DEF IsBranch, Fetched
<1>3. Conds(b, k - 1) \in 0 .. k - 1 /\ FetchWidth \in Nat
  BY <1>1, BranchesIs, Sizes
<1>4. Conds(b, k - 1) \in 0 .. FetchWidth /\ 0 \in 0 .. FetchWidth
  BY <1>1, <1>3
<1>5. fetch2.bhr \in History /\ fetch2.tos \in Tos /\ fetch2.content \in RetAddr \cup {0}
  BY BundleType
<1>6. BhrAlong(fetch2.bhr, b) \in [0 .. Len(b) -> History]
  BY <1>1, <1>5, BhrAlongIs
<1>7. BhrAlong(fetch2.bhr, b)[k - 1] \in History
  BY <1>1, <1>6
<1> QED
  BY <1>2, <1>4, <1>5, <1>7 DEF Entry, Logged

LEMMA AdvanceWindow ==
  ASSUME TypeOK, Fetch2Advance
  PROVE  /\ window' \in Seq(InFlight) /\ Len(window') = Len(window) + Len(Kept(fetch2.insns))
         /\ Len(window') <= WindowSize
         /\ \A k \in 1 .. Len(window) : window'[k] = window[k]
         /\ \A k \in 1 .. Len(Kept(fetch2.insns)) :
              window'[Len(window) + k] = Item(Kept(fetch2.insns), k)
<1> DEFINE K == Kept(fetch2.insns)
<1>1. K \in Seq(Fetched) /\ Len(K) \in Nat /\ DOMAIN K = 1 .. Len(K)
  <2>1. K \in Seq(Fetched)
    BY PredecodeType DEF Fetch2Advance
  <2> HIDE DEF K
  <2> QED
    BY <2>1, FetchedCodes
<1>2. window \in Seq(InFlight) /\ Len(window) \in Nat
  BY InsnsType DEF TypeOK
<1>3. window' = window \o [k \in DOMAIN K |-> Item(K, k)] /\ Len(window) + Len(K) <= WindowSize
  BY DEF Fetch2Advance
<1> DEFINE I == [k \in 1 .. Len(K) |-> Item(K, k)]
<1> HIDE DEF K
<1>4. \A k \in 1 .. Len(K) : Item(K, k) \in InFlight
  BY <1>1, ItemIs
<1>5. I \in [1 .. Len(K) -> InFlight] /\ \A k \in 1 .. Len(K) : I[k] = Item(K, k)
  BY <1>4
<1>6. window' = window \o I
  BY <1>1, <1>3
<1> HIDE DEF I
<1>7. I \in Seq(InFlight) /\ Len(I) = Len(K)
  BY <1>1, <1>5, LenIs
<1>8. window' \in Seq(InFlight) /\ Len(window') = Len(window) + Len(K)
      /\ (\A k \in 1 .. Len(window) : window'[k] = window[k])
      /\ \A k \in 1 .. Len(K) : window'[Len(window) + k] = I[k]
  <2>1. /\ window' \in Seq(InFlight) /\ Len(window') = Len(window) + Len(I)
        /\ \A k \in 1 .. Len(window) : window'[k] = window[k]
        /\ \A k \in 1 .. Len(I) : window'[Len(window) + k] = I[k]
    <3>1. window \in Seq(InFlight) /\ I \in Seq(InFlight)
      BY <1>2, <1>7
    <3>2. PICK u : u = window'
      OBVIOUS
    <3>3. u = window \o I
      BY <1>6, <3>2
    <3>4. u \in Seq(InFlight)
      BY <3>1, <3>3, ConcatIs
    <3>5. Len(u) = Len(window) + Len(I)
      BY <3>1, <3>3, ConcatIs
    <3>6. \A k \in 1 .. Len(window) : u[k] = window[k]
      BY <3>1, <3>3, ConcatIs
    <3>7. \A k \in 1 .. Len(I) : u[Len(window) + k] = I[k]
      BY <3>1, <3>3, ConcatIs
    <3> QED
      BY <3>2, <3>4, <3>5, <3>6, <3>7
  <2> QED
    BY <1>7, <2>1
<1> QED
  BY <1>3, <1>5, <1>8 DEF K

LEMMA AdvanceType ==
  ASSUME TypeOK, Fetch2Advance
  PROVE  TypeOK'
<1> DEFINE K == Kept(fetch2.insns)
           N == Branches(K, Len(K))
           At(t) == {k \in DOMAIN K : IsBranch(K[k]) /\ PredTag(K, k) = t}
<1>1. /\ fetch_active' \in BOOLEAN /\ dropped' \in Seq(Fetched)
      /\ K \in Seq(Fetched) /\ Len(K) \in 0 .. FetchWidth
  BY PredecodeType DEF Fetch2Advance
<1>2. window' \in Seq(InFlight) /\ Len(window') <= WindowSize
  BY AdvanceWindow
<1>3. fetch2' \in Bundled /\ Len(fetch2'.insns) <= FetchWidth
  BY EmptyType DEF Fetch2Advance
<1>4. log' = [t \in Slot |-> IF At(t) = {} THEN log[t] ELSE Entry(K, CHOOSE k \in At(t) : TRUE)]
  BY DEF Fetch2Advance
<1>5. bq_tail' = (bq_tail + N) % BqSize /\ ras_tail' = (ras_tail + N) % BqSize
      /\ bq_tail_phase' = (IF bq_tail + N >= BqSize THEN ~bq_tail_phase ELSE bq_tail_phase)
      /\ UNCHANGED <<bhr, ras, tos, bq_head, bq_head_phase, base, program>>
  BY Zenon DEF Fetch2Advance
<1>6. K \in Seq(Fetched) /\ DOMAIN K = 1 .. Len(K) /\ Len(K) \in Nat /\ Len(K) <= FetchWidth
  <2> HIDE DEF K
  <2> QED
    BY <1>1, FetchedCodes, Sizes
<1> HIDE DEF K
<1>7. N \in Nat
  BY <1>6, BranchesIs
<1> HIDE DEF N
<1>8. bq_tail' \in Slot /\ ras_tail' \in Slot
  <2>1. bq_tail \in Slot /\ ras_tail \in Slot
    BY DEF TypeOK
  <2>2. bq_tail + N \in Int /\ ras_tail + N \in Int
    BY <1>7, <2>1, Sizes
  <2> QED
    BY <1>5, <2>2, Sizes
<1>9. bq_tail_phase' \in BOOLEAN
  BY <1>5, Zenon DEF TypeOK
<1>10. log' \in [Slot -> Logged]
  <2>1. ASSUME NEW t \in Slot PROVE (IF At(t) = {} THEN log[t] ELSE Entry(K, CHOOSE k \in At(t) : TRUE)) \in Logged
    <3>1. CASE At(t) = {}
      BY <3>1 DEF TypeOK
    <3>2. CASE At(t) # {}
      <4>1. PICK k : k = CHOOSE l \in At(t) : TRUE
        OBVIOUS
      <4>2. k \in At(t)
        BY <3>2, <4>1
      <4>3. k \in 1 .. Len(K) /\ IsBranch(K[k])
        BY <1>6, <4>2
      <4>4. Entry(K, k) \in Logged
        BY <1>6, <4>3, EntryIs
      <4> QED
        BY <3>2, <4>1, <4>4
    <3> QED
      BY <3>1, <3>2
  <2> HIDE DEF At
  <2> QED
    BY <1>4, <2>1
<1> HIDE DEF Bundled, InFlight, Logged, Fetched
<1> QED
  BY <1>1, <1>2, <1>3, <1>5, <1>8, <1>9, <1>10 DEF TypeOK

LEMMA ResolveIs ==
  ASSUME TypeOK, NEW i \in DOMAIN window, Resolve(i)
  PROVE  /\ window' \in Seq(InFlight) /\ Len(window') = Len(window) /\ i \in 1 .. Len(window)
         /\ \A k \in 1 .. Len(window) :
              /\ window'[k].insn = window[k].insn /\ window'[k].tag = window[k].tag
              /\ window'[k].phase = window[k].phase
              /\ window'[k].resolved => window[k].resolved \/ k = i
         /\ Insns' = Insns
<1>1. /\ Len(window) \in Nat /\ DOMAIN window = 1 .. Len(window)
      /\ \A k \in 1 .. Len(window) : window[k] \in InFlight
  BY InsnsType
<1>2. window' = [window EXCEPT ![i].resolved = TRUE] /\ window \in Seq(InFlight)
  BY DEF Resolve, TypeOK
<1> DEFINE y == [window[i] EXCEPT !.resolved = TRUE]
<1>3. i \in 1 .. Len(window) /\ window[i] \in InFlight
  BY <1>1
<1>4. /\ y \in InFlight /\ y.insn = window[i].insn /\ y.tag = window[i].tag
  BY <1>3 DEF InFlight
<1>5. y.phase = window[i].phase
  BY <1>3, Zenon DEF InFlight
<1>6. window' = [window EXCEPT ![i] = y]
  BY <1>2
<1> HIDE DEF y
<1>7. window' \in Seq(InFlight) /\ Len(window') = Len(window)
      /\ \A k \in 1 .. Len(window) : window'[k] = IF k = i THEN y ELSE window[k]
  <2>1. window' \in Seq(InFlight) /\ Len(window') = Len(window)
    <3>1. window \in Seq(InFlight) /\ i \in 1 .. Len(window) /\ y \in InFlight
      BY <1>2, <1>3, <1>4
    <3>2. [window EXCEPT ![i] = y] \in Seq(InFlight)
      BY <3>1, ExceptSeq
    <3>3. Len([window EXCEPT ![i] = y]) = Len(window)
      BY <3>1, ExceptSeq
    <3> QED
      BY <1>6, <3>2, <3>3
  <2>2. \A k \in 1 .. Len(window) : window'[k] = IF k = i THEN y ELSE window[k]
    BY <1>1, <1>6
  <2> QED
    BY <2>1, <2>2
<1>8. \A k \in 1 .. Len(window) : window'[k].insn = window[k].insn /\ window'[k].tag = window[k].tag
  BY <1>4, <1>7
<1>9. \A k \in 1 .. Len(window) : window'[k].phase = window[k].phase
  BY <1>5, <1>7, Zenon
<1>10. \A k \in 1 .. Len(window) : window'[k].resolved => window[k].resolved \/ k = i
  BY <1>7, Zenon
<1>11. DOMAIN window' = 1 .. Len(window)
  BY <1>7
<1>12. Insns' = [k \in 1 .. Len(window) |-> window'[k].insn]
  BY <1>11 DEF Insns
<1>13. Insns = [k \in 1 .. Len(window) |-> window[k].insn]
  BY <1>1 DEF Insns
<1>14. Insns' = Insns
  BY <1>8, <1>12, <1>13
<1> QED
  BY <1>3, <1>7, <1>8, <1>9, <1>10, <1>14

LEMMA ResolveType ==
  ASSUME TypeOK, NEW i \in DOMAIN window, Resolve(i)
  PROVE  TypeOK'
<1>1. window' \in Seq(InFlight) /\ Len(window') = Len(window)
  BY ResolveIs
<1> HIDE DEF InFlight
<1> QED
  BY <1>1 DEF TypeOK, Resolve, bq

(* The mispredicted branch becomes the youngest, with its other outcome.   *)
LEMMA MispredictIs ==
  ASSUME TypeOK, NEW i \in DOMAIN window, Mispredict(i)
  PROVE  /\ window' \in Seq(InFlight) /\ Len(window') = i /\ i \in 1 .. Len(window)
         /\ Insns' \in Seq(Fetched) /\ Len(Insns') = i /\ DOMAIN window' = 1 .. i
         /\ \A k \in 1 .. i : Insns'[k] = window'[k].insn
         /\ \A k \in 1 .. i - 1 : window'[k] = window[k] /\ Insns'[k] = Insns[k]
         /\ window'[i].tag = window[i].tag /\ window'[i].phase = window[i].phase
         /\ Insns'[i] = [window[i].insn EXCEPT !.taken =
               IF IsCond(window[i].insn) THEN ~window[i].insn.taken ELSE window[i].insn.taken]
<1> DEFINE r == IF IsCond(window[i].insn) THEN ~window[i].insn.taken ELSE window[i].insn.taken
           y == [window[i] EXCEPT !.insn.taken = r, !.resolved = TRUE]
           p == SubSeq(window, 1, i)
<1>1. /\ Len(window) \in Nat /\ DOMAIN window = 1 .. Len(window)
      /\ \A k \in 1 .. Len(window) : window[k] \in InFlight /\ Insns[k] = window[k].insn
      /\ i \in 1 .. Len(window)
  BY InsnsType
<1>2. window' = [p EXCEPT ![i].insn.taken = r, ![i].resolved = TRUE] /\ window \in Seq(InFlight)
  BY DEF Mispredict, TypeOK
<1>3. p \in Seq(InFlight) /\ Len(p) = i /\ \A k \in 1 .. i : p[k] = window[k]
  <2> HIDE DEF InFlight
  <2> QED
    BY <1>1, <1>2
<1>4. window[i] \in InFlight /\ window[i].insn \in Fetched
  BY <1>1 DEF InFlight
<1>5. r \in BOOLEAN
  BY <1>4, Zenon DEF Fetched
<1>6. [window[i].insn EXCEPT !.taken = r] \in Fetched
  <2> HIDE DEF r
  <2> QED
    BY <1>4, <1>5 DEF Fetched
<1>7. y \in InFlight /\ y.tag = window[i].tag /\ y.insn = [window[i].insn EXCEPT !.taken = r]
  <2> HIDE DEF r, Fetched
  <2> QED
    BY <1>4, <1>6 DEF InFlight
<1>8. y.phase = window[i].phase
  <2> HIDE DEF r, Fetched
  <2> QED
    BY <1>4, Zenon DEF InFlight
<1>9. window' = [p EXCEPT ![i] = y]
  <2>1. i \in DOMAIN p /\ p[i] = window[i]
    BY <1>1, <1>3
  <2> HIDE DEF p, r
  <2> QED
    BY <1>2, <2>1
<1> HIDE DEF y, p, r
<1>10. window' \in Seq(InFlight) /\ Len(window') = i
       /\ \A k \in 1 .. i : window'[k] = IF k = i THEN y ELSE p[k]
  BY <1>1, <1>3, <1>7, <1>9, ExceptSeq
<1>11. window'[i] = y /\ \A k \in 1 .. i - 1 : window'[k] = window[k]
  BY <1>1, <1>3, <1>10
<1>12. DOMAIN window' = 1 .. i /\ \A k \in 1 .. i : window'[k].insn \in Fetched
  <2>1. DOMAIN window' = 1 .. i /\ \A k \in 1 .. i : window'[k] \in InFlight
    BY <1>10, WindowType
  <2> QED
    BY <2>1 DEF InFlight
<1>13. Insns' = [k \in 1 .. i |-> window'[k].insn]
  BY <1>12 DEF Insns
<1>14. Insns' \in Seq(Fetched) /\ Len(Insns') = i /\ \A k \in 1 .. i : Insns'[k] = window'[k].insn
  <2>1. Insns' \in [1 .. i -> Fetched] /\ i \in Nat
    BY <1>1, <1>12, <1>13
  <2> QED
    BY <1>13, <2>1, LenIs
<1>15. \A k \in 1 .. i - 1 : Insns'[k] = Insns[k]
  BY <1>1, <1>11, <1>14
<1>16. Insns'[i] = [window[i].insn EXCEPT !.taken = r]
  BY <1>1, <1>7, <1>11, <1>14
<1>17. window'[i].tag = window[i].tag
  BY <1>7, <1>11
<1>18. window'[i].phase = window[i].phase
  BY <1>8, <1>11, Zenon
<1> QED
  BY <1>1, <1>10, <1>11, <1>12, <1>14, <1>15, <1>16, <1>17, <1>18 DEF r

(* The entries ras_t::flush() undoes, from the youngest branch's back.     *)
Distance(id) == (ras_tail + BqSize - id) % BqSize
UndoneLog(id, n) == [k \in 1 .. n |-> log[(ras_tail + BqSize - k) % BqSize]]

LEMMA UndoneIs ==
  ASSUME TypeOK, NEW id \in Slot
  PROVE  \E n \in Nat : /\ n = IF Distance(id) = 0 THEN BqSize ELSE Distance(id)
                        /\ Undone(id) = UndoneLog(id, n)
                        /\ Undone(id) \in Seq(Logged) /\ Len(Undone(id)) = n
<1> DEFINE n == IF Distance(id) = 0 THEN BqSize ELSE Distance(id)
           at(k) == (ras_tail + BqSize - k) % BqSize
<1>1. BqSize \in Nat \ {0} /\ ras_tail \in Int /\ id \in Int /\ log \in [Slot -> Logged]
  BY Sizes DEF TypeOK
<1>2. ras_tail + BqSize - id \in Int
  BY <1>1
<1>3. Distance(id) \in 0 .. BqSize - 1
  BY <1>1, <1>2 DEF Distance
<1>4. n \in Nat
  BY <1>1, <1>3
<1>5. \A k \in 1 .. n : at(k) \in Slot
  <2> HIDE DEF n
  <2> SUFFICES ASSUME NEW k \in 1 .. n PROVE at(k) \in Slot
    OBVIOUS
  <2>1. ras_tail + BqSize - k \in Int
    BY <1>1
  <2> QED
    BY <1>1, <2>1, Sizes
<1> HIDE DEF at
<1>6. \A k \in 1 .. n : log[at(k)] \in Logged
  BY <1>1, <1>5
<1>7. Undone(id) = [k \in 1 .. n |-> log[at(k)]]
  BY DEF Undone, Distance, n, at
<1> HIDE DEF n
<1>8. Undone(id) \in [1 .. n -> Logged]
  BY <1>6, <1>7
<1>9. Len(Undone(id)) = n /\ Undone(id) \in Seq(Logged)
  BY <1>4, <1>8, LenIs
<1>10. Undone(id) = UndoneLog(id, n)
  BY <1>7 DEF UndoneLog, at
<1> QED
  BY <1>4, <1>9, <1>10 DEF n

(* Undoing goes entry by entry.                                            *)
Stacks == [Tos -> RetAddr \cup {0}]
Undoes(R, u) ==
  /\ R \in [0 .. Len(u) -> Stacks] /\ R[0] = ras
  /\ \A k \in 1 .. Len(u) : R[k] = Undo(R[k - 1], u[k])
LEMMA WalkSteps ==
  ASSUME TypeOK, NEW u \in Seq(Logged)
  PROVE  \E R : Undoes(R, u) /\ Walk(u) = R[Len(u)]
<1> DEFINE X == Stacks
           n == Len(u)
           f == [k \in 1 .. n |-> [r \in X |-> Undo(r, u[k])]]
           Body(H) == [k \in 0 .. n |-> IF k = 0 THEN ras ELSE Undo(H[k - 1], u[k])]
           R == CHOOSE H : H = Body(H)
<1>1. ras \in X /\ n \in Nat /\ \A k \in 1 .. n : u[k] \in Logged
  BY DEF TypeOK, Stacks
<1>2. ASSUME NEW r \in X, NEW e \in Logged PROVE Undo(r, e) \in X
  <2>1. e.tos \in Tos /\ e.content \in RetAddr \cup {0}
    BY DEF Logged
  <2> QED
    BY <2>1 DEF Undo, Stacks
<1> HIDE DEF X
<1>3. f \in [1 .. n -> [X -> X]]
  BY <1>1, <1>2
<1>4. \A k \in 1 .. n : \A r \in X : f[k][r] = Undo(r, u[k])
  OBVIOUS
<1> HIDE DEF f
<1>5. PICK g \in [0 .. n -> X] : Follows(g, ras, f, n)
  BY <1>1, <1>3, FollowsExists
<1>6. \A k \in 1 .. n : k - 1 \in 0 .. n
  BY <1>1
<1>7. g[0] = ras /\ \A k \in 1 .. n : g[k - 1] \in X /\ g[k] = Undo(g[k - 1], u[k])
  BY <1>4, <1>5, <1>6 DEF Follows
<1>8. g = Body(g)
  <2>1. \A k \in 0 .. n : g[k] = IF k = 0 THEN ras ELSE Undo(g[k - 1], u[k])
    BY <1>1, <1>7
  <2>2. g = [k \in 0 .. n |-> g[k]]
    BY <1>5
  <2> QED
    BY <2>1, <2>2
<1>9. R = Body(R)
  BY <1>8
<1>10. R[0] = ras /\ (\A k \in 1 .. n : R[k] = Undo(R[k - 1], u[k])) /\ R = [k \in 0 .. n |-> R[k]]
  <2> HIDE DEF R
  <2>1. \A k \in 0 .. n : R[k] = IF k = 0 THEN ras ELSE Undo(R[k - 1], u[k])
    BY <1>9
  <2>2. 0 \in 0 .. n /\ \A k \in 1 .. n : k \in 0 .. n /\ k # 0
    BY <1>1
  <2>3. DOMAIN R = 0 .. n /\ R = [k \in DOMAIN R |-> R[k]]
    BY <1>9
  <2> QED
    BY <2>1, <2>2, <2>3
<1> DEFINE e == [k \in 1 .. n |-> [r \in {R[k - 1], g[k - 1]} |-> Undo(r, u[k])]]
<1>11. Follows(R, ras, e, n) /\ Follows(g, ras, e, n)
  <2> HIDE DEF R, Body
  <2> QED
    BY <1>7, <1>10 DEF Follows
<1> HIDE DEF e, R
<1>12. \A k \in 0 .. n : R[k] = g[k]
  BY <1>1, <1>11, FollowsUnique
<1>13. Walk(u) = R[n]
  BY DEF Walk, R
<1>14. R \in [0 .. n -> X]
  BY <1>5, <1>10, <1>12
<1> QED
  BY <1>10, <1>13, <1>14 DEF Undoes, X

(* ras_t::flush() stays within the stack.                                  *)
LEMMA RasType ==
  ASSUME TypeOK, NEW id \in Slot
  PROVE  RasBefore(id) \in [Tos -> RetAddr \cup {0}]
<1>1. ras \in Stacks /\ log[id] \in Logged
  BY DEF TypeOK, Stacks
<1>2. Undo(ras, log[id]) \in Stacks
  <2>1. log[id].tos \in Tos /\ log[id].content \in RetAddr \cup {0}
    BY <1>1 DEF Logged
  <2> QED
    BY <1>1, <2>1 DEF Undo, Stacks
<1>3. Undone(id) \in Seq(Logged) /\ Len(Undone(id)) \in Nat
  BY UndoneIs
<1>4. Walk(Undone(id)) \in Stacks
  <2>1. PICK R : Undoes(R, Undone(id)) /\ Walk(Undone(id)) = R[Len(Undone(id))]
    BY <1>3, WalkSteps
  <2> QED
    BY <1>3, <2>1 DEF Undoes
<1>5. Recovery \in {"pointer", "content", "walk"}
  BY FetchUnitAssumption
<1> QED
  BY <1>1, <1>2, <1>4, <1>5 DEF RasBefore, Stacks

LEMMA MispredictType ==
  ASSUME TypeOK, NEW i \in DOMAIN window, Mispredict(i)
  PROVE  TypeOK'
<1> DEFINE b == window[i]
           r == IF IsCond(b.insn) THEN ~b.insn.taken ELSE b.insn.taken
<1>1. /\ Len(window) \in Nat /\ i \in 1 .. Len(window) /\ b \in InFlight /\ Len(window) <= WindowSize
  BY InsnsType DEF TypeOK
<1>2. b.tag \in Slot /\ b.insn \in Fetched
  BY <1>1 DEF InFlight
<1>3. b.phase \in BOOLEAN
  BY <1>1, Zenon DEF InFlight
<1>4. r \in BOOLEAN
  BY <1>2, Zenon DEF Fetched
<1>5. log[b.tag] \in Logged /\ log \in [Slot -> Logged]
  BY <1>2 DEF TypeOK
<1>6. log[b.tag].precise \in History /\ log[b.tag].tos \in Tos
  BY <1>5 DEF Logged
<1> HIDE DEF b, r
<1>7. /\ bq_tail' = Succ(b.tag) /\ bq_tail_phase' = Phase(b.tag, b.phase) /\ ras_tail' = Succ(b.tag)
      /\ log' = [log EXCEPT ![b.tag].taken = r]
      /\ bhr' = (IF IsCond(log[b.tag]) THEN update_bhr(log[b.tag].precise, r) ELSE log[b.tag].precise)
      /\ ras' = RasBefore(b.tag)
      /\ tos' \in {Up(log[b.tag].tos), Down(log[b.tag].tos), log[b.tag].tos}
      /\ fetch_active' = TRUE /\ fetch2' = NoBundle /\ dropped' = <<>>
      /\ UNCHANGED <<bq_head, bq_head_phase, base, program>>
  BY DEF Mispredict, b, r
<1>8. window' \in Seq(InFlight) /\ Len(window') <= WindowSize
  <2>1. window' \in Seq(InFlight) /\ Len(window') = i
    BY MispredictIs
  <2> QED
    BY <1>1, <2>1, Sizes
<1>9. bq_tail' \in Slot /\ ras_tail' \in Slot
  BY <1>2, <1>7, Sizes DEF Succ
<1>10. bq_tail_phase' \in BOOLEAN
  BY <1>3, <1>7, Zenon DEF Phase
<1>11. log' \in [Slot -> Logged]
  <2>1. [log[b.tag] EXCEPT !.taken = r] \in Logged
    BY <1>4, <1>5 DEF Logged
  <2>2. log' = [log EXCEPT ![b.tag] = [log[b.tag] EXCEPT !.taken = r]]
    BY <1>2, <1>5, <1>7
  <2> QED
    BY <1>2, <1>5, <2>1, <2>2
<1>12. bhr' \in History
  <2>1. update_bhr(log[b.tag].precise, r) \in History
    BY <1>4, <1>6, UpdateType
  <2> HIDE DEF History
  <2> QED
    BY <1>6, <1>7, <2>1
<1>13. tos' \in Tos
  <2>1. PICK t \in Tos : t = log[b.tag].tos
    BY <1>6
  <2>2. Up(t) \in Tos /\ Down(t) \in Tos
    BY Sizes DEF Up, Down
  <2> QED
    BY <1>6, <1>7, <2>1, <2>2
<1>14. fetch2' \in Bundled /\ Len(fetch2'.insns) <= FetchWidth
  BY <1>7, EmptyType
<1>15. ras' \in [Tos -> RetAddr \cup {0}]
  BY <1>2, <1>7, RasType
<1> HIDE DEF Bundled, InFlight, Logged, Fetched
<1> QED
  BY <1>7, <1>8, <1>9, <1>10, <1>11, <1>12, <1>13, <1>14, <1>15 DEF TypeOK

(* The oldest instruction leaves.                                          *)
LEMMA CommitIs ==
  ASSUME TypeOK, Commit
  PROVE  /\ window' \in Seq(InFlight) /\ Len(window) = Len(window') + 1 /\ Len(window') \in Nat
         /\ window[1].resolved /\ base' = After(base, Insns[1])
         /\ Insns' \in Seq(Fetched) /\ Len(Insns') = Len(window')
         /\ \A k \in 1 .. Len(window') : window'[k] = window[k + 1] /\ Insns'[k] = Insns[k + 1]
<1>1. window # <<>> /\ window' = Tail(window) /\ Head(window).resolved
      /\ base' = After(base, Head(window).insn)
  BY DEF Commit
<1>2. window \in Seq(InFlight) /\ Len(window) \in Nat
  BY InsnsType DEF TypeOK
<1>3. Head(window) = window[1]
  OBVIOUS
<1>4. /\ window' \in Seq(InFlight) /\ Len(window') = Len(window) - 1 /\ Len(window) # 0
      /\ \A k \in 1 .. Len(window) - 1 : window'[k] = window[k + 1]
  <2> HIDE DEF InFlight
  <2> QED
    BY <1>1, <1>2
<1>5. /\ Len(window') \in Nat /\ DOMAIN window' = 1 .. Len(window')
      /\ \A k \in 1 .. Len(window') : window'[k] \in InFlight
  BY <1>4, WindowType
<1>6. \A k \in 1 .. Len(window') : window'[k].insn \in Fetched
  BY <1>5 DEF InFlight
<1>7. Insns' = [k \in 1 .. Len(window') |-> window'[k].insn]
  BY <1>5 DEF Insns
<1>8. Insns' \in Seq(Fetched) /\ Len(Insns') = Len(window')
  <2>1. Insns' \in [1 .. Len(window') -> Fetched]
    BY <1>6, <1>7
  <2> QED
    BY <1>5, <2>1, LenIs
<1>9. \A k \in 1 .. Len(window) : Insns[k] = window[k].insn
  BY InsnsType
<1>10. \A k \in 1 .. Len(window') : window'[k] = window[k + 1] /\ Insns'[k] = Insns[k + 1]
  <2> SUFFICES ASSUME NEW k \in 1 .. Len(window') PROVE window'[k] = window[k + 1] /\ Insns'[k] = Insns[k + 1]
    OBVIOUS
  <2>1. k \in 1 .. Len(window) - 1 /\ k + 1 \in 1 .. Len(window)
    BY <1>2, <1>4
  <2> QED
    BY <1>4, <1>7, <1>9, <2>1
<1>11. Insns[1] = window[1].insn
  <2>1. 1 \in 1 .. Len(window)
    BY <1>2, <1>4
  <2> QED
    BY <1>9, <2>1
<1> QED
  BY <1>1, <1>2, <1>3, <1>4, <1>5, <1>8, <1>10, <1>11

LEMMA CommitType ==
  ASSUME TypeOK, Commit
  PROVE  TypeOK'
<1>1. window' \in Seq(InFlight) /\ Len(window') <= WindowSize
  <2>1. window' \in Seq(InFlight) /\ Len(window) = Len(window') + 1 /\ Len(window') \in Nat
    BY CommitIs
  <2>2. Len(window) <= WindowSize
    BY DEF TypeOK
  <2> QED
    BY <2>1, <2>2, Sizes
<1>2. base' \in InContext
  <2>1. base' = After(base, Insns[1]) /\ Len(window) = Len(window') + 1 /\ Len(window') \in Nat
    BY CommitIs
  <2>2. base \in InContext /\ Codes(Insns) /\ Len(Insns) = Len(window)
    BY InsnsType
  <2>3. Insns[1].taken \in BOOLEAN /\ Insns[1].ra \in RetAddr \cup {0}
    BY <2>1, <2>2 DEF Codes
  <2> QED
    BY <2>1, <2>2, <2>3, AfterType
<1>3. bq_head' \in Slot
  <2>1. bq_head \in Slot /\ bq_head' = (bq_head + 1) % BqSize
    BY DEF Commit, Succ, TypeOK
  <2> QED
    BY <2>1, Sizes
<1>4. bq_head_phase' \in BOOLEAN
  BY Zenon DEF Commit, Phase, TypeOK
<1> HIDE DEF Bundled, InFlight, Logged, Fetched, History, Tos
<1> QED
  BY <1>1, <1>2, <1>3, <1>4 DEF TypeOK, Commit, InContext

-----------------------------------------------------------------------------
(* The context behind a list, and the one in front of FETCH2's bundle.     *)
Beyond(c, s) == Contexts(c, s)[Len(s)]
Here == Beyond(base, Insns)

LEMMA BeyondIs ==
  ASSUME NEW c \in InContext, NEW x \in Seq(Fetched)
  PROVE  /\ Beyond(c, x) \in InContext /\ Beyond(c, <<>>) = c
         /\ \A y \in Seq(Fetched) : Beyond(c, x \o y) = Beyond(Beyond(c, x), y)
<1>1. ASSUME NEW z \in Seq(Fetched) PROVE Codes(z) /\ Len(z) \in Nat /\ Len(z) \in 0 .. Len(z)
  BY FetchedCodes
<1>2. Beyond(c, x) \in InContext
  <2>1. Contexts(c, x) \in [0 .. Len(x) -> InContext]
    BY <1>1, ContextsIs
  <2> QED
    BY <1>1, <2>1 DEF Beyond
<1>3. Beyond(c, <<>>) = c
  <2>1. <<>> \in Seq(Fetched) /\ Len(<<>>) = 0
    OBVIOUS
  <2>2. Contexts(c, <<>>)[0] = c
    BY <1>1, <2>1, ContextsIs
  <2> QED
    BY <2>1, <2>2 DEF Beyond
<1>4. ASSUME NEW y \in Seq(Fetched) PROVE Beyond(c, x \o y) = Beyond(Beyond(c, x), y)
  <2>1. PICK z : z = x \o y
    OBVIOUS
  <2>2. /\ z \in Seq(Fetched) /\ Len(z) = Len(x) + Len(y)
        /\ \A k \in 1 .. Len(x) : z[k] = x[k]
        /\ \A k \in 1 .. Len(y) : z[Len(x) + k] = y[k]
    BY <2>1, ConcatIs
  <2>3. Codes(x) /\ Codes(y) /\ Codes(z) /\ Len(y) \in 0 .. Len(y)
    BY <1>1, <2>2
  <2>4. \A k \in 0 .. Len(y) : Contexts(c, z)[Len(x) + k] = Contexts(Contexts(c, x)[Len(x)], y)[k]
    <3>1. PICK n \in Nat : n = Len(x)
      BY <1>1
    <3>2. /\ n <= Len(x) /\ Len(z) = n + Len(y)
          /\ \A k \in 1 .. n : z[k] = x[k]
          /\ \A k \in 1 .. Len(y) : z[n + k] = y[k]
      BY <1>1, <2>2, <3>1
    <3>4. Joined(x, n, y, z)
      BY <2>3, <3>2 DEF Joined
    <3>3. \A k \in 0 .. Len(y) : Contexts(c, z)[n + k] = Contexts(Contexts(c, x)[n], y)[k]
      BY <3>4, ContextsConcat
    <3> QED
      BY <3>1, <3>3
  <2>5. Contexts(c, z)[Len(z)] = Contexts(Contexts(c, x)[Len(x)], y)[Len(y)]
    BY <2>2, <2>3, <2>4
  <2> QED
    BY <2>1, <2>5 DEF Beyond
<1> QED
  BY <1>2, <1>3, <1>4

LEMMA PathForm ==
  ASSUME NEW c \in InContext, NEW w \in Seq(Fetched), NEW f \in Seq(Fetched), NEW d \in Seq(Fetched)
  PROVE  /\ Beyond(c, w \o f \o d) = Beyond(Beyond(Beyond(c, w), f), d)
         /\ Beyond(c, w) \in InContext /\ Beyond(Beyond(c, w), f) \in InContext
         /\ Beyond(c, w \o f \o d) \in InContext
         /\ f = <<>> => Beyond(Beyond(c, w), f) = Beyond(c, w)
         /\ d = <<>> => Beyond(Beyond(Beyond(c, w), f), d) = Beyond(Beyond(c, w), f)
<1>1. w \o f \in Seq(Fetched)
  BY ConcatIs
<1>2. Beyond(c, w) \in InContext /\ Beyond(c, w \o f) = Beyond(Beyond(c, w), f)
      /\ Beyond(c, w \o f) \in InContext
  BY <1>1, BeyondIs
<1>3. Beyond(c, (w \o f) \o d) = Beyond(Beyond(c, w \o f), d)
  <2>1. PICK v \in Seq(Fetched) : v = w \o f
    BY <1>1
  <2>2. \A y \in Seq(Fetched) : Beyond(c, v \o y) = Beyond(Beyond(c, v), y)
    BY BeyondIs
  <2>3. Beyond(c, v \o d) = Beyond(Beyond(c, v), d)
    BY <2>2
  <2> QED
    BY <2>1, <2>3
<1>4. Beyond(Beyond(c, w \o f), d) \in InContext
  BY <1>2, BeyondIs
<1>5. f = <<>> => Beyond(Beyond(c, w), f) = Beyond(c, w)
  BY <1>2, BeyondIs
<1>6. d = <<>> => Beyond(Beyond(Beyond(c, w), f), d) = Beyond(Beyond(c, w), f)
  BY <1>2, BeyondIs
<1> QED
  BY <1>2, <1>3, <1>4, <1>5, <1>6

LEMMA PathIs ==
  ASSUME TypeOK
  PROVE  /\ Path = Beyond(Beyond(Here, fetch2.insns), dropped) /\ Path \in InContext
         /\ Here \in InContext /\ Beyond(Here, fetch2.insns) \in InContext
         /\ fetch2.insns = <<>> => Beyond(Here, fetch2.insns) = Here
         /\ dropped = <<>> => Path = Beyond(Here, fetch2.insns)
<1>1. Insns \in Seq(Fetched) /\ base \in InContext /\ fetch2.insns \in Seq(Fetched) /\ dropped \in Seq(Fetched)
  BY InsnsType, BundleType
<1>2. Path = Beyond(base, Insns \o fetch2.insns \o dropped)
  BY DEF Path, Beyond
<1> QED
  BY <1>1, <1>2, PathForm DEF Here

LEMMA PathPrimed ==
  ASSUME TypeOK'
  PROVE  /\ (Path = Beyond(Beyond(Here, fetch2.insns), dropped))' /\ (Path \in InContext)'
         /\ (Here \in InContext)'
         /\ (fetch2.insns = <<>> => Beyond(Here, fetch2.insns) = Here)'
         /\ (dropped = <<>> => Path = Beyond(Here, fetch2.insns))'
BY PathIs, PTL

LEMMA FlushType ==
  ASSUME TypeOK, Flush
  PROVE  TypeOK'
<1>1. /\ fetch_active' = TRUE /\ fetch2' = NoBundle /\ window' = <<>> /\ dropped' = <<>>
      /\ UNCHANGED <<log, program>>
  BY DEF Flush
<1>2. window' \in Seq(InFlight) /\ Len(window') <= WindowSize /\ dropped' \in Seq(Fetched)
  <2>1. Len(<<>>) = 0
    OBVIOUS
  <2> QED
    BY <1>1, <2>1, Sizes
<1>3. fetch2' \in Bundled /\ Len(fetch2'.insns) <= FetchWidth
  BY <1>1, EmptyType
<1>4. Path \in InContext
  BY PathIs
<1>5. CASE BqEmpty
  <2>1. UNCHANGED <<bq, bhr, ras, tos, ras_tail>> /\ base' = Path
    BY <1>5 DEF Flush
  <2> HIDE DEF Bundled, InFlight, Logged, Fetched, History, Tos
  <2> QED
    BY <1>1, <1>2, <1>3, <1>4, <2>1 DEF TypeOK, bq, InContext
<1>6. CASE ~BqEmpty
  <2>1. /\ bq_tail' = bq_head /\ bq_tail_phase' = bq_head_phase /\ bhr' = log[bq_head].precise
        /\ ras' = RasBefore(bq_head) /\ tos' = log[bq_head].tos /\ ras_tail' = bq_head
        /\ UNCHANGED <<bq_head, bq_head_phase, base>>
    BY <1>6 DEF Flush
  <2>2. bq_head \in Slot
    BY DEF TypeOK
  <2>3. log[bq_head].precise \in History /\ log[bq_head].tos \in Tos
    BY <2>2 DEF TypeOK, Logged
  <2>4. RasBefore(bq_head) \in [Tos -> RetAddr \cup {0}]
    BY <2>2, RasType
  <2> HIDE DEF Bundled, InFlight, Logged, Fetched, History, Tos
  <2> QED
    BY <1>1, <1>2, <1>3, <2>1, <2>3, <2>4 DEF TypeOK
<1> QED
  BY <1>5, <1>6

(* Every step keeps the types.                                             *)
LEMMA StepType ==
  ASSUME TypeOK, [Next]_vars
  PROVE  TypeOK'
<1>1. CASE UNCHANGED vars
  BY <1>1 DEF TypeOK, vars, bq
<1> QED
  BY <1>1, Fetch1Type, MisfetchType, StallType, AdvanceType, ResolveType, MispredictType,
     CommitType, FlushType DEF Next

-----------------------------------------------------------------------------
(* The parts of the invariant in terms of the state they speak about.      *)

QueueOf(w, s, h, hp, t, tp) ==
  /\ \A k \in 1 .. Len(w) : IsBranch(w[k].insn) =>
       Place(w[k].tag, w[k].phase, Branches(s, k - 1), h, hp)
  /\ Place(t, tp, Branches(s, Len(w)), h, hp)

LEMMA QueueForm ==
  /\ TypeOK => (QueueExact <=> /\ QueueOf(window, Insns, bq_head, bq_head_phase, bq_tail, bq_tail_phase)
                               /\ ras_tail = bq_tail)
  /\ TypeOK' => (QueueExact' <=> /\ QueueOf(window', Insns', bq_head', bq_head_phase', bq_tail', bq_tail_phase')
                                 /\ ras_tail' = bq_tail')
<1>1. /\ TypeOK => DOMAIN window = 1 .. Len(window)
      /\ TypeOK' => DOMAIN window' = 1 .. Len(window')
  BY WindowType DEF TypeOK
<1> QED
  BY <1>1, Zenon DEF QueueExact, QueueOf, StandsAt, SlotAt, Place

(* What a branch's log entry e records, its instruction being x.           *)
Recorded(x, e, c) ==
  /\ e.kind = x.kind /\ e.taken = x.taken
  /\ e.precise = c.bhr /\ e.tos = c.tos
  /\ e.fetch = x.bhr
  /\ IsCond(e) => e.cb = x.slot
LogOf(w, C, l) ==
  \A i \in 1 .. Len(w) : IsBranch(w[i].insn) => Recorded(w[i].insn, l[w[i].tag], C[i - 1])

LEMMA LogForm ==
  /\ TypeOK => (LogExact <=> LogOf(window, Contexts(base, Insns), log))
  /\ TypeOK' => (LogExact' <=> LogOf(window', Contexts(base', Insns'), log'))
<1>1. /\ TypeOK => DOMAIN window = 1 .. Len(window)
      /\ TypeOK' => DOMAIN window' = 1 .. Len(window')
  BY WindowType DEF TypeOK
<1> QED
  BY <1>1, Zenon DEF LogExact, LogOf, Recorded

(* What only FETCH1 and FETCH2 do leaves the queue and the window alone.   *)
LEMMA WindowStays ==
  ASSUME TypeOK, TypeOK', QueueExact, LogExact, UNCHANGED <<window, bq, ras_tail, log, base>>
  PROVE  Insns' = Insns /\ Here' = Here /\ QueueExact' /\ LogExact'
<1>1. Insns' = Insns
  BY DEF Insns
<1>2. Here' = Here
  BY <1>1 DEF Here
<1>3. QueueExact'
  BY <1>1, QueueForm DEF bq
<1>4. LogExact'
  BY <1>1, LogForm
<1> QED
  BY <1>1, <1>2, <1>3, <1>4

(* The predictors after a bundle are those of the context behind it.       *)
LEMMA BundleMoves ==
  ASSUME NEW c \in InContext, NEW b \in Bundles, bhr \in History
  PROVE  LET d == Beyond(c, Predicted(b))
         IN  /\ d.bhr = BhrAfter(c.bhr, b)
             /\ End(b) = "call" => d.tos = Up(c.tos)
             /\ End(b) = "return" => d.tos = Down(c.tos)
             /\ End(b) \notin {"call", "return"} => d.tos = c.tos
<1> DEFINE p == Predicted(b)
           n == Len(b)
<1>1. /\ p \in Seq(Fetched) /\ Len(p) = n
      /\ \A k \in 1 .. n : p[k].kind = b[k].kind /\ p[k].taken = b[k].taken
  BY PredictedIs
<1>2. /\ n \in Nat /\ \A k \in 1 .. n : b[k] \in Insn
      /\ \A k \in 1 .. n - 1 : ~b[k].taken
  BY BundlesAre, Sizes
<1>3. \A k \in 1 .. n : b[k].taken \in BOOLEAN /\ (b[k].kind \in {"call", "return"} => b[k].taken)
  BY <1>2, InsnIs
<1> HIDE DEF p
<1>4. Codes(p)
  BY <1>1, FetchedCodes
<1>5. Beyond(c, p).bhr = BhrAfter(c.bhr, b)
  <2>1. c.bhr \in History /\ n \in 0 .. n
    BY <1>2 DEF InContext
  <2>2. Contexts(c, p)[n].bhr = BhrAlong(c.bhr, p)[n]
    BY <1>1, <1>4, <2>1, ContextBhr
  <2>3. BhrAlong(c.bhr, p)[n] = BhrAlong(c.bhr, b)[n]
    BY <1>1, <1>2, <1>3, <2>1, BhrAgree
  <2> QED
    BY <1>1, <2>2, <2>3 DEF Beyond, BhrAfter
<1>6. CASE n = 0
  <2>1. b = <<>>
    <3>1. PICK m \in 0 .. FetchWidth : b \in [1 .. m -> Insn]
      BY DEF Bundles
    <3>2. b \in Seq(Insn)
      BY <3>1, LenIs, Sizes
    <3> HIDE DEF Insn
    <3> QED
      BY <1>6, <3>2
  <2>2. End(b) = "plain"
    BY <2>1 DEF End
  <2>3. Beyond(c, p).tos = c.tos
    <3>1. Contexts(c, p)[0] = c
      BY <1>4, ContextsIs
    <3> QED
      BY <1>1, <1>6, <3>1 DEF Beyond
  <2> QED
    BY <1>5, <2>2, <2>3 DEF p
<1>7. CASE n # 0
  <2>1. n \in 1 .. n /\ n - 1 \in Nat /\ n - 1 <= n /\ n - 1 \in 0 .. n - 1 /\ n - 1 \in 0 .. n
    BY <1>2, <1>7
  <2>2. End(b) = p[n].kind
    <3>1. b # <<>>
      BY <1>7
    <3> QED
      BY <1>1, <2>1, <3>1 DEF End, Last
  <2>3. \A k \in 1 .. n - 1 : p[k].kind \notin {"call", "return"}
    <3>1. \A k \in 1 .. n - 1 : k \in 1 .. n
      BY <1>2
    <3> QED
      BY <1>1, <1>2, <1>3, <3>1
  <2>4. Contexts(c, p)[n - 1].tos = c.tos
    BY <1>1, <1>4, <2>1, <2>3, ContextStays
  <2>5. Contexts(c, p)[n] = After(Contexts(c, p)[n - 1], p[n]) /\ Contexts(c, p)[n - 1] \in InContext
    BY <1>1, <1>4, <2>1, ContextsIs
  <2>6. /\ End(b) = "call" => Beyond(c, p).tos = Up(c.tos)
        /\ End(b) = "return" => Beyond(c, p).tos = Down(c.tos)
        /\ End(b) \notin {"call", "return"} => Beyond(c, p).tos = c.tos
    BY <1>1, <2>2, <2>4, <2>5, AfterIs DEF Beyond
  <2> QED
    BY <1>5, <2>6 DEF p
<1> QED
  BY <1>6, <1>7

-----------------------------------------------------------------------------
(* Each action keeps the other parts.                                      *)
Rest == QueueExact /\ Bundling /\ FetchActiveExact /\ BundleContext /\ HistoryExact /\ LogExact

LEMMA Fetch1Keeps ==
  ASSUME IInv, TypeOK', Fetch1
  PROVE  Rest'
<1>1. PICK b \in Bundles, misfetch \in BOOLEAN :
        /\ fetch2' = [valid |-> TRUE, insns |-> Predicted(b), misfetch |-> misfetch,
                      bhr |-> bhr, tos |-> tos, content |-> ras[tos]]
        /\ SpecUpdate(b)
        /\ fetch_active /\ ~fetch2.valid
        /\ UNCHANGED <<fetch_active, bq, log, ras_tail, window, dropped, base, program>>
  BY DEF Fetch1
<1>2. bhr \in History /\ TypeOK
  BY DEF TypeOK, IInv
<1>3. dropped = <<>> /\ fetch2.insns = <<>>
  BY <1>1 DEF IInv, Bundling, FetchActiveExact
<1>4. Here \in InContext /\ bhr = Here.bhr /\ tos = Here.tos
  <2>1. Path = Here /\ Here \in InContext
    BY <1>2, <1>3, PathIs
  <2> QED
    BY <2>1 DEF IInv, HistoryExact
<1>5. Insns' = Insns /\ Here' = Here /\ QueueExact' /\ LogExact'
  BY <1>1, <1>2, WindowStays DEF IInv
<1>6. fetch2'.insns = Predicted(b) /\ fetch2'.bhr = bhr /\ fetch2'.tos = tos /\ fetch2'.valid /\ dropped' = <<>>
  BY <1>1, <1>3
<1>7. Path' = Beyond(Here, Predicted(b))
  <2>1. Path' = Beyond(Beyond(Here', fetch2'.insns), dropped') /\ (dropped' = <<>> => Path' = Beyond(Here', fetch2'.insns))
    BY PathPrimed
  <2> QED
    BY <1>5, <1>6, <2>1
<1>8. HistoryExact'
  <2>1. /\ bhr' = BhrAfter(bhr, b)
        /\ \/ End(b) = "call" /\ tos' = Up(tos)
           \/ End(b) = "return" /\ tos' = Down(tos)
           \/ End(b) \notin {"call", "return"} /\ tos' = tos
    BY <1>1 DEF SpecUpdate
  <2>2. /\ Path'.bhr = BhrAfter(Here.bhr, b)
        /\ End(b) = "call" => Path'.tos = Up(Here.tos)
        /\ End(b) = "return" => Path'.tos = Down(Here.tos)
        /\ End(b) \notin {"call", "return"} => Path'.tos = Here.tos
    BY <1>2, <1>4, <1>7, BundleMoves
  <2> QED
    BY <1>4, <2>1, <2>2 DEF HistoryExact
<1>9. /\ Len(Predicted(b)) = Len(b)
      /\ \A k \in 1 .. Len(b) :
           /\ Predicted(b)[k].kind = b[k].kind /\ Predicted(b)[k].taken = b[k].taken
           /\ Predicted(b)[k].bhr = bhr
           /\ Predicted(b)[k].slot = Conds(Predicted(b), k - 1)
  BY <1>2, PredictedIs
<1>10. BundleContext'
  <2>1. Here.bhr = Contexts(base', Insns')[Len(window')].bhr /\ Here.tos = Contexts(base', Insns')[Len(window')].tos
    <3>1. Len(Insns) = Len(window)
      BY <1>2, InsnsType
    <3> QED
      BY <1>1, <1>5, <3>1 DEF Here, Beyond
  <2> QED
    BY <1>4, <1>6, <1>9, <2>1 DEF BundleContext
<1>11. Bundling'
  <2>1. \A k \in 1 .. Len(b) : /\ b[k].taken => k = Len(b)
                               /\ b[k].kind = "except" => k = Len(b)
                               /\ b[k].kind \in {"jump", "call", "return"} => b[k].taken
    <3>1. \A k \in 1 .. Len(b) : k = Len(b) \/ k \in 1 .. Len(b) - 1
      BY BundlesAre, Sizes
    <3>2. \A k \in 1 .. Len(b) : b[k] \in Insn
      BY BundlesAre
    <3> QED
      BY <3>1, <3>2, BundlesAre, InsnIs
  <2>2. window' = window /\ fetch_active' = fetch_active
    BY <1>1
  <2>3. \A k \in 1 .. Len(window) : window[k].resolved => IsBranch(window[k].insn)
    BY DEF IInv, Bundling
  <2>4. \A k \in 1 .. Len(fetch2'.insns) :
          /\ fetch2'.insns[k].taken => k = Len(fetch2'.insns)
          /\ fetch2'.insns[k].kind = "except" => k = Len(fetch2'.insns)
          /\ fetch2'.insns[k].kind \in {"jump", "call", "return"} => fetch2'.insns[k].taken
    <3> DEFINE p == Predicted(b)
    <3>1. /\ Len(p) = Len(b)
          /\ \A k \in 1 .. Len(b) : p[k].kind = b[k].kind /\ p[k].taken = b[k].taken
      BY <1>9
    <3> HIDE DEF p
    <3>2. \A k \in 1 .. Len(p) : p[k].kind = "except" => k = Len(p)
      <4>1. \A k \in 1 .. Len(b) : p[k].kind = b[k].kind /\ (b[k].kind = "except" => k = Len(b))
        BY <2>1, <3>1
      <4> QED
        BY <3>1, <4>1, Zenon
    <3>3. \A k \in 1 .. Len(p) : p[k].taken => k = Len(p)
      BY <2>1, <3>1, Zenon
    <3>5. \A k \in 1 .. Len(p) : p[k].kind \in {"jump", "call", "return"} => p[k].taken
      BY <2>1, <3>1, Zenon
    <3>4. fetch2'.insns = p
      BY <1>6 DEF p
    <3> QED
      BY <3>2, <3>3, <3>4, <3>5
  <2> QED
    BY <1>1, <1>6, <2>2, <2>3, <2>4 DEF Bundling
<1>12. FetchActiveExact'
  <2>1. window' = window /\ fetch_active' /\ fetch_active
    BY <1>1
  <2>2. \A i \in DOMAIN window : ~(window[i].insn.kind \in Stop)
    BY <2>1 DEF IInv, FetchActiveExact
  <2> QED
    BY <1>6, <2>1, <2>2 DEF FetchActiveExact
<1> QED
  BY <1>5, <1>8, <1>10, <1>11, <1>12 DEF Rest

LEMMA MisfetchKeeps ==
  ASSUME IInv, TypeOK', Fetch2Misfetch
  PROVE  Rest'
<1>1. /\ fetch2.valid /\ fetch2.misfetch /\ fetch_active' = TRUE
      /\ bhr' = fetch2.bhr /\ tos' = fetch2.tos /\ fetch2' = NoBundle
      /\ UNCHANGED <<ras, bq, log, ras_tail, window, dropped, base, program>>
  BY DEF Fetch2Misfetch
<1>2. TypeOK /\ fetch_active /\ dropped' = <<>>
  BY <1>1 DEF IInv, Bundling, FetchActiveExact
<1>3. Insns' = Insns /\ Here' = Here /\ QueueExact' /\ LogExact'
  BY <1>1, <1>2, WindowStays DEF IInv
<1>4. fetch2'.insns = <<>> /\ ~fetch2'.valid
  BY <1>1, EmptyType
<1>5. HistoryExact'
  <2>1. Path' = Here
    <3>1. /\ dropped' = <<>> => Path' = Beyond(Here', fetch2'.insns)
          /\ fetch2'.insns = <<>> => Beyond(Here', fetch2'.insns) = Here'
      BY PathPrimed
    <3> QED
      BY <1>2, <1>3, <1>4, <3>1
  <2>2. fetch2.bhr = Here.bhr /\ fetch2.tos = Here.tos
    <3>1. Len(Insns) = Len(window)
      BY <1>2, InsnsType
    <3> QED
      BY <1>1, <3>1 DEF IInv, BundleContext, Here, Beyond
  <2> QED
    BY <1>1, <2>1, <2>2 DEF HistoryExact
<1>6. BundleContext'
  BY <1>4 DEF BundleContext
<1>7. Bundling'
  <2>1. \A k \in 1 .. Len(window) : window[k].resolved => IsBranch(window[k].insn)
    BY DEF IInv, Bundling
  <2>2. Len(fetch2'.insns) = 0
    BY <1>4
  <2>3. window' = window /\ \A k \in 1 .. 0 : FALSE
    BY <1>1
  <2> QED
    BY <1>2, <1>4, <2>1, <2>2, <2>3 DEF Bundling
<1>8. FetchActiveExact'
  <2>1. \A i \in DOMAIN window : ~(window[i].insn.kind \in Stop)
    BY <1>2 DEF IInv, FetchActiveExact
  <2> QED
    BY <1>1, <1>2, <2>1 DEF FetchActiveExact
<1> QED
  BY <1>3, <1>5, <1>6, <1>7, <1>8 DEF Rest

(* What predecode keeps: the path is the same with what it throws away     *)
(* behind, and FETCH1 runs only if it threw nothing away.                  *)
LEMMA PredecodeIs ==
  ASSUME IInv, Predecode, NEW b, b = Kept(fetch2.insns)
  PROVE  /\ b \in Seq(Fetched) /\ Len(b) \in 0 .. FetchWidth /\ DOMAIN b = 1 .. Len(b)
         /\ dropped' \in Seq(Fetched) /\ Beyond(Beyond(Here, b), dropped') = Path
         /\ Behind(b) = <<>>
         /\ fetch_active' => (fetch_active /\ dropped' = <<>> /\ ~Stops(b))
         /\ ~fetch_active' => (Stops(Insns) \/ Stops(b))
         /\ \A k \in DOMAIN window : window[k].insn.kind \notin Stop
         /\ \A k \in 1 .. Len(b) :
              /\ b[k].taken => k = Len(b)
              /\ b[k].kind \in Stop => k = Len(b)
              /\ b[k].kind \in {"jump", "call", "return"} => b[k].taken
         /\ \A k \in 1 .. Len(b) : b[k].bhr = fetch2.bhr /\ b[k].slot = Conds(b, k - 1)
<1> DEFINE a == fetch2.insns
           r == Behind(a)
<1>1. /\ TypeOK /\ fetch2.valid /\ ~fetch2.misfetch
      /\ fetch_active' = (fetch_active /\ ~Stops(b)) /\ dropped' = dropped \o r
  BY DEF IInv, Predecode
<1>2. a \in Seq(Fetched) /\ Len(a) \in Nat /\ dropped \in Seq(Fetched)
  BY <1>1, BundleType
<1>3. /\ b \in Seq(Fetched) /\ r \in Seq(Fetched)
      /\ Len(b) + Len(r) = Len(a) /\ Len(b) <= Len(a)
      /\ \A k \in 1 .. Len(b) : b[k] = a[k]
      /\ \A k \in 1 .. Len(r) : r[k] = a[Len(b) + k]
      /\ \A k \in 1 .. Len(b) - 1 : a[k].kind # "serial"
      /\ Len(b) = Len(a) \/ (Len(b) \in 1 .. Len(a) /\ a[Len(b)].kind = "serial")
      /\ (\A k \in 1 .. Len(a) : a[k].kind # "serial") => b = a
  BY <1>2, KeptIs
<1> HIDE DEF r
<1>4. Len(b) \in Nat /\ Len(r) \in Nat /\ DOMAIN b = 1 .. Len(b) /\ DOMAIN a = 1 .. Len(a)
      /\ Len(b) \in 0 .. FetchWidth
  <2>1. Len(b) \in Nat /\ Len(r) \in Nat /\ DOMAIN b = 1 .. Len(b) /\ DOMAIN a = 1 .. Len(a)
    BY <1>2, <1>3, FetchedCodes
  <2>2. Len(a) <= FetchWidth
    BY <1>1 DEF TypeOK
  <2> QED
    BY <1>2, <1>3, <2>1, <2>2, Sizes
<1>5. b \o r = a
  <2>1. PICK z : z = b \o r
    OBVIOUS
  <2>2. /\ z \in Seq(Fetched) /\ Len(z) = Len(a)
        /\ \A k \in 1 .. Len(b) : z[k] = b[k]
        /\ \A k \in 1 .. Len(r) : z[Len(b) + k] = r[k]
    BY <1>3, <2>1, ConcatIs
  <2>3. ASSUME NEW k \in 1 .. Len(a) PROVE z[k] = a[k]
    <3>1. CASE k <= Len(b)
      BY <1>3, <1>4, <2>2, <3>1
    <3>2. CASE ~(k <= Len(b))
      <4>1. PICK j \in 1 .. Len(r) : k = Len(b) + j
        <5>1. k - Len(b) \in 1 .. Len(r) /\ k = Len(b) + (k - Len(b))
          BY <1>2, <1>3, <1>4, <3>2
        <5> QED
          BY <5>1
      <4>2. z[Len(b) + j] = r[j] /\ r[j] = a[Len(b) + j]
        BY <1>3, <2>2
      <4> QED
        BY <4>1, <4>2
    <3> QED
      BY <3>1, <3>2
  <2>4. z = a
    BY <1>2, <2>2, <2>3, SeqEqual
  <2> QED
    BY <2>1, <2>4
<1>6. /\ \A k \in 1 .. Len(a) :
           /\ a[k].taken => k = Len(a)
           /\ a[k].kind = "except" => k = Len(a)
           /\ a[k].kind \in {"jump", "call", "return"} => a[k].taken
      /\ dropped # <<>> => r = <<>>
  BY DEF IInv, Bundling, r
<1>7. \A k \in 1 .. Len(b) : k \in 1 .. Len(a) /\ (k = Len(a) => k = Len(b)) /\ (k = Len(b) \/ k \in 1 .. Len(b) - 1)
  BY <1>2, <1>3, <1>4
<1>8. \A k \in 1 .. Len(b) : b[k].kind \in Stop => k = Len(b)
  <2> SUFFICES ASSUME NEW k \in 1 .. Len(b), b[k].kind \in Stop, k # Len(b) PROVE FALSE
    OBVIOUS
  <2>1. k \in 1 .. Len(a) /\ k \in 1 .. Len(b) - 1 /\ k # Len(a) /\ b[k] = a[k]
    BY <1>3, <1>7
  <2> QED
    BY <1>3, <1>6, <2>1 DEF Stop
<1>9. \A k \in 1 .. Len(b) : /\ b[k].taken => k = Len(b)
                             /\ b[k].kind \in {"jump", "call", "return"} => b[k].taken
  BY <1>3, <1>6, <1>7
<1>10. dropped' \in Seq(Fetched) /\ Beyond(Beyond(Here, b), dropped') = Path
  <2>1. Here \in InContext /\ Path = Beyond(Beyond(Here, a), dropped)
    BY <1>1, PathIs
  <2>2. Beyond(Here, a) = Beyond(Beyond(Here, b), r) /\ Beyond(Here, b) \in InContext
    <3>1. Beyond(Here, b) \in InContext /\ Beyond(Here, b \o r) = Beyond(Beyond(Here, b), r)
      BY <1>3, <2>1, BeyondIs
    <3> QED
      BY <1>5, <3>1
  <2>3. dropped' \in Seq(Fetched)
    <3>1. PICK z : z = dropped \o r
      OBVIOUS
    <3>2. z \in Seq(Fetched)
      BY <1>2, <1>3, <3>1, ConcatIs
    <3> QED
      BY <1>1, <3>1, <3>2
  <2>4. CASE dropped = <<>>
    <3>1. dropped' = r
      BY <1>1, <1>3, <2>4
    <3>2. Beyond(Here, a) \in InContext
      BY <1>2, <2>1, BeyondIs
    <3>3. Beyond(Beyond(Here, a), <<>>) = Beyond(Here, a)
      BY <1>2, <3>2, BeyondIs
    <3> QED
      BY <2>1, <2>2, <2>3, <2>4, <3>1, <3>3
  <2>5. CASE dropped # <<>>
    <3>1. r = <<>>
      BY <1>6, <2>5
    <3>2. dropped' = dropped
      BY <1>1, <1>2, <3>1
    <3>3. Beyond(Beyond(Here, b), <<>>) = Beyond(Here, b)
      BY <1>3, <2>2, BeyondIs
    <3> QED
      BY <2>1, <2>2, <2>3, <3>1, <3>2, <3>3
  <2> QED
    BY <2>4, <2>5
<1>11. Behind(b) = <<>>
  <2>1. /\ Kept(b) \in Seq(Fetched) /\ Behind(b) \in Seq(Fetched)
        /\ Len(Kept(b)) + Len(Behind(b)) = Len(b) /\ Len(Kept(b)) <= Len(b)
        /\ Len(Kept(b)) = Len(b) \/ (Len(Kept(b)) \in 1 .. Len(b) /\ b[Len(Kept(b))].kind = "serial")
    BY <1>3, KeptIs
  <2>2. Len(Kept(b)) = Len(b)
    BY <1>8, <2>1 DEF Stop
  <2>3. Len(Behind(b)) = 0
    <3>1. Len(Kept(b)) \in Nat /\ Len(Behind(b)) \in Nat
      BY <2>1
    <3> QED
      BY <2>1, <2>2, <3>1
  <2> QED
    BY <2>1, <2>3
<1>12. Stops(a) => Stops(b)
  <2> SUFFICES ASSUME NEW k \in 1 .. Len(a), a[k].kind \in Stop PROVE Stops(b)
    BY <1>4 DEF Stops
  <2>1. CASE Len(b) = Len(a)
    BY <1>3, <1>4, <2>1 DEF Stops
  <2>2. CASE Len(b) # Len(a)
    <3>1. Len(b) \in 1 .. Len(b) /\ a[Len(b)].kind = "serial"
      BY <1>3, <1>4, <2>2
    <3>2. b[Len(b)].kind \in Stop
      BY <1>3, <3>1 DEF Stop
    <3> QED
      BY <1>4, <3>1, <3>2 DEF Stops
  <2> QED
    BY <2>1, <2>2
<1>13. fetch_active' => (fetch_active /\ dropped' = <<>> /\ ~Stops(b))
  <2> SUFFICES ASSUME fetch_active' PROVE fetch_active /\ dropped' = <<>> /\ ~Stops(b)
    OBVIOUS
  <2>1. fetch_active /\ ~Stops(b)
    BY <1>1
  <2>2. dropped = <<>>
    BY <2>1 DEF IInv, FetchActiveExact
  <2>3. ~(Len(b) \in 1 .. Len(a) /\ a[Len(b)].kind = "serial")
    <3> SUFFICES ASSUME Len(b) \in 1 .. Len(a), a[Len(b)].kind = "serial" PROVE FALSE
      OBVIOUS
    <3>1. Len(b) \in 1 .. Len(b)
      BY <1>4
    <3>2. b[Len(b)].kind \in Stop
      BY <1>3, <3>1 DEF Stop
    <3> QED
      BY <1>4, <2>1, <3>1, <3>2 DEF Stops
  <2>4. Len(r) = 0
    BY <1>2, <1>3, <1>4, <2>3
  <2>5. r = <<>>
    BY <1>3, <2>4
  <2>6. dropped' = <<>>
    BY <1>1, <2>2, <2>5
  <2> QED
    BY <2>1, <2>6
<1>14. ~fetch_active' => (Stops(Insns) \/ Stops(b))
  BY <1>1, <1>12 DEF IInv, FetchActiveExact
<1>15. \A k \in DOMAIN window : window[k].insn.kind \notin Stop
  BY <1>1 DEF IInv, FetchActiveExact
<1>16. ASSUME NEW k \in 1 .. Len(b) PROVE b[k].bhr = fetch2.bhr /\ b[k].slot = Conds(b, k - 1)
  <2>1. k \in 1 .. Len(a) /\ a[k].bhr = fetch2.bhr /\ a[k].slot = Conds(a, k - 1)
    BY <1>1, <1>7 DEF IInv, BundleContext
  <2>2. k - 1 \in Nat /\ \A j \in 1 .. k - 1 : b[j] = a[j]
    BY <1>3, <1>4
  <2>3. Conds(b, k - 1) = Conds(a, k - 1)
    BY <2>2, BranchesAgree
  <2> QED
    BY <1>3, <2>1, <2>3
<1> QED
  BY <1>3, <1>4, <1>8, <1>9, <1>10, <1>11, <1>13, <1>14, <1>15, <1>16

LEMMA StallKeeps ==
  ASSUME IInv, TypeOK', Fetch2Stall
  PROVE  Rest'
<1>1. PICK b : b = Kept(fetch2.insns)
  OBVIOUS
<1>2. /\ Predecode /\ fetch2' = [fetch2 EXCEPT !.insns = b] /\ fetch2 \in Bundled /\ TypeOK
      /\ UNCHANGED <<bhr, ras, tos, bq, log, ras_tail, window, base, program>>
  BY <1>1 DEF Fetch2Stall, IInv, TypeOK
<1>3. /\ b \in Seq(Fetched) /\ Len(b) \in 0 .. FetchWidth /\ DOMAIN b = 1 .. Len(b)
      /\ dropped' \in Seq(Fetched) /\ Beyond(Beyond(Here, b), dropped') = Path
      /\ Behind(b) = <<>>
      /\ fetch_active' => (fetch_active /\ dropped' = <<>> /\ ~Stops(b))
      /\ ~fetch_active' => (Stops(Insns) \/ Stops(b))
      /\ \A k \in DOMAIN window : window[k].insn.kind \notin Stop
      /\ \A k \in 1 .. Len(b) :
           /\ b[k].taken => k = Len(b)
           /\ b[k].kind \in Stop => k = Len(b)
           /\ b[k].kind \in {"jump", "call", "return"} => b[k].taken
      /\ \A k \in 1 .. Len(b) : b[k].bhr = fetch2.bhr /\ b[k].slot = Conds(b, k - 1)
  BY <1>1, <1>2, PredecodeIs
<1>4. Insns' = Insns /\ Here' = Here /\ QueueExact' /\ LogExact'
  BY <1>2, WindowStays DEF IInv
<1>5. fetch2'.insns = b /\ fetch2'.bhr = fetch2.bhr /\ fetch2'.tos = fetch2.tos
  BY <1>2 DEF Bundled
<1>6. (fetch2'.valid <=> fetch2.valid) /\ (fetch2'.misfetch <=> fetch2.misfetch)
  BY <1>2, Zenon DEF Bundled
<1>7. HistoryExact'
  <2>1. Path' = Path
    <3>1. (Path = Beyond(Beyond(Here, fetch2.insns), dropped))'
      BY PathPrimed
    <3> QED
      BY <1>3, <1>4, <1>5, <3>1
  <2> QED
    BY <1>2, <2>1 DEF IInv, HistoryExact
<1>8. BundleContext'
  <2>1. fetch2.valid
    BY <1>2 DEF Predecode
  <2> QED
    BY <1>2, <1>3, <1>4, <1>5, <2>1 DEF IInv, BundleContext
<1>9. Bundling'
  <2>1. \A k \in 1 .. Len(window') : window'[k].resolved => IsBranch(window'[k].insn)
    BY <1>2 DEF IInv, Bundling
  <2>2. fetch2.valid /\ ~fetch2.misfetch
    BY <1>2 DEF Predecode
  <2>3. fetch2'.valid /\ ~fetch2'.misfetch
    BY <1>6, <2>2
  <2>4. Behind(fetch2'.insns) = <<>>
    BY <1>3, <1>5
  <2>5. \A k \in 1 .. Len(fetch2'.insns) :
          /\ fetch2'.insns[k].taken => k = Len(fetch2'.insns)
          /\ fetch2'.insns[k].kind = "except" => k = Len(fetch2'.insns)
          /\ fetch2'.insns[k].kind \in {"jump", "call", "return"} => fetch2'.insns[k].taken
    BY <1>3, <1>5 DEF Stop
  <2> QED
    BY <2>1, <2>3, <2>4, <2>5 DEF Bundling
<1>10. FetchActiveExact'
  <2>1. ~fetch_active' => Stops(Insns') \/ Stops(fetch2'.insns)
    BY <1>3, <1>4, <1>5
  <2>2. fetch_active' => dropped' = <<>>
    BY <1>3
  <2>3. \A k \in DOMAIN window' : window'[k].insn.kind \notin Stop
    BY <1>2, <1>3
  <2> QED
    BY <2>1, <2>2, <2>3 DEF FetchActiveExact
<1> QED
  BY <1>4, <1>7, <1>8, <1>9, <1>10 DEF Rest

(* The window with the bundle behind it.                                   *)
LEMMA AdvanceIs ==
  ASSUME TypeOK, TypeOK', Fetch2Advance, NEW b, b = Kept(fetch2.insns)
  PROVE  /\ Insns' = Insns \o b /\ Len(window') = Len(window) + Len(b)
         /\ \A k \in 1 .. Len(window) : Insns'[k] = Insns[k] /\ window'[k] = window[k]
         /\ \A k \in 1 .. Len(b) : Insns'[Len(window) + k] = b[k] /\ window'[Len(window) + k] = Item(b, k)
<1>1. /\ window' \in Seq(InFlight) /\ Len(window') = Len(window) + Len(b)
      /\ \A k \in 1 .. Len(window) : window'[k] = window[k]
      /\ \A k \in 1 .. Len(b) : window'[Len(window) + k] = Item(b, k)
  BY AdvanceWindow
<1>2. /\ Insns \in Seq(Fetched) /\ Len(Insns) = Len(window) /\ Len(window) \in Nat
      /\ \A k \in 1 .. Len(window) : Insns[k] = window[k].insn
  BY InsnsType
<1>3. b \in Seq(Fetched) /\ Len(b) \in Nat
  BY PredecodeType, FetchedCodes DEF Fetch2Advance
<1>4. \A k \in 1 .. Len(b) : Item(b, k).insn = b[k]
  BY <1>3, ItemIs
<1>5. DOMAIN window' = 1 .. Len(window')
  BY <1>1, WindowType
<1>6. Insns' = [k \in 1 .. Len(window') |-> window'[k].insn]
  BY <1>5 DEF Insns
<1>7. PICK z : z = Insns \o b
  OBVIOUS
<1>8. /\ z \in Seq(Fetched) /\ Len(z) = Len(window) + Len(b)
      /\ \A k \in 1 .. Len(window) : z[k] = Insns[k]
      /\ \A k \in 1 .. Len(b) : z[Len(window) + k] = b[k]
  <2>1. /\ z \in Seq(Fetched) /\ Len(z) = Len(Insns) + Len(b)
        /\ \A k \in 1 .. Len(Insns) : z[k] = Insns[k]
        /\ \A k \in 1 .. Len(b) : z[Len(Insns) + k] = b[k]
    <3>1. Insns \in Seq(Fetched) /\ b \in Seq(Fetched)
      BY <1>2, <1>3
    <3> QED
      BY <1>7, <3>1, ConcatIs
  <2> QED
    BY <1>2, <2>1
<1>9. ASSUME NEW k \in 1 .. Len(window) PROVE Insns'[k] = Insns[k] /\ Insns'[k] = z[k]
  <2>1. k \in 1 .. Len(window')
    BY <1>1, <1>2, <1>3
  <2> QED
    BY <1>1, <1>2, <1>6, <1>8, <2>1
<1>10. ASSUME NEW k \in 1 .. Len(b) PROVE Insns'[Len(window) + k] = b[k]
  <2>1. Len(window) + k \in 1 .. Len(window')
    BY <1>1, <1>2, <1>3
  <2>2. Insns'[Len(window) + k] = window'[Len(window) + k].insn
    BY <1>6, <2>1
  <2> QED
    BY <1>1, <1>4, <2>2
<1>11. Insns' = z
  <2>1. ASSUME NEW k \in 1 .. Len(window') PROVE window'[k].insn = z[k]
    <3>1. Insns'[k] = window'[k].insn
      BY <1>6
    <3>2. CASE k <= Len(window)
      BY <1>2, <1>9, <3>1, <3>2
    <3>3. CASE ~(k <= Len(window))
      <4>1. PICK j \in 1 .. Len(b) : k = Len(window) + j
        <5>1. k - Len(window) \in 1 .. Len(b) /\ k = Len(window) + (k - Len(window))
          BY <1>1, <1>2, <1>3, <3>3
        <5> QED
          BY <5>1
      <4> QED
        BY <1>8, <1>10, <3>1, <4>1
    <3> QED
      BY <3>2, <3>3
  <2>2. z = [k \in 1 .. Len(window') |-> z[k]]
    <3>1. DOMAIN z = 1 .. Len(z) /\ Len(z) = Len(window')
      BY <1>1, <1>8
    <3>2. z = [k \in DOMAIN z |-> z[k]]
      BY <1>8
    <3> QED
      BY <3>1, <3>2
  <2> QED
    BY <1>6, <2>1, <2>2
<1> QED
  BY <1>1, <1>7, <1>9, <1>10, <1>11

(* The queue takes the bundle's branches.                                  *)
LEMMA AdvanceQueue ==
  ASSUME IInv, TypeOK', Fetch2Advance
  PROVE  QueueExact'
<1>1. PICK b : b = Kept(fetch2.insns)
  OBVIOUS
<1> DEFINE n == Len(window)
           N == Branches(Insns, n)
           B == Branches(b, Len(b))
           h == bq_head
           hp == bq_head_phase
<1>2. /\ TypeOK /\ n \in Nat /\ b \in Seq(Fetched) /\ Len(b) \in Nat
  BY <1>1, InsnsType, PredecodeType, FetchedCodes DEF Fetch2Advance, IInv
<1>3. /\ Len(window') = n + Len(b) /\ Len(window') <= WindowSize
      /\ \A k \in 1 .. n : Insns'[k] = Insns[k] /\ window'[k] = window[k]
      /\ \A k \in 1 .. Len(b) : Insns'[n + k] = b[k] /\ window'[n + k] = Item(b, k)
  BY <1>1, <1>2, AdvanceIs DEF TypeOK
<1>4. /\ h \in Slot /\ hp \in BOOLEAN /\ bq_tail \in Slot /\ bq_tail_phase \in BOOLEAN
  BY <1>2 DEF TypeOK
<1>5. /\ bq_tail' = (bq_tail + B) % BqSize /\ ras_tail' = (ras_tail + B) % BqSize
      /\ bq_tail_phase' = (IF bq_tail + B >= BqSize THEN ~bq_tail_phase ELSE bq_tail_phase)
      /\ bq_head' = h /\ bq_head_phase' = hp
  BY <1>1, Zenon DEF Fetch2Advance
<1>6. /\ \A k \in 1 .. n : IsBranch(window[k].insn) =>
           Place(window[k].tag, window[k].phase, Branches(Insns, k - 1), h, hp)
      /\ Place(bq_tail, bq_tail_phase, N, h, hp) /\ ras_tail = bq_tail
  BY <1>2, QueueForm DEF IInv, QueueOf
<1>7. N \in 0 .. n /\ B \in 0 .. Len(b) /\ n + Len(b) <= BqSize /\ BqSize \in Nat
  BY <1>2, <1>3, BranchesIs, Sizes
<1>8. \A m \in 0 .. Len(b) : Branches(Insns', n + m) = N + Branches(b, m)
  <2> SUFFICES ASSUME NEW m \in 0 .. Len(b) PROVE Branches(Insns', n + m) = N + Branches(b, m)
    OBVIOUS
  <2>1. m \in Nat /\ (\A j \in 1 .. m : Insns'[n + j] = b[j]) /\ \A j \in 1 .. n : Insns'[j] = Insns[j]
    BY <1>2, <1>3
  <2> QED
    <3> HIDE DEF n
    <3>1. n \in Nat
      BY <1>2
    <3>3. Appended(Insns, n, b, m, Insns')
      BY <2>1 DEF Appended
    <3>2. Branches(Insns', n + m) = Branches(Insns, n) + Branches(b, m)
      BY <2>1, <3>1, <3>3, BranchesConcat
    <3> QED
      BY <3>2
<1>9. ASSUME NEW k \in 1 .. n PROVE Branches(Insns', k - 1) = Branches(Insns, k - 1) /\ window'[k] = window[k]
  <2>1. k - 1 \in Nat /\ \A j \in 1 .. k - 1 : Insns'[j] = Insns[j]
    BY <1>2, <1>3
  <2> QED
    BY <1>3, <2>1, BranchesAgree
<1>10. Place(bq_tail', bq_tail_phase', Branches(Insns', Len(window')), h, hp)
  <2>1. PICK l : l = N + B
    OBVIOUS
  <2>2. N \in 0 .. BqSize /\ B \in 0 .. BqSize /\ N + B <= BqSize
    BY <1>2, <1>7
  <2> HIDE DEF N, B, h, hp
  <2>3. Place((bq_tail + B) % BqSize, IF bq_tail + B >= BqSize THEN ~bq_tail_phase ELSE bq_tail_phase, l, h, hp)
    BY <1>4, <1>6, <2>1, <2>2, PlaceForward
  <2>4. Branches(Insns', Len(window')) = l
    BY <1>2, <1>3, <1>8, <2>1 DEF B
  <2> QED
    BY <1>5, <2>3, <2>4, Zenon
<1>11. ASSUME NEW k \in 1 .. Len(b), IsBranch(b[k])
       PROVE  Place(Item(b, k).tag, Item(b, k).phase, Branches(Insns', (n + k) - 1), h, hp)
  <2> DEFINE m == Branches(b, k - 1)
  <2>1. k - 1 \in Nat /\ (n + k) - 1 = n + (k - 1) /\ k - 1 \in 0 .. Len(b) /\ (k - 1) + 1 = k
    BY <1>2
  <2>2. m \in 0 .. k - 1 /\ Branches(b, (k - 1) + 1) = m + 1
    <3>1. PICK j \in Nat : j = k - 1 /\ j + 1 = k
      BY <2>1
    <3>2. Branches(b, j) \in 0 .. j /\ Branches(b, j + 1) = Branches(b, j) + (IF IsBranch(b[j + 1]) THEN 1 ELSE 0)
      BY BranchesIs
    <3> QED
      BY <1>11, <3>1, <3>2
  <2>3. m + 1 <= B
    BY <1>2, <2>1, <2>2, BranchesMono
  <2>4. Branches(Insns', (n + k) - 1) = N + m
    BY <1>8, <2>1
  <2>5. Item(b, k).tag = PredTag(b, k) /\ Item(b, k).phase = PredPhase(b, k)
    <3>1. b \in Seq(Fetched) /\ TypeOK /\ IsBranch(b[k])
      BY <1>2, <1>11
    <3> QED
      BY <3>1, ItemIs, Zenon
  <2>6. PICK l : l = N + m
    OBVIOUS
  <2> HIDE DEF m
  <2>7. N \in 0 .. BqSize /\ m \in 0 .. BqSize /\ N + m <= BqSize /\ m < BqSize
    BY <1>2, <1>7, <2>1, <2>2, <2>3
  <2> HIDE DEF N, B, h, hp
  <2>8. Place((bq_tail + m) % BqSize, IF (bq_tail + m) % BqSize < bq_tail THEN ~bq_tail_phase ELSE bq_tail_phase, l, h, hp)
    BY <1>4, <1>6, <2>6, <2>7, PlaceForward
  <2>9. Place(PredTag(b, k), PredPhase(b, k), l, h, hp)
    BY <2>8 DEF PredTag, PredPhase, m
  <2> QED
    BY <2>4, <2>5, <2>6, <2>9
<1>12. ASSUME NEW k \in 1 .. Len(window'), IsBranch(window'[k].insn)
       PROVE  Place(window'[k].tag, window'[k].phase, Branches(Insns', k - 1), h, hp)
  <2>1. CASE k <= n
    <3>1. k \in 1 .. n
      BY <1>2, <2>1
    <3> QED
      BY <1>6, <1>9, <1>12, <3>1
  <2>2. CASE ~(k <= n)
    <3>1. PICK j \in 1 .. Len(b) : k = n + j
      <4>1. k - n \in 1 .. Len(b) /\ k = n + (k - n)
        BY <1>2, <1>3, <2>2
      <4> QED
        BY <4>1
    <3>2. window'[k] = Item(b, j) /\ Item(b, j).insn = b[j]
      BY <1>2, <1>3, <3>1, ItemIs
    <3> QED
      BY <1>11, <1>12, <3>1, <3>2
  <2> QED
    BY <2>1, <2>2
<1>13. QueueOf(window', Insns', bq_head', bq_head_phase', bq_tail', bq_tail_phase')
  BY <1>5, <1>10, <1>12 DEF QueueOf
<1>14. ras_tail' = bq_tail'
  BY <1>5, <1>6
<1> QED
  BY <1>13, <1>14, QueueForm

(* Different branches of the queue have different places.                  *)
LEMMA TagsApart ==
  ASSUME NEW w, NEW s, NEW h \in Slot, NEW hp \in BOOLEAN, NEW t, NEW tp, QueueOf(w, s, h, hp, t, tp),
         Len(w) \in Nat, Len(w) <= BqSize, \A k \in 1 .. Len(w) : s[k] = w[k].insn,
         NEW i \in 1 .. Len(w), NEW j \in 1 .. Len(w), IsBranch(w[i].insn), IsBranch(w[j].insn),
         w[i].tag = w[j].tag
  PROVE  i = j
<1>1. BqSize \in Nat \ {0}
  BY Sizes
<1>2. ASSUME NEW k \in 1 .. Len(w), IsBranch(w[k].insn)
      PROVE  /\ Place(w[k].tag, w[k].phase, Branches(s, k - 1), h, hp)
             /\ Branches(s, k - 1) \in 0 .. BqSize - 1
             /\ \A l \in 1 .. Len(w) : k < l => Branches(s, k - 1) < Branches(s, l - 1)
  <2>1. Place(w[k].tag, w[k].phase, Branches(s, k - 1), h, hp)
    BY <1>2 DEF QueueOf
  <2>2. k - 1 \in Nat /\ k \in Nat /\ (k - 1) + 1 = k
    BY Sizes
  <2>3. Branches(s, k - 1) \in 0 .. k - 1
    BY <2>2, BranchesIs
  <2>4. Branches(s, k) = Branches(s, k - 1) + 1
    <3>1. PICK m \in Nat : m = k - 1 /\ m + 1 = k
      BY <2>2
    <3>2. Branches(s, m + 1) = Branches(s, m) + (IF IsBranch(s[m + 1]) THEN 1 ELSE 0)
      BY BranchesIs
    <3>3. IsBranch(s[k])
      BY <1>2
    <3> QED
      BY <3>1, <3>2, <3>3
  <2>5. ASSUME NEW l \in 1 .. Len(w), k < l PROVE Branches(s, k - 1) < Branches(s, l - 1)
    <3>1. l - 1 \in Nat /\ k <= l - 1
      BY <2>2, <2>5
    <3>2. Branches(s, k) <= Branches(s, l - 1) /\ Branches(s, l - 1) \in 0 .. l - 1
      BY <2>2, <3>1, BranchesMono, BranchesIs
    <3> QED
      BY <2>2, <2>3, <2>4, <3>1, <3>2
  <2>6. Branches(s, k - 1) \in 0 .. BqSize - 1
    BY <1>1, <2>2, <2>3
  <2> QED
    BY <2>1, <2>5, <2>6
<1>3. /\ Place(w[i].tag, w[i].phase, Branches(s, i - 1), h, hp)
      /\ Place(w[i].tag, w[j].phase, Branches(s, j - 1), h, hp)
      /\ Branches(s, i - 1) \in 0 .. BqSize - 1 /\ Branches(s, j - 1) \in 0 .. BqSize - 1
  BY <1>2
<1>4. Branches(s, i - 1) = Branches(s, j - 1)
  BY <1>3, PlacesApart
<1>5. ~(i < j) /\ ~(j < i)
  BY <1>2, <1>3, <1>4
<1> QED
  BY <1>5

(* A branch in flight keeps its entry, and one of the bundle gets its own. *)
LEMMA AdvanceEntries ==
  ASSUME IInv, TypeOK', Fetch2Advance, QueueExact', NEW b, b = Kept(fetch2.insns)
  PROVE  /\ \A i \in 1 .. Len(window) : IsBranch(window[i].insn) => log'[window[i].tag] = log[window[i].tag]
         /\ \A k \in 1 .. Len(b) : IsBranch(b[k]) => log'[Item(b, k).tag] = Entry(b, k)
<1>1. b = Kept(fetch2.insns)
  OBVIOUS
<1> DEFINE n == Len(window)
           At(t) == {k \in DOMAIN b : IsBranch(b[k]) /\ PredTag(b, k) = t}
<1>2. /\ TypeOK /\ n \in Nat /\ b \in Seq(Fetched) /\ Len(b) \in Nat /\ DOMAIN b = 1 .. Len(b)
      /\ Codes(b) /\ Codes(Insns) /\ Insns \in Seq(Fetched) /\ Len(Insns) = n /\ base \in InContext
      /\ Predecode
  <2>1. TypeOK /\ Predecode
    BY DEF Fetch2Advance, IInv
  <2>2. n \in Nat /\ Codes(Insns) /\ Insns \in Seq(Fetched) /\ Len(Insns) = n /\ base \in InContext
    BY <2>1, InsnsType
  <2>3. b \in Seq(Fetched)
    BY <1>1, <2>1, PredecodeType
  <2> QED
    BY <2>1, <2>2, <2>3, FetchedCodes
<1>3. /\ Insns' = Insns \o b
      /\ Len(window') = n + Len(b) /\ Len(window') <= WindowSize
      /\ \A k \in 1 .. n : Insns'[k] = Insns[k] /\ window'[k] = window[k]
      /\ \A k \in 1 .. Len(b) : Insns'[n + k] = b[k] /\ window'[n + k] = Item(b, k)
  BY <1>1, <1>2, AdvanceIs DEF TypeOK
<1>4. /\ log' = [t \in Slot |-> IF At(t) = {} THEN log[t] ELSE Entry(b, CHOOSE k \in At(t) : TRUE)]
      /\ base' = base
  BY <1>1 DEF Fetch2Advance
<1>5. QueueOf(window', Insns', bq_head', bq_head_phase', bq_tail', bq_tail_phase')
      /\ bq_head' \in Slot /\ bq_head_phase' \in BOOLEAN
  BY QueueForm DEF TypeOK
<1>6. /\ Len(window') \in Nat /\ Len(window') <= BqSize /\ (\A k \in 1 .. Len(window') : Insns'[k] = window'[k].insn)
      /\ Insns' \in Seq(Fetched) /\ Codes(Insns') /\ Len(Insns') = Len(window')
      /\ \A k \in 1 .. Len(window') : window'[k] \in InFlight
  <2>1. TypeOK' => /\ (\A k \in 1 .. Len(window) : window[k] \in InFlight /\ Insns[k] = window[k].insn)'
                   /\ (Insns \in Seq(Fetched))' /\ (Codes(Insns))' /\ (Len(Insns) = Len(window))'
    <3>1. TypeOK => /\ (\A k \in 1 .. Len(window) : window[k] \in InFlight /\ Insns[k] = window[k].insn)
                    /\ (Insns \in Seq(Fetched)) /\ (Codes(Insns)) /\ (Len(Insns) = Len(window))
      BY InsnsType
    <3> QED
      BY InsnsType, PTL
  <2>2. PICK l : l = Len(window') /\ l = n + Len(b) /\ l <= WindowSize
    BY <1>3, Zenon
  <2>3. Len(window') \in Nat /\ Len(window') <= BqSize
    BY <1>2, <2>2, Sizes
  <2> QED
    BY <2>1, <2>3, Zenon
<1>7. ASSUME NEW i \in 1 .. Len(window'), NEW j \in 1 .. Len(window'), IsBranch(window'[i].insn),
             IsBranch(window'[j].insn), window'[i].tag = window'[j].tag
      PROVE  i = j
  BY <1>5, <1>6, <1>7, TagsApart
<1>8. ASSUME NEW k \in 1 .. Len(b), IsBranch(b[k])
      PROVE  n + k \in 1 .. Len(window') /\ IsBranch(window'[n + k].insn) /\ window'[n + k].tag = PredTag(b, k)
             /\ window'[n + k].insn = b[k]
  <2>1. Item(b, k).insn = b[k] /\ Item(b, k).tag = PredTag(b, k)
    BY <1>2, <1>8, ItemIs
  <2>2. n + k \in 1 .. Len(window')
    BY <1>2, <1>3
  <2> QED
    BY <1>3, <1>8, <2>1, <2>2
<1>9. ASSUME NEW i \in 1 .. n, IsBranch(window[i].insn)
      PROVE  log'[window[i].tag] = log[window[i].tag]
  <2> DEFINE t == window[i].tag
  <2>1. i \in 1 .. Len(window') /\ window'[i] = window[i] /\ i - 1 \in 0 .. n
    BY <1>2, <1>3
  <2>2. t \in Slot
    BY <1>6, <2>1 DEF InFlight
  <2>3. At(t) = {}
    <3> SUFFICES ASSUME NEW k \in At(t) PROVE FALSE
      OBVIOUS
    <3>1. k \in 1 .. Len(b) /\ IsBranch(b[k]) /\ PredTag(b, k) = t
      BY <1>2
    <3>2. n + k \in 1 .. Len(window') /\ IsBranch(window'[n + k].insn) /\ window'[n + k].tag = t
      BY <1>8, <3>1
    <3>3. i = n + k
      BY <1>7, <1>9, <2>1, <3>2
    <3> QED
      BY <1>2, <3>1, <3>3
  <2> HIDE DEF At
  <2>4. log'[t] = log[t]
    BY <1>4, <2>2, <2>3
  <2> QED
    BY <2>4
<1>10. ASSUME NEW k \in 1 .. Len(b), IsBranch(b[k])
       PROVE  log'[Item(b, k).tag] = Entry(b, k)
  <2> DEFINE t == PredTag(b, k)
  <2>1. n + k \in 1 .. Len(window') /\ IsBranch(window'[n + k].insn) /\ window'[n + k].tag = t
        /\ window'[n + k].insn = b[k]
    BY <1>8, <1>10
  <2>2. t \in Slot
    BY <1>2, ItemIs
  <2>3. At(t) = {k}
    <3>1. ASSUME NEW l \in At(t) PROVE l = k
      <4>1. l \in 1 .. Len(b) /\ IsBranch(b[l]) /\ PredTag(b, l) = t
        BY <1>2, <3>1
      <4>2. n + l \in 1 .. Len(window') /\ IsBranch(window'[n + l].insn) /\ window'[n + l].tag = t
        BY <1>8, <4>1
      <4>3. n + l = n + k
        BY <1>7, <2>1, <4>2
      <4> QED
        BY <1>2, <4>1, <4>3
    <3>2. k \in At(t)
      BY <1>2, <1>10
    <3> QED
      BY <3>1, <3>2
  <2> HIDE DEF At, t
  <2>4. log'[t] = Entry(b, k)
    <3>1. (CHOOSE l \in At(t) : TRUE) = k
      BY <2>3
    <3>2. At(t) # {}
      BY <2>3
    <3> QED
      BY <1>4, <2>2, <3>1, <3>2
  <2> QED
    BY <1>2, <1>10, <2>4, ItemIs DEF t
<1> QED
  BY <1>9, <1>10

(* What FETCH2 logs for a branch is the context in front of it.            *)
LEMMA EntryRecords ==
  ASSUME IInv, Predecode, NEW b, b = Kept(fetch2.insns), NEW k \in 1 .. Len(b), IsBranch(b[k])
  PROVE  Recorded(b[k], Entry(b, k), Contexts(Here, b)[k - 1])
<1>1. TypeOK /\ fetch2.valid /\ Here \in InContext
  BY PathIs DEF IInv, Predecode
<1>2. /\ b \in Seq(Fetched) /\ Len(b) \in 0 .. FetchWidth
      /\ \A j \in 1 .. Len(b) :
           /\ b[j].taken => j = Len(b)
           /\ b[j].kind \in {"jump", "call", "return"} => b[j].taken
      /\ b[k].bhr = fetch2.bhr /\ b[k].slot = Conds(b, k - 1)
  BY PredecodeIs
<1>3. fetch2.bhr = Here.bhr /\ fetch2.tos = Here.tos
  <2>1. Len(Insns) = Len(window)
    BY <1>1, InsnsType
  <2> QED
    BY <1>1, <2>1 DEF IInv, BundleContext, Here, Beyond
<1>4. Codes(b) /\ Len(b) \in Nat /\ k - 1 \in Nat /\ k - 1 <= Len(b) /\ k - 1 \in 0 .. Len(b)
      /\ k - 1 \in 0 .. k - 1
  BY <1>2, FetchedCodes, Sizes
<1>5. Contexts(Here, b)[k - 1].bhr = BhrAlong(fetch2.bhr, b)[k - 1]
  BY <1>1, <1>3, <1>4, ContextBhr
<1>6. \A j \in 1 .. k - 1 : b[j].kind \notin {"call", "return"}
  <2>1. \A j \in 1 .. k - 1 : j \in 1 .. Len(b) /\ j # Len(b)
    BY <1>4
  <2> QED
    BY <1>2, <2>1
<1>7. Contexts(Here, b)[k - 1].tos = fetch2.tos
  <2>1. (\A j \in 1 .. k - 1 : b[j].kind \notin {"call", "return"})
          => \A j \in 0 .. k - 1 : Contexts(Here, b)[j].tos = Here.tos /\ Contexts(Here, b)[j].stack = Here.stack
    BY <1>1, <1>4, ContextStays
  <2> QED
    BY <1>3, <1>4, <1>6, <2>1
<1> DEFINE e == Entry(b, k)
<1>8. /\ e.kind = b[k].kind /\ e.precise = BhrAlong(fetch2.bhr, b)[k - 1]
      /\ e.tos = fetch2.tos /\ e.fetch = fetch2.bhr
      /\ IsCond(b[k]) => e.cb = Conds(b, k - 1)
  BY DEF Entry
<1>9. e.taken = b[k].taken
  BY Zenon DEF Entry
<1> HIDE DEF e
<1>10. IsCond(e) => e.cb = b[k].slot
  BY <1>2, <1>8 DEF IsCond
<1>11. e.precise = Contexts(Here, b)[k - 1].bhr /\ e.tos = Contexts(Here, b)[k - 1].tos /\ e.fetch = b[k].bhr
  BY <1>2, <1>5, <1>7, <1>8
<1> QED
  BY <1>8, <1>9, <1>10, <1>11, Zenon DEF Recorded, e

LEMMA AdvanceLog ==
  ASSUME IInv, TypeOK', Fetch2Advance, QueueExact'
  PROVE  LogExact'
<1>1. PICK b : b = Kept(fetch2.insns)
  OBVIOUS
<1> DEFINE n == Len(window)
<1>2. /\ TypeOK /\ n \in Nat /\ b \in Seq(Fetched) /\ Len(b) \in Nat /\ DOMAIN b = 1 .. Len(b)
      /\ Codes(b) /\ Codes(Insns) /\ Insns \in Seq(Fetched) /\ Len(Insns) = n /\ base \in InContext
      /\ Predecode
  <2>1. TypeOK /\ Predecode
    BY DEF Fetch2Advance, IInv
  <2>2. n \in Nat /\ Codes(Insns) /\ Insns \in Seq(Fetched) /\ Len(Insns) = n /\ base \in InContext
    BY <2>1, InsnsType
  <2>3. b \in Seq(Fetched)
    BY <1>1, <2>1, PredecodeType
  <2> QED
    BY <2>1, <2>2, <2>3, FetchedCodes
<1>3. /\ Insns' = Insns \o b
      /\ Len(window') = n + Len(b) /\ Len(window') <= WindowSize
      /\ \A k \in 1 .. n : Insns'[k] = Insns[k] /\ window'[k] = window[k]
      /\ \A k \in 1 .. Len(b) : Insns'[n + k] = b[k] /\ window'[n + k] = Item(b, k)
  BY <1>1, <1>2, AdvanceIs DEF TypeOK
<1>4. base' = base
  BY DEF Fetch2Advance
<1>6. /\ Len(window') \in Nat /\ Len(window') <= BqSize /\ (\A k \in 1 .. Len(window') : Insns'[k] = window'[k].insn)
      /\ Insns' \in Seq(Fetched) /\ Codes(Insns') /\ Len(Insns') = Len(window')
      /\ \A k \in 1 .. Len(window') : window'[k] \in InFlight
  <2>1. TypeOK' => /\ (\A k \in 1 .. Len(window) : window[k] \in InFlight /\ Insns[k] = window[k].insn)'
                   /\ (Insns \in Seq(Fetched))' /\ (Codes(Insns))' /\ (Len(Insns) = Len(window))'
    <3>1. TypeOK => /\ (\A k \in 1 .. Len(window) : window[k] \in InFlight /\ Insns[k] = window[k].insn)
                    /\ (Insns \in Seq(Fetched)) /\ (Codes(Insns)) /\ (Len(Insns) = Len(window))
      BY InsnsType
    <3> QED
      BY InsnsType, PTL
  <2>2. PICK l : l = Len(window') /\ l = n + Len(b) /\ l <= WindowSize
    BY <1>3, Zenon
  <2>3. Len(window') \in Nat /\ Len(window') <= BqSize
    BY <1>2, <2>2, Sizes
  <2> QED
    BY <2>1, <2>3, Zenon
<1>8. ASSUME NEW k \in 1 .. Len(b), IsBranch(b[k])
      PROVE  n + k \in 1 .. Len(window') /\ IsBranch(window'[n + k].insn) /\ window'[n + k].tag = PredTag(b, k)
             /\ window'[n + k].insn = b[k]
  <2>1. Item(b, k).insn = b[k] /\ Item(b, k).tag = PredTag(b, k)
    BY <1>2, <1>8, ItemIs
  <2>2. n + k \in 1 .. Len(window')
    BY <1>2, <1>3
  <2> QED
    BY <1>3, <1>8, <2>1, <2>2
<1>9. ASSUME NEW i \in 1 .. n, IsBranch(window[i].insn)
      PROVE  Recorded(window'[i].insn, log'[window'[i].tag], Contexts(base', Insns')[i - 1])
  <2> DEFINE t == window[i].tag
  <2>1. i \in 1 .. Len(window') /\ window'[i] = window[i] /\ i - 1 \in 0 .. n
    BY <1>2, <1>3
  <2>4. log'[t] = log[t]
    BY <1>1, <1>9, AdvanceEntries
  <2>5. Contexts(base, Insns')[i - 1] = Contexts(base, Insns)[i - 1]
    <3>1. n <= Len(Insns) /\ n <= Len(Insns') /\ \A k \in 1 .. n : Insns'[k] = Insns[k]
      BY <1>2, <1>3, <1>6
    <3>2. \A k \in 0 .. n : Contexts(base, Insns')[k] = Contexts(base, Insns)[k]
      BY <1>2, <1>6, <3>1, ContextsAgree
    <3> QED
      BY <2>1, <3>2
  <2>6. Recorded(window[i].insn, log[t], Contexts(base, Insns)[i - 1])
    BY <1>2, <1>9, LogForm DEF IInv, LogOf
  <2> QED
    BY <1>4, <2>1, <2>4, <2>5, <2>6
<1>10. ASSUME NEW k \in 1 .. Len(b), IsBranch(b[k])
       PROVE  Recorded(window'[n + k].insn, log'[window'[n + k].tag], Contexts(base', Insns')[(n + k) - 1])
  <2> DEFINE t == PredTag(b, k)
  <2>1. n + k \in 1 .. Len(window') /\ IsBranch(window'[n + k].insn) /\ window'[n + k].tag = t
        /\ window'[n + k].insn = b[k]
    BY <1>8, <1>10
  <2>4. log'[t] = Entry(b, k)
    <3>1. log'[Item(b, k).tag] = Entry(b, k)
      BY <1>1, <1>10, AdvanceEntries
    <3>2. Item(b, k).tag = t
      BY <1>2, <1>10, ItemIs
    <3> QED
      BY <3>1, <3>2
  <2>5. Contexts(base, Insns')[(n + k) - 1] = Contexts(Here, b)[k - 1]
    <3>0. /\ Codes(Insns) /\ Codes(b) /\ Codes(Insns') /\ n <= Len(Insns) /\ Len(Insns') = n + Len(b)
          /\ \A j \in 1 .. n : Insns'[j] = Insns[j]
          /\ \A j \in 1 .. Len(b) : Insns'[n + j] = b[j]
      <4>1. Len(Insns') = n + Len(b) /\ Codes(Insns')
        BY <1>3, <1>6, Zenon
      <4>2. /\ \A j \in 1 .. n : Insns'[j] = Insns[j]
            /\ \A j \in 1 .. Len(b) : Insns'[n + j] = b[j]
        BY <1>3, Zenon
      <4>3. Codes(Insns) /\ Codes(b) /\ n <= Len(Insns)
        BY <1>2
      <4> QED
        BY <4>1, <4>2, <4>3, Zenon
    <3>1. Joined(Insns, n, b, Insns') /\ base \in InContext /\ n \in Nat
      BY <1>2, <3>0 DEF Joined
    <3>2. \A l \in 0 .. Len(b) : Contexts(base, Insns')[n + l] = Contexts(Contexts(base, Insns)[n], b)[l]
      <4> HIDE DEF n, t
      <4> QED
        BY <3>1, ContextsConcat
    <3>3. k - 1 \in 0 .. Len(b) /\ n + (k - 1) = (n + k) - 1
      BY <1>2
    <3>4. Contexts(base, Insns')[n + (k - 1)] = Contexts(Contexts(base, Insns)[n], b)[k - 1]
      BY <3>2, <3>3
    <3> QED
      BY <1>2, <3>3, <3>4 DEF Here, Beyond
  <2>6. Recorded(b[k], Entry(b, k), Contexts(Here, b)[k - 1])
    BY <1>1, <1>2, <1>10, EntryRecords
  <2> QED
    BY <1>4, <2>1, <2>4, <2>5, <2>6
<1>11. LogOf(window', Contexts(base', Insns'), log')
  <2> SUFFICES ASSUME NEW i \in 1 .. Len(window'), IsBranch(window'[i].insn)
               PROVE  Recorded(window'[i].insn, log'[window'[i].tag], Contexts(base', Insns')[i - 1])
    BY DEF LogOf
  <2>1. CASE i <= n
    <3>1. i \in 1 .. n /\ window'[i] = window[i]
      BY <1>2, <1>3, <2>1
    <3> QED
      BY <1>9, <3>1
  <2>2. CASE ~(i <= n)
    <3>1. PICK k \in 1 .. Len(b) : i = n + k
      <4>1. i - n \in 1 .. Len(b) /\ i = n + (i - n)
        BY <1>2, <1>3, <2>2
      <4> QED
        BY <4>1
    <3>2. IsBranch(b[k])
      BY <1>2, <1>3, <3>1, ItemIs
    <3> QED
      BY <1>10, <3>1, <3>2
  <2> QED
    BY <2>1, <2>2
<1> QED
  BY <1>11, LogForm

LEMMA AdvanceKeeps ==
  ASSUME IInv, TypeOK', Fetch2Advance
  PROVE  Rest'
<1>1. PICK b : b = Kept(fetch2.insns)
  OBVIOUS
<1> DEFINE n == Len(window)
<1>2. TypeOK /\ Predecode /\ UNCHANGED <<bhr, tos, base>> /\ fetch2' = NoBundle
  BY DEF Fetch2Advance, IInv
<1>3. /\ b \in Seq(Fetched) /\ Len(b) \in 0 .. FetchWidth /\ DOMAIN b = 1 .. Len(b)
      /\ dropped' \in Seq(Fetched) /\ Beyond(Beyond(Here, b), dropped') = Path
      /\ fetch_active' => (fetch_active /\ dropped' = <<>> /\ ~Stops(b))
      /\ ~fetch_active' => (Stops(Insns) \/ Stops(b))
      /\ \A k \in DOMAIN window : window[k].insn.kind \notin Stop
      /\ \A k \in 1 .. Len(b) : b[k].kind \in Stop => k = Len(b)
  BY <1>1, <1>2, PredecodeIs
<1>4. n \in Nat /\ DOMAIN window = 1 .. n /\ Insns \in Seq(Fetched) /\ Len(Insns) = n /\ Len(b) \in Nat
      /\ base \in InContext
  BY <1>2, <1>3, InsnsType, FetchedCodes
<1>5. /\ Insns' = Insns \o b /\ Len(window') = n + Len(b)
      /\ \A k \in 1 .. n : Insns'[k] = Insns[k] /\ window'[k] = window[k]
      /\ \A k \in 1 .. Len(b) : Insns'[n + k] = b[k] /\ window'[n + k] = Item(b, k)
  BY <1>1, <1>2, AdvanceIs
<1>6. DOMAIN window' = 1 .. n + Len(b)
  <2>1. window' \in Seq(InFlight)
    BY DEF TypeOK
  <2> QED
    BY <1>5, <2>1, WindowType
<1>7. \A k \in 1 .. n + Len(b) : k \in 1 .. n \/ \E j \in 1 .. Len(b) : k = n + j
  <2> SUFFICES ASSUME NEW k \in 1 .. n + Len(b), k \notin 1 .. n PROVE \E j \in 1 .. Len(b) : k = n + j
    OBVIOUS
  <2>1. k - n \in 1 .. Len(b) /\ k = n + (k - n)
    BY <1>4
  <2> QED
    BY <2>1
<1>8. \A k \in 1 .. Len(b) : Item(b, k).insn = b[k] /\ ~Item(b, k).resolved
  BY <1>2, <1>3, ItemIs
<1>9. fetch2'.insns = <<>> /\ ~fetch2'.valid
  BY <1>2, EmptyType
<1>10. HistoryExact'
  <2>1. Path' = Beyond(Here', dropped')
    <3>1. /\ (Path = Beyond(Beyond(Here, fetch2.insns), dropped))'
          /\ (fetch2.insns = <<>> => Beyond(Here, fetch2.insns) = Here)'
      BY PathPrimed
    <3> QED
      BY <1>9, <3>1
  <2>2. Here' = Beyond(Here, b)
    <3>1. Here' = Beyond(base, Insns \o b)
      BY <1>2, <1>5 DEF Here
    <3>2. Insns \in Seq(Fetched) /\ b \in Seq(Fetched) /\ base \in InContext
      BY <1>3, <1>4
    <3>3. Beyond(base, Insns \o b) = Beyond(Beyond(base, Insns), b)
      BY <3>2, BeyondIs
    <3> QED
      BY <3>1, <3>3 DEF Here
  <2> QED
    BY <1>2, <1>3, <2>1, <2>2 DEF IInv, HistoryExact
<1>11. BundleContext'
  BY <1>9 DEF BundleContext
<1>12. Bundling'
  <2>1. \A k \in 1 .. Len(window') : window'[k].resolved => IsBranch(window'[k].insn)
    <3> SUFFICES ASSUME NEW k \in 1 .. n + Len(b), window'[k].resolved PROVE IsBranch(window'[k].insn)
      BY <1>5
    <3>1. CASE k \in 1 .. n
      BY <1>5, <3>1 DEF IInv, Bundling
    <3>2. CASE \E j \in 1 .. Len(b) : k = n + j
      BY <1>5, <1>8, <3>2
    <3> QED
      BY <1>7, <3>1, <3>2
  <2>2. Len(fetch2'.insns) = 0 /\ \A k \in 1 .. 0 : FALSE
    BY <1>9
  <2>3. Behind(<<>>) = <<>>
    <3>1. <<>> \in Seq(Fetched) /\ Len(<<>>) = 0
      OBVIOUS
    <3>2. /\ Behind(<<>>) \in Seq(Fetched) /\ Kept(<<>>) \in Seq(Fetched)
          /\ Len(Kept(<<>>)) + Len(Behind(<<>>)) = 0
      BY <3>1, KeptIs
    <3>3. Len(Kept(<<>>)) \in Nat /\ Len(Behind(<<>>)) \in Nat
      BY <3>2
    <3>4. Len(Behind(<<>>)) = 0
      BY <3>2, <3>3
    <3> QED
      BY <3>2, <3>4
  <2> QED
    BY <1>9, <2>1, <2>2, <2>3 DEF Bundling
<1>13. FetchActiveExact'
  <2>1. ASSUME NEW k \in DOMAIN window', window'[k].insn.kind \in Stop
        PROVE  k = Len(window') /\ ~fetch_active' /\ ~fetch2'.valid
    <3>1. k \notin 1 .. n
      BY <1>3, <1>4, <1>5, <2>1
    <3>2. PICK j \in 1 .. Len(b) : k = n + j
      BY <1>6, <1>7, <2>1, <3>1
    <3>3. b[j].kind \in Stop
      BY <1>5, <1>8, <2>1, <3>2
    <3>4. j = Len(b) /\ Stops(b)
      BY <1>3, <3>2, <3>3 DEF Stops
    <3> QED
      BY <1>3, <1>5, <1>9, <3>2, <3>4
  <2>2. ~fetch_active' => Stops(Insns')
    <3>1. Stops(b) => Stops(Insns')
      <4> SUFFICES ASSUME NEW j \in 1 .. Len(b), b[j].kind \in Stop PROVE Stops(Insns')
        BY <1>3 DEF Stops
      <4>1. n + j \in DOMAIN window' /\ Insns'[n + j] = b[j]
        BY <1>4, <1>5, <1>6
      <4>2. DOMAIN Insns' = DOMAIN window'
        BY DEF Insns
      <4> QED
        BY <4>1, <4>2 DEF Stops
    <3>2. ~Stops(Insns)
      BY <1>3 DEF Stops, Insns
    <3> QED
      BY <1>3, <3>1, <3>2
  <2> QED
    BY <1>3, <2>1, <2>2 DEF FetchActiveExact
<1>14. QueueExact' /\ LogExact'
  BY AdvanceQueue, AdvanceLog
<1> QED
  BY <1>10, <1>11, <1>12, <1>13, <1>14 DEF Rest

LEMMA ResolveKeeps ==
  ASSUME IInv, TypeOK', NEW i \in DOMAIN window, Resolve(i)
  PROVE  Rest'
<1>1. /\ TypeOK /\ IsBranch(window[i].insn)
      /\ UNCHANGED <<fetch_active, bhr, ras, tos, fetch2, bq, log, ras_tail, dropped, base, program>>
  BY DEF Resolve, Unresolved, IInv
<1>2. /\ Len(window') = Len(window) /\ i \in 1 .. Len(window) /\ Insns' = Insns
      /\ \A k \in 1 .. Len(window) :
           /\ window'[k].insn = window[k].insn /\ window'[k].tag = window[k].tag
           /\ window'[k].phase = window[k].phase
           /\ window'[k].resolved => window[k].resolved \/ k = i
  BY <1>1, ResolveIs
<1>3. DOMAIN window' = DOMAIN window /\ DOMAIN window = 1 .. Len(window)
  <2>1. window' \in Seq(InFlight) /\ window \in Seq(InFlight)
    BY <1>1 DEF TypeOK
  <2> QED
    BY <1>2, <2>1, WindowType
<1>4. QueueExact'
  <2>1. QueueOf(window, Insns, bq_head, bq_head_phase, bq_tail, bq_tail_phase) /\ ras_tail = bq_tail
    BY <1>1, QueueForm DEF IInv
  <2>2. QueueOf(window', Insns, bq_head, bq_head_phase, bq_tail, bq_tail_phase)
    BY <1>2, <2>1, Zenon DEF QueueOf
  <2> QED
    BY <1>1, <1>2, <2>1, <2>2, QueueForm DEF bq
<1>5. LogExact'
  <2>1. LogOf(window, Contexts(base, Insns), log)
    BY <1>1, LogForm DEF IInv
  <2>2. LogOf(window', Contexts(base, Insns), log)
    BY <1>2, <2>1 DEF LogOf
  <2> QED
    BY <1>1, <1>2, <2>2, LogForm
<1>6. HistoryExact'
  <2>1. Path' = Path
    BY <1>1, <1>2 DEF Path
  <2> QED
    BY <1>1, <2>1 DEF IInv, HistoryExact
<1>7. BundleContext'
  BY <1>1, <1>2 DEF IInv, BundleContext
<1>8. Bundling'
  <2>1. \A k \in 1 .. Len(window') : window'[k].resolved => IsBranch(window'[k].insn)
    BY <1>1, <1>2 DEF IInv, Bundling
  <2> QED
    BY <1>1, <2>1 DEF IInv, Bundling
<1>9. FetchActiveExact'
  BY <1>1, <1>2, <1>3 DEF IInv, FetchActiveExact
<1> QED
  BY <1>4, <1>5, <1>6, <1>7, <1>8, <1>9 DEF Rest

(* rollback(): what is left is the path up to the branch, the other way.   *)
LEMMA MispredictKeeps ==
  ASSUME IInv, TypeOK', NEW i \in DOMAIN window, Mispredict(i)
  PROVE  Rest'
<1> DEFINE x == window[i].insn
           T == window[i].tag
           r == IF IsCond(x) THEN ~x.taken ELSE x.taken
           c == Contexts(base, Insns)[i - 1]
           h == bq_head
           hp == bq_head_phase
<1>1. /\ TypeOK /\ IsBranch(x)
      /\ bq_tail' = Succ(T) /\ bq_tail_phase' = Phase(T, window[i].phase) /\ ras_tail' = Succ(T)
      /\ log' = [log EXCEPT ![T].taken = r]
      /\ bhr' = (IF IsCond(log[T]) THEN update_bhr(log[T].precise, r) ELSE log[T].precise)
      /\ log[T].kind = "call" => tos' = Up(log[T].tos)
      /\ log[T].kind = "return" => tos' = Down(log[T].tos)
      /\ log[T].kind \notin {"call", "return"} => tos' = log[T].tos
      /\ fetch_active' = TRUE /\ fetch2' = NoBundle /\ dropped' = <<>>
      /\ UNCHANGED <<bq_head, bq_head_phase, base, program>>
  BY DEF Mispredict, Unresolved, IInv
<1>2. /\ window' \in Seq(InFlight) /\ Len(window') = i /\ i \in 1 .. Len(window)
      /\ Insns' \in Seq(Fetched) /\ Len(Insns') = i /\ DOMAIN window' = 1 .. i
      /\ \A k \in 1 .. i : Insns'[k] = window'[k].insn
      /\ \A k \in 1 .. i - 1 : window'[k] = window[k] /\ Insns'[k] = Insns[k]
      /\ window'[i].tag = T /\ window'[i].phase = window[i].phase
      /\ Insns'[i] = [x EXCEPT !.taken = r]
  BY <1>1, MispredictIs
<1>3. /\ Len(window) \in Nat /\ DOMAIN window = 1 .. Len(window) /\ Insns \in Seq(Fetched)
      /\ Len(Insns) = Len(window) /\ Len(window) <= BqSize /\ BqSize \in Nat \ {0}
      /\ \A k \in 1 .. Len(window) : window[k] \in InFlight /\ Insns[k] = window[k].insn
      /\ Codes(Insns) /\ base \in InContext
  <2>1. Len(window) <= WindowSize
    BY <1>1 DEF TypeOK
  <2> QED
    BY <1>1, <2>1, InsnsType, Sizes
<1>4. /\ x \in Fetched /\ T \in Slot /\ Codes(Insns') /\ i - 1 \in Nat /\ i \in Nat
      /\ Insns'[i].kind = x.kind /\ Insns'[i].bhr = x.bhr /\ Insns'[i].slot = x.slot
      /\ IsBranch(Insns'[i])
  <2>1. x \in Fetched /\ T \in Slot
    BY <1>2, <1>3 DEF InFlight
  <2>2. Insns'[i].kind = x.kind /\ Insns'[i].bhr = x.bhr /\ Insns'[i].slot = x.slot
    <3> HIDE DEF r, x
    <3> QED
      BY <1>2, <2>1 DEF Fetched
  <2> QED
    BY <1>1, <1>2, <1>3, <2>1, <2>2, FetchedCodes DEF IsBranch
<1>5. Insns'[i].taken = r
  <2> HIDE DEF r, x
  <2> QED
    BY <1>2, <1>4, Zenon DEF Fetched
<1>6. /\ QueueOf(window, Insns, h, hp, bq_tail, bq_tail_phase)
      /\ h \in Slot /\ hp \in BOOLEAN
      /\ Recorded(x, log[T], c)
  <2>1. QueueOf(window, Insns, h, hp, bq_tail, bq_tail_phase)
    BY <1>1, QueueForm DEF IInv
  <2>2. h \in Slot /\ hp \in BOOLEAN
    BY <1>1 DEF TypeOK
  <2>3. LogOf(window, Contexts(base, Insns), log)
    BY <1>1, LogForm DEF IInv
  <2> QED
    BY <1>1, <1>2, <2>1, <2>2, <2>3 DEF LogOf
<1>7. \A k \in 1 .. i : k - 1 \in Nat /\ k \in 1 .. Len(window) /\ (k = i \/ k \in 1 .. i - 1)
                      /\ Branches(Insns', k - 1) = Branches(Insns, k - 1)
  <2> SUFFICES ASSUME NEW k \in 1 .. i
               PROVE  k - 1 \in Nat /\ k \in 1 .. Len(window) /\ (k = i \/ k \in 1 .. i - 1)
                      /\ Branches(Insns', k - 1) = Branches(Insns, k - 1)
    OBVIOUS
  <2>1. k - 1 \in Nat /\ k \in 1 .. Len(window) /\ (k = i \/ k \in 1 .. i - 1) /\ \A j \in 1 .. k - 1 : j \in 1 .. i - 1
    BY <1>2, <1>3
  <2>2. \A j \in 1 .. k - 1 : Insns'[j] = Insns[j]
    BY <1>2, <2>1
  <2> QED
    BY <2>1, <2>2, BranchesAgree
<1>8. QueueExact'
  <2> DEFINE m == Branches(Insns, i - 1)
  <2>1. Place(T, window[i].phase, m, h, hp)
    BY <1>1, <1>2, <1>6 DEF QueueOf
  <2>2. m \in 0 .. BqSize - 1
    <3>1. m \in 0 .. i - 1
      BY <1>4, BranchesIs
    <3> QED
      BY <1>2, <1>3, <3>1
  <2>3. Branches(Insns', i) = m + 1
    <3>1. PICK j \in Nat : j = i - 1 /\ j + 1 = i
      BY <1>4
    <3>2. Branches(Insns', j + 1) = Branches(Insns', j) + (IF IsBranch(Insns'[j + 1]) THEN 1 ELSE 0)
      BY BranchesIs
    <3>3. Branches(Insns', j) = m
      BY <1>2, <1>7, <3>1
    <3> QED
      BY <1>4, <2>2, <3>1, <3>2, <3>3
  <2>4. PICK l : l = m + 1
    OBVIOUS
  <2>5. Place(Succ(T), Phase(T, window[i].phase), l, h, hp)
    <3> HIDE DEF m, T, h, hp
    <3> QED
      BY <1>6, <2>1, <2>2, <2>4, PlaceSucc
  <2>6. ASSUME NEW k \in 1 .. i, IsBranch(window'[k].insn)
        PROVE  Place(window'[k].tag, window'[k].phase, Branches(Insns', k - 1), h, hp)
    <3>1. CASE k = i
      BY <1>2, <1>7, <2>1, <3>1
    <3>2. CASE k \in 1 .. i - 1
      BY <1>2, <1>6, <1>7, <2>6, <3>2 DEF QueueOf
    <3> QED
      BY <1>7, <3>1, <3>2
  <2>7. QueueOf(window', Insns', bq_head', bq_head_phase', bq_tail', bq_tail_phase')
    BY <1>1, <1>2, <2>3, <2>4, <2>5, <2>6 DEF QueueOf
  <2> QED
    BY <1>1, <2>7, QueueForm
<1>9. /\ c \in InContext /\ Contexts(base', Insns')[i - 1] = c
      /\ \A k \in 1 .. i : Contexts(base', Insns')[k - 1] = Contexts(base, Insns)[k - 1]
  <2>1. i - 1 <= Len(Insns) /\ i - 1 <= Len(Insns') /\ i - 1 \in 0 .. Len(Insns)
    BY <1>2, <1>3
  <2>2. \A k \in 0 .. i - 1 : Contexts(base, Insns')[k] = Contexts(base, Insns)[k]
    BY <1>2, <1>3, <1>4, <2>1, ContextsAgree
  <2>3. \A k \in 1 .. i : k - 1 \in 0 .. i - 1
    BY <1>2
  <2>4. i \in 1 .. i
    BY <1>2
  <2>5. Contexts(base, Insns) \in [0 .. Len(Insns) -> InContext]
    BY <1>3, ContextsIs
  <2> QED
    BY <1>1, <2>1, <2>2, <2>3, <2>4, <2>5
<1>10. HistoryExact'
  <2>1. Path' = Contexts(base', Insns')[i]
    <3>1. /\ (dropped = <<>> => Path = Beyond(Here, fetch2.insns))'
          /\ (fetch2.insns = <<>> => Beyond(Here, fetch2.insns) = Here)'
      BY PathPrimed
    <3>2. fetch2'.insns = <<>>
      BY <1>1, EmptyType
    <3> QED
      BY <1>1, <1>2, <3>1, <3>2 DEF Here, Beyond
  <2>2. Contexts(base', Insns')[i] = After(c, Insns'[i])
    <3>1. i \in 1 .. Len(Insns')
      BY <1>2
    <3>2. Contexts(base, Insns')[i] = After(Contexts(base, Insns')[i - 1], Insns'[i])
      BY <1>3, <1>4, <3>1, ContextsIs
    <3> QED
      BY <1>1, <1>9, <3>2
  <2>3. log[T].kind = x.kind /\ log[T].precise = c.bhr /\ log[T].tos = c.tos
    BY <1>6 DEF Recorded
  <2> DEFINE y == Insns'[i]
  <2>4. y.kind = x.kind
    BY <1>4
  <2> HIDE DEF y, c, r, T, x
  <2>5. /\ IsCond(y) => After(c, y).bhr = update_bhr(c.bhr, y.taken)
        /\ ~IsCond(y) => After(c, y).bhr = c.bhr
        /\ y.kind = "call" => After(c, y).tos = Up(c.tos)
        /\ y.kind = "return" => After(c, y).tos = Down(c.tos)
        /\ y.kind \notin {"call", "return"} => After(c, y).tos = c.tos
    BY <1>9, AfterIs
  <2>6. tos' = After(c, y).tos
    BY <1>1, <2>3, <2>4, <2>5
  <2>7. update_bhr(c.bhr, y.taken) = update_bhr(c.bhr, r)
    BY <1>5 DEF y
  <2>8. bhr' = After(c, y).bhr
    BY <1>1, <2>3, <2>4, <2>5, <2>7 DEF IsCond
  <2>9. Path' = After(c, y)
    BY <2>1, <2>2 DEF y
  <2> QED
    BY <2>6, <2>8, <2>9 DEF HistoryExact
<1>11. LogExact'
  <2> DEFINE e == [log[T] EXCEPT !.taken = r]
  <2>1. log[T] \in Logged /\ log \in [Slot -> Logged]
    BY <1>1, <1>4 DEF TypeOK
  <2>2. log' = [log EXCEPT ![T] = e]
    BY <1>1, <1>4, <2>1
  <2>3. Recorded(Insns'[i], e, c)
    <3> HIDE DEF r, x, T, c
    <3>1. /\ e.kind = log[T].kind /\ e.precise = log[T].precise /\ e.tos = log[T].tos
          /\ e.fetch = log[T].fetch /\ e.cb = log[T].cb
      BY <2>1 DEF Logged
    <3>2. e.taken = r
      BY <2>1, Zenon DEF Logged
    <3> HIDE DEF e
    <3>3. /\ e.kind = Insns'[i].kind /\ e.precise = c.bhr /\ e.tos = c.tos /\ e.fetch = Insns'[i].bhr
          /\ IsCond(e) => e.cb = Insns'[i].slot
      BY <1>4, <1>6, <3>1 DEF Recorded, IsCond
    <3>4. e.taken = Insns'[i].taken
      BY <1>5, <3>2, Zenon
    <3> QED
      BY <3>3, <3>4, Zenon DEF Recorded
  <2>4. ASSUME NEW k \in 1 .. i, IsBranch(window'[k].insn)
        PROVE  Recorded(window'[k].insn, log'[window'[k].tag], Contexts(base', Insns')[k - 1])
    <3>1. CASE k = i
      <4>1. window'[i].insn = Insns'[i] /\ window'[i].tag = T /\ log'[T] = e
        <5> HIDE DEF e
        <5> QED
          BY <1>2, <1>4, <2>1, <2>2, <2>4, <3>1
      <4> QED
        BY <1>9, <2>3, <3>1, <4>1
    <3>2. CASE k \in 1 .. i - 1
      <4>1. window'[k] = window[k] /\ k \in 1 .. Len(window) /\ k # i
        BY <1>2, <1>4, <1>7, <3>2
      <4>2. IsBranch(window[k].insn)
        BY <2>4, <4>1
      <4>3. window[k].tag # T
        <5> SUFFICES ASSUME window[k].tag = window[i].tag PROVE FALSE
          OBVIOUS
        <5>1. \A j \in 1 .. Len(window) : Insns[j] = window[j].insn
          BY <1>3
        <5>2. IsBranch(window[i].insn)
          BY <1>1
        <5>3. PICK t, tp : t = bq_tail /\ tp = bq_tail_phase
          OBVIOUS
        <5>4. QueueOf(window, Insns, h, hp, t, tp) /\ h \in Slot /\ hp \in BOOLEAN /\ i \in 1 .. Len(window)
              /\ Len(window) \in Nat /\ Len(window) <= BqSize
          BY <1>2, <1>3, <1>6, <5>3
        <5> HIDE DEF h, hp, T, x, c, r
        <5>5. k = i
          BY <4>1, <4>2, <5>1, <5>2, <5>4, TagsApart
        <5> QED
          BY <4>1, <5>5
      <4>4. window[k].tag \in Slot
        BY <1>3, <4>1 DEF InFlight
      <4>5. log'[window[k].tag] = log[window[k].tag]
        <5> HIDE DEF e
        <5> QED
          BY <2>1, <2>2, <4>3, <4>4
      <4>6. Recorded(window[k].insn, log[window[k].tag], Contexts(base, Insns)[k - 1])
        <5>1. LogOf(window, Contexts(base, Insns), log)
          BY <1>1, LogForm DEF IInv
        <5> QED
          BY <4>1, <4>2, <5>1 DEF LogOf
      <4> QED
        BY <1>9, <4>1, <4>5, <4>6
    <3> QED
      BY <1>7, <3>1, <3>2
  <2>5. LogOf(window', Contexts(base', Insns'), log')
    BY <1>2, <2>4 DEF LogOf
  <2> QED
    BY <2>5, LogForm
<1>12. fetch2'.insns = <<>> /\ ~fetch2'.valid
  BY <1>1, EmptyType
<1>13. BundleContext'
  BY <1>12 DEF BundleContext
<1>14. Bundling'
  <2>1. \A k \in 1 .. Len(window') : window'[k].resolved => IsBranch(window'[k].insn)
    <3> SUFFICES ASSUME NEW k \in 1 .. i, window'[k].resolved PROVE IsBranch(window'[k].insn)
      BY <1>2
    <3>1. CASE k = i
      BY <1>2, <1>4, <3>1
    <3>2. CASE k \in 1 .. i - 1
      BY <1>2, <1>7, <3>2 DEF IInv, Bundling
    <3> QED
      BY <1>7, <3>1, <3>2
  <2>2. Len(fetch2'.insns) = 0 /\ \A k \in 1 .. 0 : FALSE
    BY <1>12
  <2> QED
    BY <1>1, <1>12, <2>1, <2>2 DEF Bundling
<1>15. FetchActiveExact'
  <2>1. ASSUME NEW k \in 1 .. i, window'[k].insn.kind \in Stop PROVE FALSE
    <3>1. CASE k = i
      BY <1>2, <1>4, <2>1, <3>1 DEF IsBranch, Branch, Stop
    <3>2. CASE k \in 1 .. i - 1
      <4>1. window'[k] = window[k] /\ k \in DOMAIN window
        BY <1>2, <1>3, <1>7, <3>2
      <4>2. k = Len(window)
        BY <2>1, <4>1 DEF IInv, FetchActiveExact
      <4> QED
        BY <1>2, <1>3, <3>2, <4>2
    <3> QED
      BY <1>7, <3>1, <3>2
  <2> QED
    BY <1>1, <1>2, <2>1 DEF FetchActiveExact
<1> QED
  BY <1>8, <1>10, <1>11, <1>13, <1>14, <1>15 DEF Rest

(* pop(): everybody is one nearer to the head.                             *)
LEMMA CommitKeeps ==
  ASSUME IInv, TypeOK', Commit
  PROVE  Rest'
<1> DEFINE n == Len(window')
           h == bq_head
           hp == bq_head_phase
<1>1. /\ TypeOK /\ bq_head' = Succ(h) /\ bq_head_phase' = Phase(h, hp)
      /\ UNCHANGED <<fetch_active, bhr, ras, tos, fetch2, bq_tail, bq_tail_phase,
                     log, ras_tail, dropped, program>>
  BY DEF Commit, IInv
<1>2. /\ Len(window) = n + 1 /\ n \in Nat /\ window[1].resolved /\ base' = After(base, Insns[1])
      /\ Insns' \in Seq(Fetched) /\ Len(Insns') = n
      /\ \A k \in 1 .. n : window'[k] = window[k + 1] /\ Insns'[k] = Insns[k + 1]
  BY <1>1, CommitIs
<1>3. /\ DOMAIN window = 1 .. Len(window) /\ Insns \in Seq(Fetched)
      /\ Len(Insns) = Len(window) /\ Len(window) <= BqSize /\ BqSize \in Nat \ {0}
      /\ \A k \in 1 .. Len(window) : window[k] \in InFlight /\ Insns[k] = window[k].insn
      /\ Codes(Insns) /\ base \in InContext
  <2>1. Len(window) <= WindowSize
    BY <1>1 DEF TypeOK
  <2> QED
    BY <1>1, <1>2, <2>1, InsnsType, Sizes
<1>4. IsBranch(Insns[1]) /\ Codes(Insns')
  <2>1. 1 \in 1 .. Len(window)
    BY <1>2
  <2>2. IsBranch(window[1].insn)
    BY <1>2, <2>1 DEF IInv, Bundling
  <2> QED
    BY <1>2, <1>3, <2>1, <2>2, FetchedCodes
<1>5. DOMAIN window' = 1 .. n
  <2>1. window' \in Seq(InFlight)
    BY DEF TypeOK
  <2> QED
    BY <2>1, WindowType
<1>6. h \in Slot /\ hp \in BOOLEAN /\ QueueOf(window, Insns, h, hp, bq_tail, bq_tail_phase) /\ ras_tail = bq_tail
  BY <1>1, QueueForm DEF IInv, TypeOK
<1>7. \A k \in 0 .. n : /\ Branches(Insns', k) = Branches(Insns, k + 1) - 1
                        /\ Branches(Insns, k + 1) \in 1 .. BqSize
  <2> SUFFICES ASSUME NEW k \in 0 .. n
               PROVE  Branches(Insns', k) = Branches(Insns, k + 1) - 1 /\ Branches(Insns, k + 1) \in 1 .. BqSize
    OBVIOUS
  <2>1. k \in Nat /\ k + 1 \in Nat /\ 1 \in Nat /\ 0 \in Nat /\ 1 <= k + 1 /\ \A j \in 1 .. k : Insns'[j] = Insns[j + 1]
    <3>1. k \in Nat /\ \A j \in 1 .. k : j \in 1 .. n
      BY <1>2
    <3> QED
      BY <1>2, <3>1
  <2>2. Branches(Insns', k) = Branches(Insns, k + 1) - 1
    BY <1>4, <2>1, BranchesShift
  <2>3. Branches(Insns, 1) = 1
    <3>1. Branches(Insns, 0 + 1) = Branches(Insns, 0) + (IF IsBranch(Insns[0 + 1]) THEN 1 ELSE 0) /\ Branches(Insns, 0) = 0
      BY <2>1, BranchesIs
    <3> QED
      BY <1>4, <3>1
  <2>4. Branches(Insns, 1) <= Branches(Insns, k + 1)
    BY <2>1, BranchesMono
  <2>5. Branches(Insns, k + 1) \in 0 .. k + 1
    BY <2>1, BranchesIs
  <2>6. k + 1 <= BqSize
    BY <1>2, <1>3
  <2> QED
    BY <1>3, <2>1, <2>2, <2>3, <2>4, <2>5, <2>6
<1>8. ASSUME NEW i, NEW ph, NEW k \in 0 .. n, Place(i, ph, Branches(Insns, k + 1), h, hp)
      PROVE  Place(i, ph, Branches(Insns', k), bq_head', bq_head_phase')
  <2>1. PICK m \in 1 .. BqSize : m = Branches(Insns, k + 1)
    BY <1>7
  <2>2. PICK l : l = m - 1 /\ l = Branches(Insns', k)
    BY <1>7, <2>1
  <2> HIDE DEF n, h, hp
  <2>3. Place(i, ph, m, h, hp)
    BY <1>8, <2>1
  <2>4. Place(i, ph, l, Succ(h), Phase(h, hp))
    BY <1>6, <2>2, <2>3, PlaceHead
  <2> QED
    BY <1>1, <2>2, <2>4
<1>9. QueueExact'
  <2>1. ASSUME NEW k \in 1 .. n, IsBranch(window'[k].insn)
        PROVE  Place(window'[k].tag, window'[k].phase, Branches(Insns', k - 1), bq_head', bq_head_phase')
    <3>1. /\ window'[k] = window[k + 1] /\ k + 1 \in 1 .. Len(window) /\ (k + 1) - 1 = (k - 1) + 1
          /\ k - 1 \in 0 .. n
      BY <1>2
    <3>2. Place(window'[k].tag, window'[k].phase, Branches(Insns, (k + 1) - 1), h, hp)
      BY <1>6, <2>1, <3>1 DEF QueueOf
    <3>3. Place(window'[k].tag, window'[k].phase, Branches(Insns, (k - 1) + 1), h, hp)
      BY <3>1, <3>2
    <3> QED
      BY <1>8, <3>1, <3>3
  <2>2. Place(bq_tail', bq_tail_phase', Branches(Insns', n), bq_head', bq_head_phase')
    <3>1. Place(bq_tail, bq_tail_phase, Branches(Insns, n + 1), h, hp)
      BY <1>2, <1>6 DEF QueueOf
    <3>2. n \in 0 .. n
      BY <1>2
    <3> QED
      BY <1>1, <1>8, <3>1, <3>2
  <2>3. QueueOf(window', Insns', bq_head', bq_head_phase', bq_tail', bq_tail_phase')
    BY <2>1, <2>2 DEF QueueOf
  <2> QED
    BY <1>1, <1>6, <2>3, QueueForm
<1>10. \A k \in 0 .. n : Contexts(base', Insns')[k] = Contexts(base, Insns)[k + 1]
  <2>1. Len(Insns) = Len(Insns') + 1 /\ \A k \in 1 .. Len(Insns') : Insns'[k] = Insns[k + 1]
    BY <1>2, <1>3
  <2>2. \A k \in 0 .. Len(Insns') : Contexts(After(base, Insns[1]), Insns')[k] = Contexts(base, Insns)[k + 1]
    BY <1>3, <1>4, <2>1, ContextsTail
  <2> QED
    BY <1>2, <2>2
<1>11. Here' = Here
  <2>1. n \in 0 .. n /\ Len(Insns) = n + 1
    BY <1>2, <1>3
  <2> QED
    BY <1>2, <1>10, <2>1 DEF Here, Beyond
<1>12. HistoryExact'
  <2>1. Path = Beyond(Beyond(Here, fetch2.insns), dropped)
    BY <1>1, PathIs
  <2>2. (Path = Beyond(Beyond(Here, fetch2.insns), dropped))'
    BY PathPrimed
  <2>3. Path' = Path
    BY <1>1, <1>11, <2>1, <2>2
  <2> QED
    BY <1>1, <2>3 DEF IInv, HistoryExact
<1>13. LogExact'
  <2>1. ASSUME NEW k \in 1 .. n, IsBranch(window'[k].insn)
        PROVE  Recorded(window'[k].insn, log'[window'[k].tag], Contexts(base', Insns')[k - 1])
    <3>1. /\ window'[k] = window[k + 1] /\ k + 1 \in 1 .. Len(window) /\ (k + 1) - 1 = (k - 1) + 1
          /\ k - 1 \in 0 .. n
      BY <1>2
    <3>2. LogOf(window, Contexts(base, Insns), log)
      BY <1>1, LogForm DEF IInv
    <3>3. Recorded(window'[k].insn, log[window'[k].tag], Contexts(base, Insns)[(k + 1) - 1])
      BY <2>1, <3>1, <3>2 DEF LogOf
    <3>4. Contexts(base', Insns')[k - 1] = Contexts(base, Insns)[(k + 1) - 1]
      BY <1>10, <3>1
    <3> QED
      BY <1>1, <3>3, <3>4
  <2>2. LogOf(window', Contexts(base', Insns'), log')
    BY <2>1 DEF LogOf
  <2> QED
    BY <2>2, LogForm
<1>14. BundleContext'
  <2>1. Contexts(base', Insns')[Len(window')] = Contexts(base, Insns)[Len(window)]
    <3>1. n \in 0 .. n
      BY <1>2
    <3> QED
      BY <1>2, <1>10, <3>1
  <2> QED
    BY <1>1, <2>1 DEF IInv, BundleContext
<1>15. Bundling'
  <2>1. \A k \in 1 .. Len(window') : window'[k].resolved => IsBranch(window'[k].insn)
    <3> SUFFICES ASSUME NEW k \in 1 .. n, window'[k].resolved PROVE IsBranch(window'[k].insn)
      OBVIOUS
    <3>1. window'[k] = window[k + 1] /\ k + 1 \in 1 .. Len(window)
      BY <1>2
    <3> QED
      BY <3>1 DEF IInv, Bundling
  <2> QED
    BY <1>1, <2>1 DEF IInv, Bundling
<1>16. FetchActiveExact'
  <2>1. ASSUME NEW k \in 1 .. n, window'[k].insn.kind \in Stop
        PROVE  k = Len(window') /\ ~fetch_active' /\ ~fetch2'.valid
    <3>1. window'[k] = window[k + 1] /\ k + 1 \in DOMAIN window
      BY <1>2, <1>3
    <3>2. k + 1 = Len(window) /\ ~fetch_active /\ ~fetch2.valid
      BY <2>1, <3>1 DEF IInv, FetchActiveExact
    <3> QED
      BY <1>1, <1>2, <3>2
  <2>2. Stops(Insns) => Stops(Insns')
    <3> SUFFICES ASSUME NEW k \in 1 .. Len(window), Insns[k].kind \in Stop PROVE Stops(Insns')
      BY <1>3, FetchedCodes DEF Stops
    <3>1. k # 1
      BY <1>4 DEF IsBranch, Branch, Stop
    <3>2. k - 1 \in 1 .. n /\ (k - 1) + 1 = k
      BY <1>2, <3>1
    <3>3. Insns'[k - 1].kind \in Stop
      BY <1>2, <3>2
    <3>4. k - 1 \in DOMAIN Insns'
      BY <1>5, <3>2 DEF Insns
    <3> QED
      BY <3>3, <3>4 DEF Stops
  <2> QED
    BY <1>1, <1>5, <2>1, <2>2 DEF IInv, FetchActiveExact
<1> QED
  BY <1>9, <1>12, <1>13, <1>14, <1>15, <1>16 DEF Rest

(* A queue that is not empty starts with the oldest branch in flight.      *)
LEMMA OldestIs ==
  ASSUME IInv, ~BqEmpty
  PROVE  \E k \in 1 .. Len(window) : /\ IsBranch(window[k].insn) /\ window[k].tag = bq_head
                                     /\ \A j \in 1 .. k - 1 : ~IsBranch(window[j].insn)
<1> DEFINE n == Len(window)
           S == {k \in 1 .. n : IsBranch(Insns[k])}
<1>1. /\ TypeOK /\ n \in Nat /\ Len(Insns) = n /\ Codes(Insns) /\ base \in InContext
      /\ n <= BqSize /\ BqSize \in Nat \ {0}
      /\ \A k \in 1 .. n : Insns[k] = window[k].insn
  <2>1. TypeOK /\ n <= WindowSize
    BY DEF IInv, TypeOK
  <2> QED
    BY <2>1, InsnsType, Sizes
<1>2. /\ bq_head \in Slot /\ bq_head_phase \in BOOLEAN
      /\ QueueOf(window, Insns, bq_head, bq_head_phase, bq_tail, bq_tail_phase)
  BY <1>1, QueueForm DEF IInv, TypeOK
<1>3. S # {}
  <2> SUFFICES ASSUME S = {} PROVE FALSE
    OBVIOUS
  <2>1. Branches(Insns, n) = 0
    <3>1. Cardinality({}) = 0
      BY FS_EmptySet
    <3> QED
      BY <3>1 DEF Branches
  <2>2. Place(bq_tail, bq_tail_phase, 0, bq_head, bq_head_phase)
    BY <1>2, <2>1 DEF QueueOf
  <2>3. ~(bq_head + 0 >= BqSize) /\ (bq_head + 0) % BqSize = bq_head
    <3>1. bq_head \in 0 .. BqSize - 1 /\ BqSize \in Nat \ {0} /\ 0 \in 0 .. BqSize
      BY <1>1, <1>2, Sizes
    <3>2. (bq_head + 0) % BqSize = IF bq_head + 0 < BqSize THEN bq_head + 0 ELSE bq_head + 0 - BqSize
      BY <3>1, Forward
    <3> QED
      BY <3>1, <3>2
  <2>4. bq_tail = bq_head /\ bq_tail_phase = bq_head_phase
    BY <2>2, <2>3, Zenon DEF Place
  <2> QED
    BY <2>4, Zenon DEF BqEmpty
<1>4. PICK k \in S : \A j \in S : k <= j
  <2>1. IsFiniteSet(1 .. n) /\ S \in SUBSET Int
    BY <1>1, FS_Interval
  <2>2. IsFiniteSet(S)
    BY <2>1, FS_Subset
  <2> HIDE DEF S
  <2> QED
    BY <1>3, <2>1, <2>2, LeastExists
<1>5. /\ k \in 1 .. n /\ IsBranch(Insns[k]) /\ k - 1 \in Nat /\ k - 1 <= n /\ k - 1 \in 0 .. k - 1
      /\ \A j \in 1 .. k - 1 : ~IsBranch(Insns[j])
  <2>1. \A j \in 1 .. k - 1 : j \in 1 .. n /\ ~(k <= j)
    BY <1>1
  <2> QED
    BY <1>1, <1>4, <2>1
<1> HIDE DEF S
<1>6. Branches(Insns, k - 1) = 0
  <2>1. {j \in 1 .. k - 1 : IsBranch(Insns[j])} = {}
    BY <1>5
  <2>2. Cardinality({}) = 0
    BY FS_EmptySet
  <2> QED
    BY <2>1, <2>2 DEF Branches
<1>7. window[k].tag = bq_head
  <2>1. Place(window[k].tag, window[k].phase, 0, bq_head, bq_head_phase)
    BY <1>1, <1>2, <1>5, <1>6 DEF QueueOf
  <2> QED
    BY <1>1, <1>2, <2>1, Sizes DEF Place
<1> QED
  BY <1>1, <1>5, <1>7

(* flush(): the oldest branch's entry holds the context in front of the    *)
(* window, since nothing in front of it changes a context.                 *)
LEMMA OldestBranch ==
  ASSUME IInv, ~BqEmpty
  PROVE  log[bq_head].precise = base.bhr /\ log[bq_head].tos = base.tos
<1>1. TypeOK /\ LogOf(window, Contexts(base, Insns), log)
  BY LogForm DEF IInv
<1>2. /\ Len(window) \in Nat /\ Len(Insns) = Len(window) /\ Codes(Insns) /\ base \in InContext
      /\ \A j \in 1 .. Len(window) : Insns[j] = window[j].insn
  BY <1>1, InsnsType
<1>3. PICK k \in 1 .. Len(window) : /\ IsBranch(window[k].insn) /\ window[k].tag = bq_head
                                  /\ \A j \in 1 .. k - 1 : ~IsBranch(window[j].insn)
  BY OldestIs
<1>4. k - 1 \in Nat /\ k - 1 <= Len(Insns) /\ k - 1 \in 0 .. k - 1 /\ \A j \in 1 .. k - 1 : ~IsBranch(Insns[j])
  BY <1>2, <1>3
<1>5. Contexts(base, Insns)[k - 1] = base
  BY <1>2, <1>4, ContextStays
<1> QED
  BY <1>1, <1>3, <1>5 DEF LogOf, Recorded

LEMMA FlushKeeps ==
  ASSUME IInv, TypeOK', Flush
  PROVE  Rest'
<1>1. /\ TypeOK /\ fetch_active' = TRUE /\ fetch2' = NoBundle /\ window' = <<>> /\ dropped' = <<>>
      /\ bq_head' = bq_head /\ bq_head_phase' = bq_head_phase
  BY Zenon DEF Flush, IInv, bq
<1>2. /\ fetch2'.insns = <<>> /\ ~fetch2'.valid /\ Len(window') = 0 /\ DOMAIN window' = {}
      /\ \A k \in 1 .. 0 : FALSE
  <2>1. fetch2'.insns = <<>> /\ ~fetch2'.valid
    BY <1>1, EmptyType
  <2> QED
    BY <1>1, <2>1
<1>3. Insns' = <<>> /\ Len(Insns') = 0
  <2>1. Insns' = [k \in DOMAIN window' |-> window'[k].insn]
    BY DEF Insns
  <2> QED
    BY <1>1, <2>1
<1>4. Path' = base'
  <2>1. /\ (dropped = <<>> => Path = Beyond(Here, fetch2.insns))'
        /\ (fetch2.insns = <<>> => Beyond(Here, fetch2.insns) = Here)'
    BY PathPrimed
  <2>2. Here' = Beyond(base', <<>>)
    BY <1>3 DEF Here
  <2>3. base' \in InContext /\ <<>> \in Seq(Fetched)
    BY DEF TypeOK, InContext
  <2>4. Beyond(base', <<>>) = base'
    BY <2>3, BeyondIs
  <2> QED
    BY <1>1, <1>2, <2>1, <2>2, <2>4
<1>5. bq_head \in Slot /\ bq_head_phase \in BOOLEAN /\ BqSize \in Nat \ {0}
  BY <1>1, Sizes DEF TypeOK
<1>6. Branches(Insns', 0) = 0 /\ 0 \in 0 .. BqSize
  BY <1>5, BranchesIs
<1>7. bq_tail' = bq_head /\ bq_tail_phase' = bq_head_phase /\ ras_tail' = bq_head
      /\ bhr' = base'.bhr /\ tos' = base'.tos
  <2>1. CASE BqEmpty
    <3>1. bq_tail = bq_head /\ bq_tail_phase = bq_head_phase
      BY <2>1, Zenon DEF BqEmpty
    <3>2. /\ bq_tail' = bq_tail /\ bq_tail_phase' = bq_tail_phase /\ bhr' = bhr /\ tos' = tos
          /\ ras_tail' = ras_tail /\ base' = Path
      BY <2>1, Zenon DEF Flush, bq
    <3>3. ras_tail = bq_tail /\ bhr = Path.bhr /\ tos = Path.tos
      BY DEF IInv, QueueExact, HistoryExact
    <3>4. bq_tail_phase' = bq_head_phase
      BY <3>1, <3>2, Zenon
    <3>5. bq_tail' = bq_head /\ ras_tail' = bq_head /\ bhr' = base'.bhr /\ tos' = base'.tos
      BY <3>1, <3>2, <3>3
    <3> QED
      BY <3>4, <3>5
  <2>2. CASE ~BqEmpty
    <3>1. /\ bq_tail' = bq_head /\ bq_tail_phase' = bq_head_phase /\ ras_tail' = bq_head
          /\ bhr' = log[bq_head].precise /\ tos' = log[bq_head].tos /\ base' = base
      BY <2>2, Zenon DEF Flush
    <3> QED
      BY <2>2, <3>1, OldestBranch
  <2> QED
    BY <2>1, <2>2
<1>8. QueueExact'
  <2>1. Place(bq_head, bq_head_phase, 0, bq_head, bq_head_phase)
    BY <1>5, <1>6, PlaceZero
  <2>2. Place(bq_tail', bq_tail_phase', 0, bq_head', bq_head_phase')
    BY <1>1, <1>7, <2>1
  <2>3. QueueOf(window', Insns', bq_head', bq_head_phase', bq_tail', bq_tail_phase')
    BY <1>2, <1>6, <2>2 DEF QueueOf
  <2> QED
    BY <1>7, <2>3, QueueForm
<1>9. LogExact'
  BY <1>2 DEF LogExact
<1>10. HistoryExact'
  BY <1>4, <1>7 DEF HistoryExact
<1>11. BundleContext'
  BY <1>2 DEF BundleContext
<1>12. Bundling'
  <2>1. Len(fetch2'.insns) = 0
    BY <1>2
  <2> QED
    BY <1>1, <1>2, <2>1 DEF Bundling
<1>13. FetchActiveExact'
  BY <1>1, <1>2 DEF FetchActiveExact
<1> QED
  BY <1>8, <1>9, <1>10, <1>11, <1>12, <1>13 DEF Rest

(* The initial state: nothing is in flight.                                *)
LEMMA InitHolds ==
  ASSUME Init
  PROVE  IInv
<1>1. TypeOK
  BY InitType
<1>2. /\ fetch_active = TRUE /\ window = <<>> /\ dropped = <<>> /\ fetch2 = NoBundle
      /\ bq_head = 0 /\ bq_tail = 0 /\ ras_tail = 0
      /\ bhr = base.bhr /\ tos = base.tos
  BY DEF Init
<1>3. bq_head_phase = FALSE /\ bq_tail_phase = FALSE
  BY Zenon DEF Init
<1>4. fetch2.insns = <<>> /\ ~fetch2.valid /\ Len(fetch2.insns) = 0 /\ Len(window) = 0 /\ DOMAIN window = {}
  <2>1. fetch2.insns = <<>> /\ ~fetch2.valid
    BY <1>2, EmptyType
  <2> QED
    BY <1>2, <2>1
<1>5. Insns = <<>>
  <2>1. Insns = [k \in DOMAIN window |-> window[k].insn]
    BY DEF Insns
  <2> QED
    BY <1>4, <2>1
<1>6. Path = base
  <2>1. Path = Here
    BY <1>1, <1>2, <1>4, PathIs
  <2>2. base \in InContext /\ <<>> \in Seq(Fetched)
    BY <1>1 DEF TypeOK, InContext
  <2>3. Beyond(base, <<>>) = base
    BY <2>2, BeyondIs
  <2> QED
    BY <1>5, <2>1, <2>3 DEF Here
<1>7. QueueExact
  <2>1. 0 \in Slot /\ BqSize \in Nat \ {0} /\ 0 \in 0 .. BqSize /\ Branches(Insns, 0) = 0
    BY BranchesIs, Sizes
  <2>2. Place(0, FALSE, 0, 0, FALSE)
    BY <2>1, PlaceZero
  <2>3. Place(bq_tail, bq_tail_phase, 0, bq_head, bq_head_phase)
    BY <1>2, <1>3, <2>2, Zenon
  <2>4. \A k \in 1 .. 0 : FALSE
    OBVIOUS
  <2>5. QueueOf(window, Insns, bq_head, bq_head_phase, bq_tail, bq_tail_phase)
    BY <1>4, <2>1, <2>3, <2>4 DEF QueueOf
  <2> QED
    BY <1>1, <1>2, <2>5, QueueForm
<1>8. Bundling
  BY <1>2, <1>4 DEF Bundling
<1>9. FetchActiveExact
  BY <1>2, <1>4 DEF FetchActiveExact
<1>10. BundleContext
  BY <1>4 DEF BundleContext
<1>11. HistoryExact /\ LogExact
  BY <1>2, <1>4, <1>6 DEF HistoryExact, LogExact
<1> QED
  BY <1>1, <1>7, <1>8, <1>9, <1>10, <1>11 DEF IInv

(* Every step keeps the invariant.                                         *)
LEMMA StepKeeps ==
  ASSUME IInv, [Next]_vars
  PROVE  IInv'
<1>1. TypeOK'
  BY StepType DEF IInv
<1>2. Rest'
  <2>1. CASE Fetch1
    BY <1>1, <2>1, Fetch1Keeps
  <2>2. CASE Fetch2Misfetch
    BY <1>1, <2>2, MisfetchKeeps
  <2>3. CASE Fetch2Stall
    BY <1>1, <2>3, StallKeeps
  <2>4. CASE Fetch2Advance
    BY <1>1, <2>4, AdvanceKeeps
  <2>5. ASSUME NEW i \in DOMAIN window, Resolve(i)
        PROVE  Rest'
    BY <1>1, <2>5, ResolveKeeps
  <2>6. ASSUME NEW i \in DOMAIN window, Mispredict(i)
        PROVE  Rest'
    BY <1>1, <2>6, MispredictKeeps
  <2>7. CASE Commit
    BY <1>1, <2>7, CommitKeeps
  <2>8. CASE Flush
    BY <1>1, <2>8, FlushKeeps
  <2>9. CASE UNCHANGED vars
    <3>1. Insns' = Insns /\ SlotAt(0) = SlotAt(0)
      BY <2>9 DEF Insns, vars
    <3>2. Path' = Path
      BY <2>9, <3>1 DEF Path, vars
    <3>3. QueueExact' /\ Bundling' /\ FetchActiveExact' /\ BundleContext' /\ HistoryExact' /\ LogExact'
      BY <2>9, <3>1, <3>2, Zenon
      DEF IInv, vars, bq, QueueExact, StandsAt, SlotAt, Bundling, FetchActiveExact, BundleContext, HistoryExact, LogExact
    <3> QED
      BY <3>3 DEF Rest
  <2> QED
    BY <2>1, <2>2, <2>3, <2>4, <2>5, <2>6, <2>7, <2>8, <2>9 DEF Next
<1> QED
  BY <1>1, <1>2 DEF IInv, Rest

-----------------------------------------------------------------------------
(* The return address stack. A log entry keeps what stood at the top of    *)
(* the stack when its bundle was predicted. Undoing the entries of the     *)
(* branches behind a point of the window gives the stack as that point     *)
(* sees it: at each position, what the first of those branches to keep it  *)
(* has kept.                                                               *)
Saves(x, l, p) == IsBranch(x.insn) /\ l[x.tag].tos = p
Savers(w, l, j, p) == {i \in j + 1 .. Len(w) : Saves(w[i], l, p)}
Least(S) == CHOOSE i \in S : \A k \in S : i <= k
Held(w, l, r, j) ==
  [p \in Tos |-> IF Savers(w, l, j, p) = {} THEN r[p]
                 ELSE l[w[Least(Savers(w, l, j, p))].tag].content]

(* The k-th position below t, and what a context finds in the array: every *)
(* call that has not returned, each at its place.                          *)
Below(t, k) == (t + RasSize - k) % RasSize
Holds(f, c) ==
  /\ Len(c.stack) <= RasSize
  /\ \A k \in 0 .. Len(c.stack) - 1 : f[Below(c.tos, k)] = c.stack[Len(c.stack) - k]

(* What RasExact needs of the past: not only the path in front of FETCH1   *)
(* but each branch that may still mispredict finds its calls.              *)
Keeps(w, l, r, C) == \A j \in 0 .. Len(w) : Holds(Held(w, l, r, j), C[j])
RasKept ==
  /\ fetch2.valid => ras[fetch2.tos] = fetch2.content
  /\ Recovery = "walk" => Keeps(window, log, ras, Contexts(base, Insns)) /\ Holds(ras, Path)

(* Places on the circle of RasSize positions.                              *)
LEMMA BelowIs ==
  ASSUME NEW t \in Tos, NEW k \in 0 .. RasSize - 1
  PROVE  /\ Below(t, k) = (IF k <= t THEN t - k ELSE t - k + RasSize) /\ Below(t, k) \in Tos
         /\ Below(t, 0) = t
<1>1. RasSize \in Nat \ {0} /\ t \in 0 .. RasSize - 1 /\ Tos = 0 .. RasSize - 1
  BY Sizes
<1>2. \A l \in 0 .. RasSize - 1 : Below(t, l) = IF l <= t THEN t - l ELSE t - l + RasSize
  <2> SUFFICES ASSUME NEW l \in 0 .. RasSize - 1
               PROVE  Below(t, l) = IF l <= t THEN t - l ELSE t - l + RasSize
    OBVIOUS
  <2>1. RasSize - l \in 0 .. RasSize /\ t + (RasSize - l) = t + RasSize - l
    BY <1>1
  <2>2. (t + (RasSize - l)) % RasSize = IF t + (RasSize - l) < RasSize THEN t + (RasSize - l) ELSE t + (RasSize - l) - RasSize
    BY <1>1, <2>1, Forward
  <2> QED
    BY <1>1, <2>1, <2>2 DEF Below
<1> QED
  BY <1>1, <1>2

LEMMA UpDown ==
  ASSUME NEW t \in Tos
  PROVE  /\ Up(t) = (IF t + 1 < RasSize THEN t + 1 ELSE 0) /\ Up(t) \in Tos
         /\ Down(t) = (IF t >= 1 THEN t - 1 ELSE RasSize - 1) /\ Down(t) \in Tos
         /\ RasSize > 1 => Up(t) # t
<1>1. RasSize \in Nat \ {0} /\ t \in 0 .. RasSize - 1 /\ Tos = 0 .. RasSize - 1
  BY Sizes
<1>2. (t + 1) % RasSize = IF t + 1 < RasSize THEN t + 1 ELSE t + 1 - RasSize
  <2>1. 1 \in 0 .. RasSize
    BY <1>1
  <2> QED
    BY <1>1, <2>1, Forward
<1>3. RasSize - 1 \in 0 .. RasSize /\ t + (RasSize - 1) = t + RasSize - 1
  BY <1>1
<1>4. (t + (RasSize - 1)) % RasSize = IF t + (RasSize - 1) < RasSize THEN t + (RasSize - 1) ELSE t + (RasSize - 1) - RasSize
  BY <1>1, <1>3, Forward
<1>5. Up(t) = IF t + 1 < RasSize THEN t + 1 ELSE 0
  BY <1>1, <1>2 DEF Up
<1>6. Down(t) = IF t >= 1 THEN t - 1 ELSE RasSize - 1
  BY <1>1, <1>3, <1>4 DEF Down
<1> QED
  BY <1>1, <1>5, <1>6

(* A position keeps its place when the top moves.                          *)
LEMMA BelowMoves ==
  ASSUME NEW t \in Tos, NEW k \in 0 .. RasSize - 2
  PROVE  /\ Below(Up(t), k + 1) = Below(t, k)
         /\ Below(Down(t), k) = Below(t, k + 1)
         /\ Below(t, k) # Up(t)
<1>1. RasSize \in Nat \ {0} /\ t \in 0 .. RasSize - 1 /\ Tos = 0 .. RasSize - 1
      /\ k \in 0 .. RasSize - 1 /\ k + 1 \in 0 .. RasSize - 1
  BY Sizes
<1>2. /\ Up(t) = (IF t + 1 < RasSize THEN t + 1 ELSE 0) /\ Up(t) \in Tos
      /\ Down(t) = (IF t >= 1 THEN t - 1 ELSE RasSize - 1) /\ Down(t) \in Tos
  BY UpDown
<1>3. Below(t, k) = IF k <= t THEN t - k ELSE t - k + RasSize
  BY <1>1, BelowIs
<1>4. Below(t, k + 1) = IF k + 1 <= t THEN t - (k + 1) ELSE t - (k + 1) + RasSize
  BY <1>1, BelowIs
<1>5. Below(Up(t), k + 1) = IF k + 1 <= Up(t) THEN Up(t) - (k + 1) ELSE Up(t) - (k + 1) + RasSize
  BY <1>1, <1>2, BelowIs
<1>6. Below(Down(t), k) = IF k <= Down(t) THEN Down(t) - k ELSE Down(t) - k + RasSize
  BY <1>1, <1>2, BelowIs
<1> QED
  BY <1>1, <1>2, <1>3, <1>4, <1>5, <1>6

(* The array holds what a return, or an instruction that is neither call   *)
(* nor return, leaves of a context whose calls it holds.                   *)
LEMMA AfterHolds ==
  ASSUME NEW c \in InContext, NEW i, NEW f, Holds(f, c), i.kind # "call"
  PROVE  Holds(f, After(c, i))
<1>1. /\ c.tos \in Tos /\ c.stack \in Seq(RetAddr \cup {0}) /\ Len(c.stack) \in Nat
      /\ RasSize \in Nat \ {0}
  BY Sizes DEF InContext
<1>2. CASE i.kind # "return"
  <2>1. After(c, i).tos = c.tos /\ After(c, i).stack = c.stack
    BY <1>2, AfterIs
  <2> QED
    BY <2>1 DEF Holds
<1>3. CASE i.kind = "return"
  <2> DEFINE s == After(c, i).stack
             n == Len(c.stack)
  <2>1. After(c, i).tos = Down(c.tos) /\ s = IF c.stack = <<>> THEN c.stack ELSE Front(c.stack)
    BY <1>3 DEF After, InContext
  <2>2. CASE c.stack = <<>>
    <3>1. s = <<>> /\ Len(s) = 0
      BY <2>1, <2>2
    <3> QED
      BY <1>1, <3>1 DEF Holds
  <2>3. CASE c.stack # <<>>
    <3>1. n \in Nat \ {0}
      BY <1>1, <2>3
    <3>2. s = SubSeq(c.stack, 1, n - 1)
      BY <2>1, <2>3 DEF Front
    <3>3. Len(s) = n - 1 /\ \A j \in 1 .. n - 1 : s[j] = c.stack[j]
      BY <1>1, <3>1, <3>2
    <3> HIDE DEF s
    <3>4. ASSUME NEW k \in 0 .. n - 2
          PROVE  f[Below(Down(c.tos), k)] = s[n - 1 - k]
      <4>1. k + 1 \in 0 .. n - 1 /\ k \in 0 .. RasSize - 2 /\ n - (k + 1) = n - 1 - k /\ n - 1 - k \in 1 .. n - 1
        BY <1>1, <3>1 DEF Holds
      <4>2. f[Below(c.tos, k + 1)] = c.stack[n - (k + 1)]
        BY <4>1 DEF Holds
      <4>3. Below(Down(c.tos), k) = Below(c.tos, k + 1)
        BY <1>1, <4>1, BelowMoves
      <4> QED
        BY <3>3, <4>1, <4>2, <4>3
    <3>5. n - 1 <= RasSize /\ n - 1 - 1 = n - 2
      BY <1>1, <3>1 DEF Holds
    <3> QED
      BY <2>1, <3>3, <3>4, <3>5 DEF Holds, s
  <2> QED
    BY <2>2, <2>3
<1> QED
  BY <1>2, <1>3

(* A call writes its return address over a position that no earlier call   *)
(* needs, as long as the stack is not full.                                *)
LEMMA CallHolds ==
  ASSUME NEW c \in InContext, NEW i, i.kind = "call", NEW f, Holds(f, c), Len(c.stack) < RasSize,
         NEW g, g[Up(c.tos)] = i.ra, \A p \in Tos \ {Up(c.tos)} : g[p] = f[p]
  PROVE  Holds(g, After(c, i))
<1> DEFINE n == Len(c.stack)
           s == Append(c.stack, i.ra)
<1>1. /\ c.tos \in Tos /\ c.stack \in Seq(RetAddr \cup {0}) /\ n \in Nat
      /\ RasSize \in Nat \ {0}
  BY Sizes DEF InContext
<1>2. After(c, i).tos = Up(c.tos) /\ After(c, i).stack = s
  BY DEF After, InContext
<1>3. Len(s) = n + 1 /\ s[n + 1] = i.ra /\ \A j \in 1 .. n : s[j] = c.stack[j]
  BY <1>1
<1> HIDE DEF s
<1>4. ASSUME NEW k \in 0 .. n PROVE g[Below(Up(c.tos), k)] = s[n + 1 - k]
  <2>1. CASE k = 0
    <3>1. Up(c.tos) \in Tos /\ 0 \in 0 .. RasSize - 1
      BY <1>1, UpDown
    <3>2. Below(Up(c.tos), 0) = Up(c.tos)
      BY <3>1, BelowIs
    <3> QED
      BY <1>1, <1>3, <2>1, <3>2
  <2>2. CASE k # 0
    <3>1. k - 1 \in 0 .. n - 1 /\ k - 1 \in 0 .. RasSize - 2 /\ k - 1 \in 0 .. RasSize - 1 /\ (k - 1) + 1 = k
          /\ n - (k - 1) = n + 1 - k /\ n + 1 - k \in 1 .. n
      BY <1>1, <2>2
    <3>2. Below(Up(c.tos), (k - 1) + 1) = Below(c.tos, k - 1) /\ Below(c.tos, k - 1) # Up(c.tos)
      BY <1>1, <3>1, BelowMoves
    <3>3. Below(c.tos, k - 1) \in Tos
      BY <1>1, <3>1, BelowIs
    <3>4. f[Below(c.tos, k - 1)] = c.stack[n - (k - 1)]
      BY <3>1 DEF Holds
    <3>5. g[Below(c.tos, k - 1)] = s[n + 1 - k]
      BY <1>3, <3>1, <3>2, <3>3, <3>4
    <3> QED
      BY <3>1, <3>2, <3>5
  <2> QED
    BY <2>1, <2>2
<1>5. n + 1 <= RasSize /\ n + 1 - 1 = n
  BY <1>1
<1> QED
  BY <1>2, <1>3, <1>4, <1>5 DEF Holds

(* The stack a point of the window sees, from the youngest branch back.    *)
Array(r) == r = [p \in Tos |-> r[p]]
Unwinds(w, l, r, j) ==
  /\ IsBranch(w[j + 1].insn) => Held(w, l, r, j) = Undo(Held(w, l, r, j + 1), l[w[j + 1].tag])
  /\ ~IsBranch(w[j + 1].insn) => Held(w, l, r, j) = Held(w, l, r, j + 1)
LEMMA HeldIs ==
  ASSUME NEW w, Len(w) \in Nat, NEW l, NEW r, Array(r)
  PROVE  /\ Held(w, l, r, Len(w)) = r
         /\ \A j \in 0 .. Len(w) - 1 : Unwinds(w, l, r, j)
<1> DEFINE n == Len(w)
<1>1. Held(w, l, r, n) = r
  <2>1. \A p : Savers(w, l, n, p) = {}
    BY DEF Savers
  <2> QED
    BY <2>1 DEF Held, Array
<1>2. ASSUME NEW j \in 0 .. n - 1 PROVE Unwinds(w, l, r, j)
  <2> DEFINE x == w[j + 1]
             e == l[x.tag]
             S(p) == Savers(w, l, j, p)
             T(p) == Savers(w, l, j + 1, p)
  <2>1. \A i : i \in j + 1 .. n <=> i = j + 1 \/ i \in (j + 1) + 1 .. n
    OBVIOUS
  <2>2. \A p : ~Saves(x, l, p) => S(p) = T(p)
    BY <2>1 DEF Savers
  <2>3. ASSUME NEW p, Saves(x, l, p) PROVE S(p) # {} /\ Least(S(p)) = j + 1
    <3>1. j + 1 \in S(p) /\ \A i \in S(p) : i \in Int /\ j + 1 <= i
      BY <2>1, <2>3 DEF Savers
    <3> HIDE DEF S
    <3>2. \A i \in S(p) : (\A k \in S(p) : i <= k) => i = j + 1
      BY <3>1
    <3> QED
      BY <3>1, <3>2 DEF Least
  <2>4. \A p \in Tos : Saves(x, l, p) => Held(w, l, r, j)[p] = e.content
    BY <2>3 DEF Held
  <2>5. \A p \in Tos : ~Saves(x, l, p) => Held(w, l, r, j)[p] = Held(w, l, r, j + 1)[p]
    BY <2>2 DEF Held
  <2>6. /\ Held(w, l, r, j) = [p \in Tos |-> Held(w, l, r, j)[p]]
        /\ Held(w, l, r, j + 1) = [p \in Tos |-> Held(w, l, r, j + 1)[p]]
    BY DEF Held
  <2>7. CASE IsBranch(x.insn)
    <3>1. \A p \in Tos : Saves(x, l, p) <=> p = e.tos
      BY <2>7 DEF Saves
    <3>2. Undo(Held(w, l, r, j + 1), e) =
            [p \in Tos |-> IF p = e.tos THEN e.content ELSE Held(w, l, r, j + 1)[p]]
      BY <2>6 DEF Undo
    <3>3. \A p \in Tos : Held(w, l, r, j)[p] = IF p = e.tos THEN e.content ELSE Held(w, l, r, j + 1)[p]
      BY <2>4, <2>5, <3>1
    <3> HIDE DEF e
    <3>4. Held(w, l, r, j) = Undo(Held(w, l, r, j + 1), e)
      BY <2>6, <3>2, <3>3
    <3> QED
      BY <2>7, <3>4 DEF e, Unwinds
  <2>8. CASE ~IsBranch(x.insn)
    <3>1. \A p \in Tos : Held(w, l, r, j)[p] = Held(w, l, r, j + 1)[p]
      BY <2>5, <2>8 DEF Saves
    <3>2. Held(w, l, r, j) = Held(w, l, r, j + 1)
      BY <2>6, <3>1
    <3> QED
      BY <2>8, <3>2 DEF Unwinds
  <2> QED
    BY <2>7, <2>8
<1> QED
  BY <1>1, <1>2

(* Two windows whose branches keep the same, the second d places behind.   *)
Alike(w, l, v, m, d, n) ==
  \A i \in 1 .. n :
    /\ IsBranch(v[i].insn) <=> IsBranch(w[i + d].insn)
    /\ IsBranch(v[i].insn) => /\ m[v[i].tag].tos = l[w[i + d].tag].tos
                              /\ m[v[i].tag].content = l[w[i + d].tag].content
Places(v, n) == Len(v) \in Nat /\ n <= Len(v)

LEMMA HeldSame ==
  ASSUME NEW w, NEW l, NEW r, NEW v, NEW m, NEW s, NEW d \in Nat, NEW n \in Nat,
         Places(w, n + d), Places(v, n), Array(r), Array(s), Alike(w, l, v, m, d, n),
         Held(v, m, s, n) = Held(w, l, r, n + d)
  PROVE  \A j \in 0 .. n : Held(v, m, s, j) = Held(w, l, r, j + d)
<1> DEFINE S == {j \in 0 .. n : Held(v, m, s, j) # Held(w, l, r, j + d)}
<1>1. S \in SUBSET Int /\ IsFiniteSet(S)
  <2>1. IsFiniteSet(0 .. n)
    BY FS_Interval
  <2> QED
    BY <2>1, FS_Subset
<1>2. SUFFICES ASSUME S # {} PROVE FALSE
  OBVIOUS
<1>3. PICK j \in S : \A i \in S : i <= j
  BY <1>1, <1>2, GreatestExists
<1>4. j \in 0 .. n - 1 /\ j + 1 \in 1 .. n /\ j + 1 \in 0 .. n /\ j + 1 \notin S
      /\ j \in 0 .. Len(v) - 1 /\ j + d \in 0 .. Len(w) - 1 /\ (j + 1) + d = (j + d) + 1
  <2>1. j # n
    OBVIOUS
  <2>2. j + 1 \notin S
    BY <1>3
  <2> QED
    BY <2>1, <2>2 DEF Places
<1>5. Held(v, m, s, j + 1) = Held(w, l, r, (j + d) + 1)
  BY <1>4
<1>6. Held(v, m, s, j) # Held(w, l, r, j + d)
  OBVIOUS
<1> HIDE DEF S
<1>7. Unwinds(v, m, s, j)
  <2>1. Len(v) \in Nat
    BY DEF Places
  <2>2. \A k \in 0 .. Len(v) - 1 : Unwinds(v, m, s, k)
    BY <2>1, HeldIs
  <2> QED
    BY <1>4, <2>2
<1>8. Unwinds(w, l, r, j + d)
  <2>1. Len(w) \in Nat
    BY DEF Places
  <2>2. \A k \in 0 .. Len(w) - 1 : Unwinds(w, l, r, k)
    BY <2>1, HeldIs
  <2> QED
    BY <1>4, <2>2
<1>9. /\ IsBranch(v[j + 1].insn) <=> IsBranch(w[(j + d) + 1].insn)
      /\ IsBranch(v[j + 1].insn) => /\ m[v[j + 1].tag].tos = l[w[(j + d) + 1].tag].tos
                                    /\ m[v[j + 1].tag].content = l[w[(j + d) + 1].tag].content
  BY <1>4 DEF Alike
<1>10. IsBranch(v[j + 1].insn)
         => Undo(Held(v, m, s, j + 1), m[v[j + 1].tag]) = Undo(Held(v, m, s, j + 1), l[w[(j + d) + 1].tag])
  BY <1>9 DEF Undo
<1> QED
  BY <1>5, <1>6, <1>7, <1>8, <1>9, <1>10 DEF Unwinds

(* Branches that keep what is there anyway.                                *)
LEMMA HeldSteady ==
  ASSUME NEW w, NEW l, NEW r, Array(r), NEW n \in Nat, Places(w, n),
         \A i \in n + 1 .. Len(w) : IsBranch(w[i].insn) => r[l[w[i].tag].tos] = l[w[i].tag].content
  PROVE  \A j \in n .. Len(w) : Held(w, l, r, j) = r
<1> DEFINE S == {j \in n .. Len(w) : Held(w, l, r, j) # r}
<1>1. S \in SUBSET Int /\ IsFiniteSet(S)
  <2>1. IsFiniteSet(n .. Len(w))
    BY FS_Interval DEF Places
  <2> QED
    BY <2>1, FS_Subset DEF Places
<1>2. SUFFICES ASSUME S # {} PROVE FALSE
  OBVIOUS
<1>3. PICK j \in S : \A i \in S : i <= j
  BY <1>1, <1>2, GreatestExists
<1>4. Held(w, l, r, Len(w)) = r
  BY HeldIs DEF Places
<1>5. j \in 0 .. Len(w) - 1 /\ j + 1 \in n + 1 .. Len(w) /\ j + 1 \in n .. Len(w) /\ j + 1 \notin S
  <2>1. j # Len(w)
    BY <1>4
  <2>2. j + 1 \notin S
    BY <1>3
  <2> QED
    BY <2>1, <2>2 DEF Places
<1>6. Held(w, l, r, j + 1) = r /\ Held(w, l, r, j) # r
  BY <1>5
<1> HIDE DEF S
<1>7. Unwinds(w, l, r, j)
  <2>1. Len(w) \in Nat
    BY DEF Places
  <2>2. \A k \in 0 .. Len(w) - 1 : Unwinds(w, l, r, k)
    BY <2>1, HeldIs
  <2> QED
    BY <1>5, <2>2
<1>8. \A e : r[e.tos] = e.content => Undo(r, e) = r
  BY DEF Undo, Array
<1> QED
  BY <1>5, <1>6, <1>7, <1>8 DEF Unwinds

(* A position that holds the return address of a call that has not         *)
(* returned.                                                               *)
Live(c, p) == \E k \in 0 .. Len(c.stack) - 1 : Below(c.tos, k) = p

(* Only a return that finds the position at the top ends that.             *)
LEMMA LiveStep ==
  ASSUME NEW c \in InContext, NEW i, NEW p, Live(c, p), Len(c.stack) <= RasSize,
         Len(After(c, i).stack) <= RasSize, IsBranch(i) => c.tos # p
  PROVE  Live(After(c, i), p)
<1> DEFINE n == Len(c.stack)
<1>1. /\ c.tos \in Tos /\ c.stack \in Seq(RetAddr \cup {0}) /\ n \in Nat
      /\ RasSize \in Nat \ {0}
  BY Sizes DEF InContext
<1>2. PICK k \in 0 .. n - 1 : Below(c.tos, k) = p
  BY DEF Live
<1>3. CASE i.kind \notin {"call", "return"}
  <2>1. After(c, i).tos = c.tos /\ After(c, i).stack = c.stack
    BY <1>3, AfterIs
  <2> QED
    BY <2>1 DEF Live
<1>4. CASE i.kind = "call"
  <2> DEFINE s == Append(c.stack, i.ra)
  <2>1. After(c, i).tos = Up(c.tos) /\ After(c, i).stack = s
    BY <1>4 DEF After, InContext
  <2>2. Len(s) = n + 1
    BY <1>1
  <2> HIDE DEF s
  <2>3. k \in 0 .. RasSize - 2 /\ k + 1 \in 0 .. Len(s) - 1
    BY <1>1, <2>1, <2>2
  <2>4. Below(Up(c.tos), k + 1) = p
    BY <1>1, <1>2, <2>3, BelowMoves
  <2> QED
    BY <2>1, <2>3, <2>4 DEF Live
<1>5. CASE i.kind = "return"
  <2> DEFINE s == After(c, i).stack
  <2>1. c.tos # p
    BY <1>5 DEF IsBranch, Branch
  <2>2. k # 0
    <3>1. 0 \in 0 .. RasSize - 1
      BY <1>1
    <3>2. Below(c.tos, 0) = c.tos
      BY <1>1, <3>1, BelowIs
    <3> QED
      BY <1>2, <2>1, <3>2
  <2>3. After(c, i).tos = Down(c.tos) /\ s = IF c.stack = <<>> THEN c.stack ELSE Front(c.stack)
    BY <1>5 DEF After, InContext
  <2>4. n # 0 /\ c.stack # <<>>
    BY <1>1
  <2>5. s = SubSeq(c.stack, 1, n - 1)
    BY <2>3, <2>4 DEF Front
  <2>6. Len(s) = n - 1
    BY <1>1, <2>4, <2>5
  <2> HIDE DEF s
  <2>7. k - 1 \in 0 .. Len(s) - 1 /\ k - 1 \in 0 .. RasSize - 2 /\ (k - 1) + 1 = k
    BY <1>1, <2>2, <2>6
  <2>8. Below(Down(c.tos), k - 1) = p
    BY <1>1, <1>2, <2>7, BelowMoves
  <2> QED
    BY <2>3, <2>7, <2>8 DEF Live, s
<1> QED
  BY <1>3, <1>4, <1>5

(* The branches of the window stand one behind the other in the log.       *)
LEMMA Apart ==
  ASSUME NEW h \in Slot, NEW a \in 0 .. BqSize, NEW c \in 0 .. BqSize, a < c, NEW t, t = (h + c) % BqSize
  PROVE  /\ (t + BqSize - (c - a)) % BqSize = (h + a) % BqSize
         /\ (t + BqSize - ((h + a) % BqSize)) % BqSize = IF c - a = BqSize THEN 0 ELSE c - a
<1>1. BqSize \in Nat \ {0} /\ h \in 0 .. BqSize - 1
  BY Sizes
<1>2. t = IF h + c < BqSize THEN h + c ELSE h + c - BqSize
  BY <1>1, Forward
<1> DEFINE s == (h + a) % BqSize
<1>3. s = IF h + a < BqSize THEN h + a ELSE h + a - BqSize
  BY <1>1, Forward
<1> HIDE DEF s
<1>4. t \in 0 .. BqSize - 1 /\ s \in 0 .. BqSize - 1 /\ c - a \in 1 .. BqSize
  BY <1>1, <1>2, <1>3
<1>5. BqSize - (c - a) \in 0 .. BqSize /\ t + (BqSize - (c - a)) = t + BqSize - (c - a)
  BY <1>1, <1>4
<1>6. (t + (BqSize - (c - a))) % BqSize =
        IF t + (BqSize - (c - a)) < BqSize THEN t + (BqSize - (c - a)) ELSE t + (BqSize - (c - a)) - BqSize
  BY <1>1, <1>4, <1>5, Forward
<1>7. BqSize - s \in 0 .. BqSize /\ t + (BqSize - s) = t + BqSize - s
  BY <1>1, <1>4
<1>8. (t + (BqSize - s)) % BqSize = IF t + (BqSize - s) < BqSize THEN t + (BqSize - s) ELSE t + (BqSize - s) - BqSize
  BY <1>1, <1>4, <1>7, Forward
<1>9. (t + BqSize - (c - a)) % BqSize = s
  <2>1. (IF t + (BqSize - (c - a)) < BqSize THEN t + (BqSize - (c - a)) ELSE t + (BqSize - (c - a)) - BqSize) = s
    BY <1>1, <1>2, <1>3, <1>4
  <2> QED
    BY <1>5, <1>6, <2>1
<1>10. (t + BqSize - s) % BqSize = IF c - a = BqSize THEN 0 ELSE c - a
  BY <1>1, <1>2, <1>3, <1>4, <1>7, <1>8
<1> QED
  BY <1>9, <1>10 DEF s

(* Walking the log back to a branch gives the stack in front of it.        *)
LEMMA WalkIs ==
  ASSUME IInv, Recovery = "walk", NEW i \in 1 .. Len(window), IsBranch(window[i].insn)
  PROVE  RasBefore(window[i].tag) = Held(window, log, ras, i - 1)
<1> DEFINE N == Len(window)
           B(j) == Branches(Insns, j)
           id == window[i].tag
           m == B(N) - B(i - 1)
           H(j) == Held(window, log, ras, j)
<1>1. /\ TypeOK /\ N \in Nat /\ N <= BqSize /\ BqSize \in Nat \ {0}
      /\ \A k \in 1 .. N : window[k] \in InFlight /\ Insns[k] = window[k].insn
  <2>1. TypeOK /\ N <= WindowSize
    BY DEF IInv, TypeOK
  <2> QED
    BY <2>1, InsnsType, Sizes
<1>2. bq_head \in Slot /\ Array(ras) /\ ras_tail \in Slot /\ id \in Slot
  BY <1>1 DEF TypeOK, Array, InFlight
<1>3. /\ \A k \in 1 .. N : IsBranch(window[k].insn) => window[k].tag = (bq_head + B(k - 1)) % BqSize
      /\ ras_tail = (bq_head + B(N)) % BqSize
  BY <1>1 DEF IInv, QueueExact, StandsAt, SlotAt, TypeOK
<1>4. /\ \A j \in 0 .. N : B(j) \in 0 .. BqSize /\ B(j) <= B(N)
      /\ \A j \in 0 .. N - 1 : B(j + 1) = B(j) + (IF IsBranch(window[j + 1].insn) THEN 1 ELSE 0)
  <2>1. ASSUME NEW j \in 0 .. N PROVE B(j) \in 0 .. BqSize /\ B(j) <= B(N)
    <3>1. j \in Nat /\ j <= N
      BY <1>1
    <3>2. B(j) \in 0 .. j
      BY <3>1, BranchesIs
    <3>3. B(j) <= B(N)
      BY <1>1, <3>1, BranchesMono
    <3> QED
      BY <1>1, <3>1, <3>2, <3>3
  <2>2. ASSUME NEW j \in 0 .. N - 1
        PROVE  B(j + 1) = B(j) + (IF IsBranch(window[j + 1].insn) THEN 1 ELSE 0)
    <3>1. j \in Nat /\ j + 1 \in 1 .. N
      BY <1>1
    <3>2. B(j + 1) = B(j) + (IF IsBranch(Insns[j + 1]) THEN 1 ELSE 0)
      BY <3>1, BranchesIs
    <3> QED
      BY <1>1, <3>1, <3>2
  <2> QED
    BY <2>1, <2>2
<1> HIDE DEF B
<1>5. i - 1 \in 0 .. N /\ (i - 1) + 1 = i /\ B(i - 1) < B(N) /\ m \in 1 .. BqSize
  <2>1. i - 1 \in 0 .. N - 1 /\ i - 1 \in 0 .. N /\ (i - 1) + 1 = i /\ i \in 0 .. N /\ N \in 0 .. N
    BY <1>1
  <2>2. B(i) = B(i - 1) + 1
    BY <1>4, <2>1
  <2>3. B(i) <= B(N) /\ B(i) \in 0 .. BqSize /\ B(N) \in 0 .. BqSize /\ B(i - 1) \in 0 .. BqSize
    BY <1>4, <2>1
  <2> QED
    BY <1>1, <2>1, <2>2, <2>3
<1>6. PICK n \in Nat : /\ n = (IF Distance(id) = 0 THEN BqSize ELSE Distance(id))
                       /\ Undone(id) = UndoneLog(id, n)
                       /\ Undone(id) \in Seq(Logged) /\ Len(Undone(id)) = n
  BY <1>1, <1>2, UndoneIs
<1>7. n = m
  <2>1. id = (bq_head + B(i - 1)) % BqSize
    BY <1>3
  <2>2. B(i - 1) \in 0 .. BqSize /\ B(N) \in 0 .. BqSize
    BY <1>1, <1>4, <1>5
  <2>3. (ras_tail + BqSize - ((bq_head + B(i - 1)) % BqSize)) % BqSize = IF m = BqSize THEN 0 ELSE m
    BY <1>2, <1>3, <1>5, <2>2, Apart
  <2> QED
    BY <1>5, <1>6, <2>1, <2>3 DEF Distance
<1> DEFINE u == Undone(id)
<1>8. PICK R : Undoes(R, u) /\ Walk(u) = R[Len(u)]
  BY <1>1, <1>6, WalkSteps
<1>9. /\ R[0] = ras /\ Walk(u) = R[m]
      /\ \A k \in 1 .. m : R[k] = Undo(R[k - 1], log[(ras_tail + BqSize - k) % BqSize])
  <2>1. \A k \in 1 .. m : u[k] = log[(ras_tail + BqSize - k) % BqSize]
    BY <1>6, <1>7 DEF UndoneLog
  <2> QED
    BY <1>6, <1>7, <1>8, <2>1 DEF Undoes
<1> HIDE DEF u, m, H
<1>10. H(N) = ras /\ \A j \in 0 .. N - 1 : Unwinds(window, log, ras, j)
  BY <1>1, <1>2, HeldIs DEF H
<1> DEFINE S == {j \in i - 1 .. N : R[B(N) - B(j)] # H(j)}
<1>11. S = {}
  <2>1. SUFFICES ASSUME S # {} PROVE FALSE
    OBVIOUS
  <2>2. S \in SUBSET Int /\ IsFiniteSet(S)
    <3>1. IsFiniteSet(i - 1 .. N)
      BY <1>1, <1>5, FS_Interval
    <3> QED
      BY <1>1, <1>5, <3>1, FS_Subset
  <2>3. PICK j \in S : \A k \in S : k <= j
    BY <2>1, <2>2, GreatestExists
  <2>4. j \in i - 1 .. N /\ R[B(N) - B(j)] # H(j)
    OBVIOUS
  <2>5. j # N
    <3>1. B(N) \in 0 .. BqSize
      BY <1>1, <1>4
    <3>2. B(N) - B(N) = 0
      BY <3>1
    <3> QED
      BY <1>9, <1>10, <2>4, <3>2
  <2>6. j \in 0 .. N - 1 /\ j \in 0 .. N /\ j + 1 \in 0 .. N /\ j + 1 \in 1 .. N /\ (j + 1) - 1 = j
        /\ j + 1 \in i - 1 .. N /\ j + 1 \notin S
    <3>1. j + 1 \notin S
      BY <2>3, <2>4, <1>1, <1>5
    <3> QED
      BY <1>1, <1>5, <2>4, <2>5, <3>1
  <2>7. R[B(N) - B(j + 1)] = H(j + 1)
    BY <2>6
  <2> HIDE DEF S
  <2>8. B(j + 1) = B(j) + (IF IsBranch(window[j + 1].insn) THEN 1 ELSE 0)
        /\ B(j) \in 0 .. BqSize /\ B(N) \in 0 .. BqSize /\ B(j + 1) \in 0 .. BqSize /\ B(j + 1) <= B(N)
    BY <1>1, <1>4, <2>6
  <2>9. Unwinds(window, log, ras, j)
    BY <1>10, <2>6
  <2>10. CASE ~IsBranch(window[j + 1].insn)
    <3>1. B(j + 1) = B(j) /\ H(j) = H(j + 1)
      BY <2>8, <2>9, <2>10 DEF Unwinds, H
    <3> QED
      BY <2>4, <2>7, <3>1
  <2>11. CASE IsBranch(window[j + 1].insn)
    <3> DEFINE k == B(N) - B(j)
    <3>1. k - 1 = B(N) - B(j + 1) /\ k >= 1 /\ k \in Nat /\ B(j) < B(N)
      BY <2>8, <2>11
    <3>2. k <= m
      <4>1. B(i - 1) <= B(j)
        <5>1. i - 1 \in Nat /\ j \in Nat /\ i - 1 <= j
          BY <1>1, <1>5, <2>4
        <5> QED
          BY <5>1, BranchesMono DEF B
      <4>2. B(i - 1) \in 0 .. BqSize
        BY <1>4, <1>5
      <4> QED
        BY <2>8, <4>1, <4>2 DEF m
    <3>3. window[j + 1].tag = (bq_head + B(j)) % BqSize
      BY <1>3, <2>6, <2>11
    <3>4. (ras_tail + BqSize - k) % BqSize = (bq_head + B(j)) % BqSize
      BY <1>2, <1>3, <2>8, <3>1, Apart
    <3>5. k \in 1 .. m
      BY <1>5, <3>1, <3>2 DEF m
    <3> HIDE DEF k
    <3>6. R[k] = Undo(R[k - 1], log[window[j + 1].tag])
      BY <1>9, <3>3, <3>4, <3>5
    <3>7. H(j) = Undo(H(j + 1), log[window[j + 1].tag])
      BY <2>9, <2>11 DEF Unwinds, H
    <3> QED
      BY <2>4, <2>7, <3>1, <3>6, <3>7 DEF k
  <2> QED
    BY <2>10, <2>11
<1>12. R[B(N) - B(i - 1)] = H(i - 1)
  <2>1. i - 1 \in i - 1 .. N
    BY <1>1, <1>5
  <2> QED
    BY <1>11, <2>1
<1>13. RasBefore(id) = Walk(u)
  BY DEF RasBefore, u
<1> QED
  BY <1>9, <1>12, <1>13 DEF m, H

(* A bundle: only its last instruction may be a call or a return.          *)
Straight(p) == \A k \in 1 .. Len(p) - 1 : p[k].kind \notin {"call", "return"}
LEMMA BundleHolds ==
  ASSUME NEW c \in InContext, NEW p \in Seq(Fetched), Straight(p), NEW f, Holds(f, c)
  PROVE  /\ \A k \in 0 .. Len(p) - 1 : Holds(f, Contexts(c, p)[k])
         /\ p = <<>> \/ p[Len(p)].kind # "call" => Holds(f, Beyond(c, p))
         /\ p # <<>> => \E d \in InContext : /\ d.tos = c.tos /\ d.stack = c.stack /\ Holds(f, d)
                                            /\ Beyond(c, p) = After(d, p[Len(p)])
<1> DEFINE n == Len(p)
           C == Contexts(c, p)
<1>1. n \in Nat /\ Codes(p) /\ (p = <<>> <=> n = 0)
  BY FetchedCodes
<1>2. /\ C[0] = c /\ \A k \in 1 .. n : C[k] = After(C[k - 1], p[k])
      /\ \A k \in 0 .. n : C[k] \in InContext
  <2>1. C \in [0 .. Len(p) -> InContext] /\ C[0] = c /\ \A k \in 1 .. n : C[k] = After(C[k - 1], p[k])
    BY <1>1, ContextsIs
  <2> HIDE DEF C
  <2> QED
    BY <2>1
<1>3. ASSUME n # 0
      PROVE  \A k \in 0 .. n - 1 : C[k].tos = c.tos /\ C[k].stack = c.stack
  <2>1. PICK m \in Nat : m = n - 1 /\ m <= Len(p) /\ Codes(p)
    <3>1. n - 1 \in Nat /\ n - 1 <= Len(p)
      BY <1>1, <1>3
    <3> QED
      BY <1>1, <3>1
  <2> HIDE DEF n
  <2>2. (\A k \in 1 .. m : p[k].kind \notin {"call", "return"})
          => \A k \in 0 .. m : C[k].tos = c.tos /\ C[k].stack = c.stack
    BY <2>1, ContextStays
  <2>3. \A k \in 1 .. m : p[k].kind \notin {"call", "return"}
    BY <2>1 DEF Straight, n
  <2> HIDE DEF C
  <2> QED
    BY <2>1, <2>2, <2>3
<1>4. Beyond(c, p) = C[n]
  BY DEF Beyond
<1> HIDE DEF C
<1>5. \A k \in 0 .. n - 1 : Holds(f, C[k])
  <2> SUFFICES ASSUME NEW k \in 0 .. n - 1 PROVE Holds(f, C[k])
    OBVIOUS
  <2>1. C[k].tos = c.tos /\ C[k].stack = c.stack
    BY <1>1, <1>3
  <2> QED
    BY <2>1 DEF Holds
<1>6. CASE n = 0
  BY <1>1, <1>2, <1>4, <1>5, <1>6 DEF C
<1>7. CASE n # 0
  <2>1. n \in 1 .. n /\ n - 1 \in 0 .. n - 1 /\ n - 1 \in 0 .. n
    BY <1>1, <1>7
  <2> DEFINE d == C[n - 1]
  <2>2. /\ d \in InContext /\ d.tos = c.tos /\ d.stack = c.stack /\ Holds(f, d)
        /\ Beyond(c, p) = After(d, p[n])
    BY <1>2, <1>3, <1>4, <1>5, <1>7, <2>1
  <2> HIDE DEF d
  <2>3. p[n].kind # "call" => Holds(f, Beyond(c, p))
    BY <2>2, AfterHolds
  <2> QED
    BY <1>1, <1>5, <1>7, <2>2, <2>3 DEF C
<1> QED
  BY <1>6, <1>7

(* The contexts along the window.                                          *)
LEMMA WindowContexts ==
  ASSUME TypeOK
  PROVE  /\ Len(window) \in Nat /\ Array(ras)
         /\ Contexts(base, Insns)[0] = base /\ Contexts(base, Insns)[Len(window)] = Here
         /\ \A j \in 0 .. Len(window) : Contexts(base, Insns)[j] \in InContext
         /\ \A j \in 1 .. Len(window) :
              Contexts(base, Insns)[j] = After(Contexts(base, Insns)[j - 1], window[j].insn)
<1> DEFINE C == Contexts(base, Insns)
<1>1. /\ Len(Insns) = Len(window) /\ Len(window) \in Nat /\ Codes(Insns) /\ base \in InContext
      /\ \A k \in 1 .. Len(window) : Insns[k] = window[k].insn
  BY InsnsType
<1>2. /\ C \in [0 .. Len(Insns) -> InContext] /\ C[0] = base
      /\ \A k \in 1 .. Len(Insns) : C[k] = After(C[k - 1], Insns[k])
  BY <1>1, ContextsIs
<1>3. C[Len(window)] = Here
  BY <1>1 DEF Here, Beyond
<1> HIDE DEF C
<1>4. Array(ras)
  BY DEF TypeOK, Array
<1>5. \A j \in 0 .. Len(window) : C[j] \in InContext
  BY <1>1, <1>2
<1>6. \A j \in 1 .. Len(window) : C[j] = After(C[j - 1], window[j].insn)
  BY <1>1, <1>2
<1> QED
  BY <1>1, <1>2, <1>3, <1>4, <1>5, <1>6 DEF C

(* A call in front of a point of the window that no branch behind has      *)
(* popped has not returned in front of FETCH2 either.                      *)
LEMMA LiveUntil ==
  ASSUME IInv, Keeps(window, log, ras, Contexts(base, Insns)), NEW j \in 0 .. Len(window), NEW p,
         Live(Contexts(base, Insns)[j], p), Savers(window, log, j, p) = {}
  PROVE  Live(Here, p)
<1> DEFINE C == Contexts(base, Insns)
           N == Len(window)
           S == {k \in j .. N : ~Live(C[k], p)}
<1>1. TypeOK
  BY DEF IInv
<1>2. /\ N \in Nat /\ C[N] = Here /\ \A k \in 0 .. N : C[k] \in InContext
      /\ \A k \in 1 .. N : C[k] = After(C[k - 1], window[k].insn)
  BY <1>1, WindowContexts
<1>3. \A k \in 0 .. N : Len(C[k].stack) <= RasSize
  BY DEF Keeps, Holds
<1>4. \A k \in 1 .. N : IsBranch(window[k].insn) => log[window[k].tag].tos = C[k - 1].tos
  <2>1. LogOf(window, C, log)
    BY <1>1, LogForm DEF IInv
  <2> QED
    BY <2>1 DEF LogOf, Recorded
<1> HIDE DEF C
<1>5. S = {}
  <2> SUFFICES ASSUME S # {} PROVE FALSE
    OBVIOUS
  <2>1. S \in SUBSET Int /\ IsFiniteSet(S)
    <3>1. IsFiniteSet(j .. N)
      BY <1>2, FS_Interval
    <3> QED
      BY <1>2, <3>1, FS_Subset
  <2>2. PICK k \in S : \A i \in S : k <= i
    BY <2>1, LeastExists
  <2>3. k \in j .. N /\ ~Live(C[k], p)
    OBVIOUS
  <2>4. k # j
    BY <2>3 DEF C
  <2>5. k \in j + 1 .. N /\ k \in 1 .. N /\ k \in 0 .. N /\ k - 1 \in j .. N /\ k - 1 \in 0 .. N /\ k - 1 \notin S
    <3>1. k - 1 \notin S
      BY <1>2, <2>2, <2>3
    <3> QED
      BY <1>2, <2>3, <2>4, <3>1
  <2>6. Live(C[k - 1], p)
    BY <2>5
  <2> HIDE DEF S
  <2>7. IsBranch(window[k].insn) => C[k - 1].tos # p
    <3>1. k \notin Savers(window, log, j, p)
      OBVIOUS
    <3>2. ~Saves(window[k], log, p)
      BY <2>5, <3>1 DEF Savers
    <3> QED
      BY <1>4, <2>5, <3>2 DEF Saves
  <2>8. C[k - 1] \in InContext /\ C[k] = After(C[k - 1], window[k].insn)
        /\ Len(C[k - 1].stack) <= RasSize /\ Len(C[k].stack) <= RasSize
    BY <1>2, <1>3, <2>5
  <2>9. Live(C[k], p)
    BY <2>6, <2>7, <2>8, LiveStep
  <2> QED
    BY <2>3, <2>9
<1>6. N \in j .. N
  BY <1>2
<1> QED
  BY <1>2, <1>5, <1>6

-----------------------------------------------------------------------------
(* Each action keeps the return address stack.                             *)

(* A call writes over nothing that a branch in flight would still need.    *)
LEMMA CallKeeps ==
  ASSUME IInv, Keeps(window, log, ras, Contexts(base, Insns)), Len(Here.stack) < RasSize,
         NEW r, \A p \in Tos \ {Up(Here.tos)} : r[p] = ras[p]
  PROVE  Keeps(window, log, r, Contexts(base, Insns))
<1> DEFINE C == Contexts(base, Insns)
           H(j) == Held(window, log, ras, j)
           G(j) == Held(window, log, r, j)
<1>1. TypeOK /\ Here \in InContext
  BY PathIs DEF IInv
<1>2. Here.tos \in Tos /\ Here.stack \in Seq(RetAddr \cup {0}) /\ Len(Here.stack) \in Nat /\ RasSize \in Nat \ {0}
  BY <1>1, Sizes DEF InContext
<1>3. ASSUME NEW j \in 0 .. Len(window), NEW k \in 0 .. Len(C[j].stack) - 1
      PROVE  G(j)[Below(C[j].tos, k)] = H(j)[Below(C[j].tos, k)]
  <2> DEFINE p == Below(C[j].tos, k)
  <2>1. C[j] \in InContext
    BY <1>1, WindowContexts
  <2>2. Len(C[j].stack) <= RasSize
    BY DEF Keeps, Holds
  <2>3. C[j].tos \in Tos /\ k \in 0 .. RasSize - 1
    <3> HIDE DEF C
    <3>1. C[j].stack \in Seq(RetAddr \cup {0}) /\ C[j].tos \in Tos
      BY <2>1 DEF InContext
    <3> QED
      BY <1>2, <2>2, <3>1
  <2>4. p \in Tos
    BY <2>3, BelowIs
  <2>5. Savers(window, log, j, p) # {} => G(j)[p] = H(j)[p]
    BY <2>4 DEF Held
  <2>6. Savers(window, log, j, p) = {} => r[p] = ras[p]
    <3> SUFFICES ASSUME Savers(window, log, j, p) = {} PROVE r[p] = ras[p]
      OBVIOUS
    <3>1. Live(C[j], p)
      BY DEF Live
    <3>2. Live(Here, p)
      BY <3>1, LiveUntil
    <3>3. PICK l \in 0 .. Len(Here.stack) - 1 : Below(Here.tos, l) = p
      BY <3>2 DEF Live
    <3>4. l \in 0 .. RasSize - 2
      BY <1>2
    <3>5. p # Up(Here.tos)
      BY <1>2, <3>3, <3>4, BelowMoves
    <3> QED
      BY <2>4, <3>5
  <2>7. Savers(window, log, j, p) = {} => G(j)[p] = H(j)[p]
    BY <2>4, <2>6 DEF Held
  <2> QED
    BY <2>5, <2>7
<1> HIDE DEF C
<1>4. ASSUME NEW j \in 0 .. Len(window) PROVE Holds(G(j), C[j])
  <2>1. Holds(H(j), C[j])
    BY DEF Keeps, C
  <2> HIDE DEF H, G
  <2> QED
    BY <1>3, <2>1 DEF Holds
<1> QED
  BY <1>4 DEF Keeps, C

LEMMA Fetch1Ras ==
  ASSUME IInv, IInv', RasKept, RasSize > 1, Fetch1
  PROVE  RasKept'
<1>1. PICK b \in Bundles, misfetch \in BOOLEAN :
        /\ fetch2' = [valid |-> TRUE, insns |-> Predicted(b), misfetch |-> misfetch,
                      bhr |-> bhr, tos |-> tos, content |-> ras[tos]]
        /\ SpecUpdate(b)
        /\ fetch_active /\ ~fetch2.valid
        /\ UNCHANGED <<fetch_active, bq, log, ras_tail, window, dropped, base, program>>
  BY DEF Fetch1
<1> DEFINE q == Predicted(b)
           n == Len(q)
<1>2. TypeOK /\ TypeOK' /\ bhr \in History /\ tos \in Tos /\ ras \in [Tos -> RetAddr \cup {0}]
  BY DEF IInv, TypeOK
<1>3. dropped = <<>> /\ fetch2.insns = <<>>
  BY <1>1 DEF IInv, Bundling, FetchActiveExact
<1>4. Path = Here /\ Here \in InContext /\ tos = Here.tos
  <2>1. Path = Here /\ Here \in InContext
    BY <1>2, <1>3, PathIs
  <2> QED
    BY <2>1 DEF IInv, HistoryExact
<1>5. Insns' = Insns /\ Here' = Here
  BY <1>1, <1>2, WindowStays DEF IInv
<1>6. fetch2'.insns = q /\ fetch2'.tos = tos /\ fetch2'.content = ras[tos] /\ dropped' = <<>>
  BY <1>1, <1>3
<1>7. Path' = Beyond(Here, q)
  <2>1. dropped' = <<>> => Path' = Beyond(Here', fetch2'.insns)
    BY <1>2, PathPrimed
  <2> QED
    BY <1>5, <1>6, <2>1
<1>8. q \in Seq(Fetched) /\ n = Len(b) /\ \A k \in 1 .. n : q[k].kind = b[k].kind /\ q[k].ra = b[k].ra
  BY <1>2, PredictedIs
<1>9. Straight(q)
  <2>1. \A k \in 1 .. Len(b) - 1 : ~b[k].taken /\ k \in 1 .. Len(b)
    BY BundlesAre, Sizes
  <2>2. \A k \in 1 .. Len(b) : b[k].kind \in {"call", "return"} => b[k].taken
    BY BundlesAre, InsnIs
  <2> QED
    BY <1>8, <2>1, <2>2 DEF Straight
<1>10. q # <<>> => b # <<>> /\ Last(b) = b[n] /\ n \in 1 .. n /\ End(b) = q[n].kind /\ Last(b).ra = q[n].ra
  <2> SUFFICES ASSUME q # <<>>
               PROVE  b # <<>> /\ Last(b) = b[n] /\ n \in 1 .. n /\ End(b) = q[n].kind /\ Last(b).ra = q[n].ra
    OBVIOUS
  <2>1. n \in Nat \ {0}
    BY <1>8
  <2>2. b # <<>> /\ Last(b) = b[n] /\ n \in 1 .. n
    BY <1>8, <2>1 DEF Last
  <2> QED
    BY <1>8, <2>2 DEF End
<1>11. q = <<>> => End(b) = "plain"
  <2> SUFFICES ASSUME q = <<>> PROVE b = <<>>
    BY DEF End
  <2>1. Len(b) = 0
    BY <1>8
  <2>2. PICK m \in 0 .. FetchWidth : b \in [1 .. m -> Insn]
    BY DEF Bundles
  <2>3. b \in Seq(Insn)
    BY <2>2, LenIs, Sizes
  <2> HIDE DEF Insn
  <2> QED
    BY <2>1, <2>3
<1> HIDE DEF q
<1>12. Up(tos) \in Tos /\ Up(tos) # tos
  BY <1>2, UpDown
<1>13. CASE End(b) # "call"
  <2>1. ras' = ras
    BY <1>1, <1>13 DEF SpecUpdate
  <2>2. q = <<>> \/ q[n].kind # "call"
    BY <1>10, <1>13
  <2>3. Recovery = "walk" => Holds(ras, Beyond(Here, q))
    BY <1>4, <1>8, <1>9, <2>2, BundleHolds DEF RasKept
  <2>4. Recovery = "walk" => Keeps(window', log', ras', Contexts(base', Insns'))
    BY <1>1, <1>5, <2>1 DEF RasKept
  <2> QED
    BY <1>6, <1>7, <2>1, <2>3, <2>4 DEF RasKept
<1>14. CASE End(b) = "call"
  <2>1. Len(Path.stack) < RasSize /\ ras' = [ras EXCEPT ![Up(tos)] = Last(b).ra]
    BY <1>1, <1>14 DEF SpecUpdate
  <2>2. q # <<>> /\ q[n].kind = "call" /\ Last(b).ra = q[n].ra
    BY <1>10, <1>11, <1>14
  <2>3. ras'[Up(tos)] = q[n].ra /\ \A p \in Tos \ {Up(tos)} : ras'[p] = ras[p]
    BY <1>2, <1>12, <2>1, <2>2
  <2>4. ras'[tos] = ras[tos]
    BY <1>2, <1>12, <2>3
  <2>5. Recovery = "walk" => Holds(ras', Beyond(Here, q))
    <3> SUFFICES ASSUME Recovery = "walk" PROVE Holds(ras', Beyond(Here, q))
      OBVIOUS
    <3>1. Holds(ras, Here)
      BY <1>4 DEF RasKept
    <3>2. PICK d \in InContext : /\ d.tos = Here.tos /\ d.stack = Here.stack /\ Holds(ras, d)
                                 /\ Beyond(Here, q) = After(d, q[n])
      BY <1>4, <1>8, <1>9, <2>2, <3>1, BundleHolds
    <3>3. Len(d.stack) < RasSize /\ d.tos = tos
      BY <1>4, <2>1, <3>2
    <3> QED
      BY <2>2, <2>3, <3>2, <3>3, CallHolds
  <2>6. Recovery = "walk" => Keeps(window', log', ras', Contexts(base', Insns'))
    <3> SUFFICES ASSUME Recovery = "walk" PROVE Keeps(window, log, ras', Contexts(base, Insns))
      BY <1>1, <1>5
    <3>1. Keeps(window, log, ras, Contexts(base, Insns))
      BY DEF RasKept
    <3> QED
      BY <1>4, <2>1, <2>3, <3>1, CallKeeps
  <2> QED
    BY <1>6, <1>7, <2>4, <2>5, <2>6 DEF RasKept
<1> QED
  BY <1>13, <1>14

(* What stands behind the window is what its youngest branch left.         *)
LEMMA HereHolds ==
  ASSUME TypeOK, Keeps(window, log, ras, Contexts(base, Insns))
  PROVE  Holds(ras, Here)
<1>1. Len(window) \in Nat /\ Array(ras) /\ Contexts(base, Insns)[Len(window)] = Here
  BY WindowContexts
<1>2. Held(window, log, ras, Len(window)) = ras
  BY <1>1, HeldIs
<1>3. Len(window) \in 0 .. Len(window)
  BY <1>1
<1> QED
  BY <1>1, <1>2, <1>3 DEF Keeps

LEMMA MisfetchRas ==
  ASSUME IInv, IInv', RasKept, Fetch2Misfetch
  PROVE  RasKept'
<1>1. fetch2' = NoBundle /\ UNCHANGED <<ras, bq, log, ras_tail, window, dropped, base, program>>
      /\ fetch2.valid /\ fetch2.misfetch
  BY DEF Fetch2Misfetch
<1>2. TypeOK /\ TypeOK' /\ dropped' = <<>>
  BY <1>1 DEF IInv, Bundling, FetchActiveExact
<1>3. Insns' = Insns /\ Here' = Here
  BY <1>1, <1>2, WindowStays DEF IInv
<1>4. fetch2'.insns = <<>> /\ ~fetch2'.valid
  BY <1>1, EmptyType
<1>5. Path' = Here
  <2>1. /\ dropped' = <<>> => Path' = Beyond(Here', fetch2'.insns)
        /\ fetch2'.insns = <<>> => Beyond(Here', fetch2'.insns) = Here'
    BY <1>2, PathPrimed
  <2> QED
    BY <1>2, <1>3, <1>4, <2>1
<1>6. Recovery = "walk" => Holds(ras, Here)
  BY <1>2, HereHolds DEF RasKept
<1>7. Recovery = "walk" => Keeps(window', log', ras', Contexts(base', Insns'))
  BY <1>1, <1>3 DEF RasKept
<1> QED
  BY <1>1, <1>4, <1>5, <1>6, <1>7 DEF RasKept

LEMMA StallRas ==
  ASSUME IInv, IInv', RasKept, Fetch2Stall
  PROVE  RasKept'
<1>1. PICK b : b = Kept(fetch2.insns)
  OBVIOUS
<1>2. /\ Predecode /\ fetch2' = [fetch2 EXCEPT !.insns = b] /\ fetch2 \in Bundled /\ TypeOK /\ TypeOK'
      /\ UNCHANGED <<bhr, ras, tos, bq, log, ras_tail, window, base, program>> /\ fetch2.valid
  BY <1>1 DEF Fetch2Stall, IInv, TypeOK, Predecode
<1>3. Insns' = Insns /\ fetch2'.tos = fetch2.tos /\ fetch2'.content = fetch2.content
  <2>1. Insns' = Insns
    BY <1>2, WindowStays DEF IInv
  <2> QED
    BY <1>2, <2>1 DEF Bundled
<1>4. Path' = Path
  <2>1. Beyond(Beyond(Here, b), dropped') = Path
    BY <1>1, <1>2, PredecodeIs
  <2>2. (Path = Beyond(Beyond(Here, fetch2.insns), dropped))'
    BY <1>2, PathPrimed
  <2>3. Here' = Here
    BY <1>2, WindowStays DEF IInv
  <2>4. fetch2'.insns = b
    BY <1>2 DEF Bundled
  <2> QED
    BY <2>1, <2>2, <2>3, <2>4
<1>5. fetch2.valid => ras[fetch2.tos] = fetch2.content
  BY DEF RasKept
<1>6. Recovery = "walk" => Keeps(window', log', ras', Contexts(base', Insns')) /\ Holds(ras', Path')
  BY <1>2, <1>3, <1>4 DEF RasKept
<1> QED
  BY <1>2, <1>3, <1>5, <1>6 DEF RasKept

(* The entries of a bundle keep what stands there, and of its contexts     *)
(* only the last differs from the one in front of it.                      *)
LEMMA AdvanceRas ==
  ASSUME IInv, IInv', RasKept, Fetch2Advance
  PROVE  RasKept'
<1>1. PICK b : b = Kept(fetch2.insns)
  OBVIOUS
<1>0. Len(window) \in Nat /\ Len(b) \in Nat
  BY <1>1, PredecodeIs, InsnsType DEF Fetch2Advance, IInv
<1>n. PICK n \in Nat, p \in Nat : n = Len(window) /\ p = Len(b)
  BY <1>0
<1> DEFINE C == Contexts(base, Insns)
           D == Contexts(base', Insns')
           H(j) == Held(window, log, ras, j)
           G(j) == Held(window', log', ras', j)
<1>2. TypeOK /\ TypeOK' /\ Predecode /\ QueueExact' /\ UNCHANGED <<ras, base>> /\ fetch2' = NoBundle
  BY DEF Fetch2Advance, IInv
<1>3. /\ b \in Seq(Fetched) /\ Len(b) = p /\ Codes(b) /\ dropped' \in Seq(Fetched)
      /\ Beyond(Beyond(Here, b), dropped') = Path
      /\ fetch_active' => dropped' = <<>>
      /\ ~fetch_active' => (Stops(Insns) \/ Stops(b))
      /\ \A k \in DOMAIN window : window[k].insn.kind \notin Stop
      /\ \A k \in 1 .. p :
           /\ b[k].taken => k = p
           /\ b[k].kind \in Stop => k = p
           /\ b[k].kind \in {"jump", "call", "return"} => b[k].taken
      /\ DOMAIN b = 1 .. p
  BY <1>1, <1>2, <1>n, PredecodeIs, FetchedCodes
<1>4. /\ Len(window) = n /\ DOMAIN window = 1 .. n /\ Insns \in Seq(Fetched) /\ Len(Insns) = n
      /\ Codes(Insns) /\ base \in InContext
      /\ \A k \in 1 .. n : Insns[k] = window[k].insn
      /\ ras \in [Tos -> RetAddr \cup {0}] /\ Array(ras) /\ Here \in InContext /\ Here = C[n]
  BY <1>2, <1>n, InsnsType, WindowContexts, PathIs DEF TypeOK
<1>5. /\ Insns' = Insns \o b /\ Len(window') = n + p
      /\ \A k \in 1 .. n : Insns'[k] = Insns[k] /\ window'[k] = window[k]
      /\ \A k \in 1 .. p : Insns'[n + k] = b[k] /\ window'[n + k] = Item(b, k)
  BY <1>1, <1>2, <1>n, AdvanceIs
<1>6. /\ \A i \in 1 .. n : IsBranch(window[i].insn) => log'[window[i].tag] = log[window[i].tag]
      /\ \A k \in 1 .. p : IsBranch(b[k]) => log'[Item(b, k).tag] = Entry(b, k)
  BY <1>1, <1>2, <1>n, AdvanceEntries
<1>7. ras[fetch2.tos] = fetch2.content
  BY <1>2 DEF RasKept, Predecode
<1>8. \A j \in n .. Len(window') : G(j) = ras
  <2>0. Len(window') = n + p
    BY <1>3, <1>5
  <2>1. ASSUME NEW i \in n + 1 .. Len(window'), IsBranch(window'[i].insn)
        PROVE  ras[log'[window'[i].tag].tos] = log'[window'[i].tag].content
    <3>1. PICK k \in 1 .. p : i = n + k
      <4>1. i - n \in 1 .. p /\ i = n + (i - n)
        BY <2>0
      <4> QED
        BY <4>1
    <3>2. window'[i] = Item(b, k) /\ Item(b, k).insn = b[k]
      BY <1>2, <1>3, <1>5, <3>1, ItemIs
    <3>3. log'[window'[i].tag] = Entry(b, k)
      BY <1>6, <2>1, <3>2
    <3>4. Entry(b, k).tos = fetch2.tos /\ Entry(b, k).content = fetch2.content
      BY DEF Entry
    <3> QED
      BY <1>7, <3>3, <3>4
  <2>2. Places(window', n) /\ n \in Nat /\ Array(ras)
    BY <1>3, <1>4, <1>5 DEF Places
  <2>3. \A j \in n .. Len(window') : Held(window', log', ras, j) = ras
    BY <2>1, <2>2, HeldSteady
  <2> QED
    BY <1>2, <2>3
<1>9. \A j \in 0 .. n : G(j) = H(j)
  <2>1. Alike(window, log, window', log', 0, n)
    <3> SUFFICES ASSUME NEW i \in 1 .. n
                 PROVE  /\ IsBranch(window'[i].insn) <=> IsBranch(window[i + 0].insn)
                        /\ IsBranch(window'[i].insn) => /\ log'[window'[i].tag].tos = log[window[i + 0].tag].tos
                                                        /\ log'[window'[i].tag].content = log[window[i + 0].tag].content
      BY DEF Alike
    <3>1. i + 0 = i /\ window'[i] = window[i]
      BY <1>5
    <3>2. IsBranch(window[i].insn) => log'[window[i].tag] = log[window[i].tag]
      BY <1>6
    <3> QED
      BY <3>1, <3>2
  <2>2. Places(window, n + 0) /\ Places(window', n) /\ 0 \in Nat /\ n \in Nat /\ n + 0 = n
    BY <1>3, <1>4, <1>5 DEF Places
  <2>3. Held(window', log', ras, n) = ras /\ Held(window, log, ras, n + 0) = ras
    <3>1. n \in n .. Len(window')
      BY <1>3, <1>4, <1>5
    <3>2. Held(window, log, ras, n) = ras
      BY <1>4, HeldIs
    <3> QED
      BY <1>2, <1>8, <2>2, <3>1, <3>2
  <2>4. PICK zero \in Nat : zero = 0
    OBVIOUS
  <2>5. /\ Places(window, n + zero) /\ Places(window', n) /\ Array(ras)
        /\ Alike(window, log, window', log', zero, n)
        /\ Held(window', log', ras, n) = Held(window, log, ras, n + zero)
    BY <1>4, <2>1, <2>2, <2>3, <2>4
  <2>6. \A j \in 0 .. n : Held(window', log', ras, j) = Held(window, log, ras, j + zero)
    BY <2>5, HeldSame
  <2>7. \A j \in 0 .. n : j + zero = j
    BY <2>4
  <2> QED
    BY <1>2, <2>6, <2>7
<1>10. /\ \A j \in 0 .. n : D[j] = C[j]
       /\ \A k \in 0 .. p : D[n + k] = Contexts(Here, b)[k]
  <2>1. Len(Insns') = n + p /\ Codes(Insns')
    <3>0. Insns \in Seq(Fetched) /\ b \in Seq(Fetched) /\ Insns' = Insns \o b
      BY <1>3, <1>4, <1>5
    <3>1. Insns' \in Seq(Fetched) /\ Len(Insns') = Len(Insns) + Len(b)
      BY <3>0, ConcatIs
    <3>2. Len(Insns') = n + p
      BY <1>3, <1>4, <3>1
    <3> QED
      BY <3>1, <3>2, FetchedCodes
  <2>2. Joined(Insns, n, b, Insns')
    BY <1>3, <1>4, <1>5, <2>1 DEF Joined
  <2>3. /\ \A k \in 0 .. n : Contexts(base, Insns')[k] = Contexts(base, Insns)[k]
        /\ \A k \in 0 .. Len(b) : Contexts(base, Insns')[n + k] = Contexts(Contexts(base, Insns)[n], b)[k]
    <3>1. base \in InContext /\ n \in Nat
      BY <1>4
    <3> QED
      BY <2>2, <3>1, ContextsConcat
  <2>4. base' = base /\ Contexts(base, Insns)[n] = Here /\ Len(b) = p
    BY <1>2, <1>3, <1>4
  <2> QED
    BY <2>3, <2>4
<1>11. Straight(b)
  <2>1. \A k \in 1 .. p - 1 : k \in 1 .. p /\ k # p
    BY <1>3
  <2> QED
    BY <1>3, <2>1 DEF Straight
<1>12. fetch2'.insns = <<>> /\ ~fetch2'.valid
  BY <1>2, EmptyType
<1>13. Path' = Path
  <2>1. /\ (Path = Beyond(Beyond(Here, fetch2.insns), dropped))'
        /\ (fetch2.insns = <<>> => Beyond(Here, fetch2.insns) = Here)'
    BY <1>2, PathPrimed
  <2>2. Here' = Beyond(Here, b)
    <3>1. Here' = Beyond(base, Insns \o b)
      BY <1>2, <1>5 DEF Here
    <3>2. Beyond(base, Insns \o b) = Beyond(Beyond(base, Insns), b)
      BY <1>3, <1>4, BeyondIs
    <3> QED
      BY <3>1, <3>2 DEF Here
  <2> QED
    BY <1>3, <1>12, <2>1, <2>2
<1> HIDE DEF C, D, G, H
<1>14. ASSUME Recovery = "walk" PROVE \A k \in 0 .. p : Holds(ras, Contexts(Here, b)[k])
  <2>1. Holds(ras, Here) /\ Holds(ras, Path)
    BY <1>2, <1>14, HereHolds DEF RasKept
  <2>2. /\ \A k \in 0 .. p - 1 : Holds(ras, Contexts(Here, b)[k])
        /\ b = <<>> \/ b[p].kind # "call" => Holds(ras, Beyond(Here, b))
    BY <1>3, <1>4, <1>11, <2>1, BundleHolds
  <2>3. Holds(ras, Beyond(Here, b))
    <3> SUFFICES ASSUME b # <<>>, b[p].kind = "call" PROVE Holds(ras, Beyond(Here, b))
      BY <2>2
    <3>1. p \in 1 .. p
      BY <1>3
    <3>2. ~Stops(b)
      <4>1. \A k \in 1 .. p : b[k].kind \in Stop => b[k].kind = "call"
        BY <1>3
      <4>2. "call" \notin Stop
        BY DEF Stop
      <4> QED
        BY <1>3, <4>1, <4>2 DEF Stops
    <3>3. ~Stops(Insns)
      BY <1>3, <1>4 DEF Stops, Insns
    <3>4. dropped' = <<>>
      BY <1>3, <3>2, <3>3
    <3>5. Beyond(Here, b) \in InContext
      BY <1>3, <1>4, BeyondIs
    <3>6. Beyond(Beyond(Here, b), <<>>) = Beyond(Here, b)
      <4>1. <<>> \in Seq(Fetched)
        OBVIOUS
      <4> QED
        BY <3>5, <4>1, BeyondIs
    <3> QED
      BY <1>3, <2>1, <3>4, <3>6
  <2>4. \A k \in 0 .. p : k \in 0 .. p - 1 \/ k = p
    BY <1>3
  <2>5. Holds(ras, Contexts(Here, b)[p]) /\ \A k \in 0 .. p - 1 : Holds(ras, Contexts(Here, b)[k])
    BY <1>3, <2>2, <2>3 DEF Beyond
  <2> QED
    BY <2>4, <2>5
<1>15. ASSUME Recovery = "walk" PROVE Keeps(window', log', ras', Contexts(base', Insns'))
  <2> SUFFICES ASSUME NEW j \in 0 .. n + p PROVE Holds(G(j), D[j])
    BY <1>5 DEF Keeps, G, D
  <2>1. CASE j \in 0 .. n
    <3>1. Holds(H(j), C[j])
      <4>1. Keeps(window, log, ras, Contexts(base, Insns)) /\ Len(window) = n
        BY <1>4, <1>15 DEF RasKept
      <4> QED
        BY <2>1, <4>1 DEF Keeps, H, C
    <3> QED
      BY <1>9, <1>10, <2>1, <3>1
  <2>2. CASE j \notin 0 .. n
    <3>1. j - n \in 0 .. p /\ j = n + (j - n) /\ j \in n .. Len(window')
      BY <1>3, <1>4, <1>5, <2>2
    <3>2. D[j] = Contexts(Here, b)[j - n]
      BY <1>10, <3>1
    <3> QED
      BY <1>8, <1>14, <1>15, <3>1, <3>2
  <2> QED
    BY <2>1, <2>2
<1> QED
  BY <1>2, <1>12, <1>13, <1>15 DEF RasKept

LEMMA ResolveRas ==
  ASSUME IInv, RasKept, NEW i \in DOMAIN window, Resolve(i)
  PROVE  RasKept'
<1>1. TypeOK /\ UNCHANGED <<fetch2, ras, log, base, dropped>>
  BY DEF IInv, Resolve
<1>2. /\ Len(window') = Len(window) /\ Insns' = Insns
      /\ \A k \in 1 .. Len(window) : window'[k].insn = window[k].insn /\ window'[k].tag = window[k].tag
  BY <1>1, ResolveIs
<1>3. Len(window) \in Nat /\ Array(ras)
  BY <1>1, WindowContexts
<1>4. PICK n \in Nat, zero \in Nat : n = Len(window) /\ zero = 0
  BY <1>3
<1>5. \A k \in 1 .. n : k + zero = k
  BY <1>4
<1>6. Alike(window, log, window', log, zero, n)
  BY <1>2, <1>4, <1>5 DEF Alike
<1>7. /\ Places(window, n + zero) /\ Places(window', n) /\ Array(ras)
      /\ Held(window', log, ras, n) = Held(window, log, ras, n + zero)
  <2>1. Places(window, n + zero) /\ Places(window', n) /\ n + zero = n
    BY <1>2, <1>3, <1>4 DEF Places
  <2>2. Held(window, log, ras, Len(window)) = ras
    BY <1>3, HeldIs
  <2>3. Held(window', log, ras, Len(window')) = ras
    BY <1>2, <1>3, HeldIs
  <2> QED
    BY <1>2, <1>3, <1>4, <2>1, <2>2, <2>3
<1>8. \A j \in 0 .. n : Held(window', log, ras, j) = Held(window, log, ras, j + zero)
  BY <1>6, <1>7, HeldSame
<1>9. \A j \in 0 .. n : Held(window', log, ras, j) = Held(window, log, ras, j)
  <2>1. \A j \in 0 .. n : j + zero = j
    BY <1>4
  <2> QED
    BY <1>8, <2>1
<1>10. Path' = Path
  BY <1>1, <1>2 DEF Path
<1>11. Keeps(window, log, ras, Contexts(base, Insns)) => Keeps(window', log', ras', Contexts(base', Insns'))
  BY <1>1, <1>2, <1>4, <1>9 DEF Keeps
<1> QED
  BY <1>1, <1>10, <1>11 DEF RasKept

(* The window without its oldest instruction.                              *)
LEMMA CommitRas ==
  ASSUME IInv, IInv', RasKept, Commit
  PROVE  RasKept'
<1>1. TypeOK /\ TypeOK' /\ UNCHANGED <<fetch2, ras, log, dropped>>
  BY DEF IInv, Commit
<1>2. /\ Len(window) = Len(window') + 1 /\ Len(window') \in Nat /\ base' = After(base, Insns[1])
      /\ Insns' \in Seq(Fetched) /\ Len(Insns') = Len(window')
      /\ \A k \in 1 .. Len(window') : window'[k] = window[k + 1] /\ Insns'[k] = Insns[k + 1]
  BY CommitIs DEF Commit, IInv
<1>3. Array(ras) /\ Codes(Insns) /\ Codes(Insns') /\ Len(Insns) = Len(window) /\ base \in InContext
  BY <1>1, <1>2, WindowContexts, InsnsType, FetchedCodes
<1>4. PICK n \in Nat, one \in Nat : n = Len(window') /\ one = 1
  BY <1>2
<1>5. Alike(window, log, window', log, one, n)
  BY <1>2, <1>4 DEF Alike
<1>6. /\ Places(window, n + one) /\ Places(window', n) /\ Array(ras)
      /\ Held(window', log, ras, n) = Held(window, log, ras, n + one)
  <2>1. Places(window, n + one) /\ Places(window', n) /\ n + one = Len(window)
    BY <1>2, <1>4 DEF Places
  <2>2. Held(window, log, ras, Len(window)) = ras
    BY <1>2, <1>3, HeldIs
  <2>3. Held(window', log, ras, Len(window')) = ras
    BY <1>2, <1>3, HeldIs
  <2> QED
    BY <1>3, <1>4, <2>1, <2>2, <2>3
<1>7. \A j \in 0 .. n : Held(window', log, ras, j) = Held(window, log, ras, j + one)
  BY <1>5, <1>6, HeldSame
<1>8. \A k \in 0 .. n : Contexts(base', Insns')[k] = Contexts(base, Insns)[k + one]
  <2>1. Len(Insns) = Len(Insns') + 1 /\ \A k \in 1 .. Len(Insns') : Insns'[k] = Insns[k + 1]
    BY <1>2, <1>3
  <2>2. \A k \in 0 .. Len(Insns') : Contexts(After(base, Insns[1]), Insns')[k] = Contexts(base, Insns)[k + 1]
    BY <1>3, <2>1, ContextsTail
  <2> QED
    BY <1>2, <1>4, <2>2
<1>9. Path' = Path
  <2>1. n \in 0 .. n /\ Len(Insns) = n + one /\ Len(Insns') = n
    BY <1>2, <1>3, <1>4
  <2>2. Here' = Here
    BY <1>8, <2>1 DEF Here, Beyond
  <2>3. Path = Beyond(Beyond(Here, fetch2.insns), dropped)
    BY <1>1, PathIs
  <2>4. (Path = Beyond(Beyond(Here, fetch2.insns), dropped))'
    BY <1>1, PathPrimed
  <2> QED
    BY <1>1, <2>2, <2>3, <2>4
<1>10. Keeps(window, log, ras, Contexts(base, Insns)) => Keeps(window', log', ras', Contexts(base', Insns'))
  <2> SUFFICES ASSUME Keeps(window, log, ras, Contexts(base, Insns)), NEW j \in 0 .. n
               PROVE  Holds(Held(window', log, ras, j), Contexts(base', Insns')[j])
    BY <1>1, <1>4 DEF Keeps
  <2>1. j + one \in 0 .. Len(window)
    BY <1>2, <1>4
  <2>2. Holds(Held(window, log, ras, j + one), Contexts(base, Insns)[j + one])
    BY <2>1 DEF Keeps
  <2> QED
    BY <1>7, <1>8, <2>2
<1> QED
  BY <1>1, <1>9, <1>10 DEF RasKept

(* A complete squash: back to the oldest branch, and what is in front of   *)
(* that leaves the array alone.                                            *)
LEMMA FlushRas ==
  ASSUME IInv, IInv', RasKept, Flush
  PROVE  RasKept'
<1>1. TypeOK /\ TypeOK' /\ fetch2' = NoBundle /\ window' = <<>> /\ dropped' = <<>>
  BY Zenon DEF Flush, IInv
<1>2. fetch2'.insns = <<>> /\ ~fetch2'.valid /\ Len(window') = 0
  <2>1. fetch2'.insns = <<>> /\ ~fetch2'.valid
    BY <1>1, EmptyType
  <2> QED
    BY <1>1, <2>1
<1>3. Insns' = <<>> /\ Len(Insns') = 0 /\ Codes(Insns')
  <2>1. Insns' = [k \in DOMAIN window' |-> window'[k].insn]
    BY DEF Insns
  <2> QED
    BY <1>1, <2>1 DEF Codes
<1>4. base' \in InContext /\ Array(ras')
  BY <1>1 DEF TypeOK, InContext, Array
<1>5. Contexts(base', Insns')[0] = base'
  BY <1>3, <1>4, ContextsIs
<1>6. Path' = base'
  <2>1. /\ (dropped = <<>> => Path = Beyond(Here, fetch2.insns))'
        /\ (fetch2.insns = <<>> => Beyond(Here, fetch2.insns) = Here)'
    BY <1>1, PathPrimed
  <2> QED
    BY <1>1, <1>2, <1>3, <1>5, <2>1 DEF Here, Beyond
<1>7. Held(window', log', ras', 0) = ras'
  BY <1>2, <1>4, HeldIs
<1>8. ASSUME Recovery = "walk" PROVE Holds(ras', base')
  <2>1. CASE BqEmpty
    <3>1. ras' = ras /\ base' = Path
      BY <2>1, Zenon DEF Flush, bq
    <3> QED
      BY <1>8, <3>1 DEF RasKept
  <2>2. CASE ~BqEmpty
    <3>1. ras' = RasBefore(bq_head) /\ base' = base
      BY <2>2, Zenon DEF Flush
    <3>2. PICK k \in 1 .. Len(window) : /\ IsBranch(window[k].insn) /\ window[k].tag = bq_head
                                      /\ \A j \in 1 .. k - 1 : ~IsBranch(window[j].insn)
      BY <2>2, OldestIs
    <3>3. ras' = Held(window, log, ras, k - 1)
      BY <1>8, <3>1, <3>2, WalkIs
    <3>4. /\ Len(window) \in Nat /\ Array(ras) /\ Codes(Insns) /\ Len(Insns) = Len(window) /\ base \in InContext
          /\ \A j \in 1 .. Len(window) : Insns[j] = window[j].insn
      BY <1>1, WindowContexts, InsnsType
    <3>5. k - 1 \in Nat /\ k - 1 <= Len(Insns) /\ k - 1 \in 0 .. k - 1 /\ k - 1 \in 0 .. Len(window)
      BY <3>4
    <3>6. Contexts(base, Insns)[k - 1] = base
      <4>1. \A j \in 1 .. k - 1 : ~IsBranch(Insns[j])
        BY <3>2, <3>4
      <4> QED
        BY <3>4, <3>5, <4>1, ContextStays
    <3>7. Holds(Held(window, log, ras, k - 1), Contexts(base, Insns)[k - 1])
      BY <1>8, <3>5 DEF RasKept, Keeps
    <3> QED
      BY <3>1, <3>3, <3>6, <3>7
  <2> QED
    BY <2>1, <2>2
<1>9. Recovery = "walk" => Keeps(window', log', ras', Contexts(base', Insns'))
  <2>1. \A j \in 0 .. 0 : j = 0
    OBVIOUS
  <2> QED
    BY <1>2, <1>5, <1>7, <1>8, <2>1 DEF Keeps
<1> QED
  BY <1>2, <1>6, <1>8, <1>9 DEF RasKept

(* Undoing the log back to a branch leaves what stood in front of it, and  *)
(* a call finds its return address still in place: only the entry it was   *)
(* pushed on has been put back.                                            *)
LEMMA MispredictRas ==
  ASSUME IInv, IInv', RasKept, RasSize > 1, NEW i \in DOMAIN window, Mispredict(i)
  PROVE  RasKept'
<1>1. PICK x, T, right : x = window[i].insn /\ T = window[i].tag
                         /\ right = IF IsCond(x) THEN ~x.taken ELSE x.taken
  OBVIOUS
<1>2. /\ TypeOK /\ TypeOK' /\ IsBranch(x) /\ ras' = RasBefore(T) /\ base' = base
      /\ log' = [log EXCEPT ![T].taken = right] /\ fetch2' = NoBundle /\ dropped' = <<>>
  BY <1>1 DEF Mispredict, Unresolved, IInv
<1>3. /\ Len(window') = i /\ i \in 1 .. Len(window)
      /\ Insns' \in Seq(Fetched) /\ Len(Insns') = i
      /\ \A k \in 1 .. i : Insns'[k] = window'[k].insn
      /\ \A k \in 1 .. i - 1 : window'[k] = window[k] /\ Insns'[k] = Insns[k]
      /\ window'[i].tag = T
      /\ Insns'[i] = [x EXCEPT !.taken = right]
  BY <1>1, <1>2, MispredictIs
<1>4. /\ Len(window) \in Nat /\ Len(Insns) = Len(window) /\ Codes(Insns) /\ base \in InContext
      /\ x \in Fetched /\ T \in Slot /\ Insns[i] = x /\ Codes(Insns') /\ Array(ras) /\ Array(ras')
  <2>1. /\ Len(window) \in Nat /\ Len(Insns) = Len(window) /\ Codes(Insns) /\ base \in InContext /\ Array(ras)
        /\ window[i] \in InFlight /\ Insns[i] = window[i].insn
    BY <1>2, <1>3, InsnsType, WindowContexts
  <2>2. Array(ras')
    BY <1>2 DEF TypeOK, Array
  <2> QED
    BY <1>1, <1>3, <2>1, <2>2, FetchedCodes DEF InFlight
<1>5. fetch2'.insns = <<>> /\ ~fetch2'.valid
  BY <1>2, EmptyType
<1> SUFFICES ASSUME Recovery = "walk"
             PROVE  Keeps(window', log', ras', Contexts(base', Insns')) /\ Holds(ras', Path')
  BY <1>5 DEF RasKept
<1>6. PICK m \in Nat, zero \in Nat : m = i - 1 /\ i = m + 1 /\ m \in 0 .. Len(window) - 1 /\ zero = 0
                                     /\ m + zero = m /\ \A j \in 0 .. m : j + zero = j
  BY <1>3, <1>4
<1>7. \A t \in Slot : log'[t].tos = log[t].tos /\ log'[t].content = log[t].content
  <2>1. log \in [Slot -> Logged]
    BY <1>2 DEF TypeOK
  <2>2. log[T] \in Logged /\ log' = [log EXCEPT ![T] = [log[T] EXCEPT !.taken = right]]
    BY <1>2, <1>4, <2>1
  <2>3. PICK e : e = [log[T] EXCEPT !.taken = right]
    OBVIOUS
  <2>4. e.tos = log[T].tos /\ e.content = log[T].content
    BY <2>2, <2>3 DEF Logged
  <2>5. log' = [log EXCEPT ![T] = e]
    BY <2>2, <2>3
  <2> QED
    BY <1>4, <2>1, <2>4, <2>5
<1>8. ras' = Held(window, log, ras, m)
  BY <1>1, <1>2, <1>3, <1>6, WalkIs
<1>9. ras' = Undo(Held(window, log, ras, i), log[T])
  <2>1. Unwinds(window, log, ras, m)
    BY <1>4, <1>6, HeldIs
  <2> QED
    BY <1>1, <1>2, <1>6, <1>8, <2>1 DEF Unwinds
<1>10. IsBranch(Insns'[i]) /\ Insns'[i].kind = x.kind /\ Insns'[i].ra = x.ra /\ window'[i].insn = Insns'[i]
  <2>1. Insns'[i].kind = x.kind /\ Insns'[i].ra = x.ra
    BY <1>3, <1>4 DEF Fetched
  <2>2. i \in 1 .. i
    BY <1>3, <1>4
  <2> QED
    BY <1>2, <1>3, <2>1, <2>2 DEF IsBranch
<1>11. Held(window', log', ras', i) = ras' /\ Held(window', log', ras', m) = ras'
  <2>1. Held(window', log', ras', i) = ras' /\ Unwinds(window', log', ras', m)
    <3>1. Len(window') \in Nat /\ m \in 0 .. Len(window') - 1
      BY <1>3, <1>6
    <3> QED
      BY <1>3, <1>4, <3>1, HeldIs
  <2>2. Held(window', log', ras', m) = Undo(ras', log'[T])
    BY <1>3, <1>6, <1>10, <2>1 DEF Unwinds
  <2>3. Undo(ras', log'[T]) = Undo(ras', log[T])
    BY <1>4, <1>7 DEF Undo
  <2>4. PICK f, t, v : f = Held(window, log, ras, i) /\ t = log[T].tos /\ v = log[T].content
    OBVIOUS
  <2>5. ras' = [f EXCEPT ![t] = v]
    BY <1>9, <2>4 DEF Undo
  <2>6. Undo(ras', log[T]) = [ras' EXCEPT ![t] = v]
    BY <2>4 DEF Undo
  <2>7. [[f EXCEPT ![t] = v] EXCEPT ![t] = v] = [f EXCEPT ![t] = v]
    OBVIOUS
  <2> QED
    BY <2>1, <2>2, <2>3, <2>5, <2>6, <2>7
<1>12. \A j \in 0 .. m : Held(window', log', ras', j) = Held(window, log, ras, j)
  <2>1. Alike(window, log, window', log', zero, m)
    <3> SUFFICES ASSUME NEW k \in 1 .. m
                 PROVE  /\ IsBranch(window'[k].insn) <=> IsBranch(window[k + zero].insn)
                        /\ IsBranch(window'[k].insn) => /\ log'[window'[k].tag].tos = log[window[k + zero].tag].tos
                                                        /\ log'[window'[k].tag].content = log[window[k + zero].tag].content
      BY DEF Alike
    <3>1. k + zero = k /\ window'[k] = window[k] /\ k \in 1 .. Len(window)
      BY <1>3, <1>4, <1>6
    <3>2. window[k].tag \in Slot
      BY <1>2, <3>1, InsnsType DEF InFlight
    <3> QED
      BY <1>7, <3>1, <3>2
  <2>2. /\ Places(window, m + zero) /\ Places(window', m) /\ Array(ras) /\ Array(ras')
        /\ Held(window', log', ras', m) = Held(window, log, ras, m + zero)
    <3>1. m + zero = m /\ m <= Len(window) /\ m <= Len(window') /\ Len(window') \in Nat
      BY <1>3, <1>4, <1>6
    <3>2. Held(window, log, ras, m + zero) = ras'
      BY <1>8, <3>1
    <3> QED
      BY <1>4, <1>11, <3>1, <3>2 DEF Places
  <2>3. \A j \in 0 .. m : Held(window', log', ras', j) = Held(window, log, ras, j + zero)
    BY <2>1, <2>2, HeldSame
  <2> QED
    BY <1>6, <2>3
<1>13. PICK c \in InContext : c = Contexts(base, Insns)[m] /\ Contexts(base, Insns)[i] = After(c, x)
  <2>1. m \in 0 .. Len(window) /\ i \in 1 .. Len(window) /\ i - 1 = m
    BY <1>3, <1>6
  <2>2. Contexts(base, Insns)[m] \in InContext
    BY <1>2, <2>1, WindowContexts
  <2>3. Contexts(base, Insns)[i] = After(Contexts(base, Insns)[i - 1], window[i].insn)
    BY <1>2, <2>1, WindowContexts
  <2> QED
    BY <1>1, <2>1, <2>2, <2>3
<1>14. /\ \A k \in 0 .. m : Contexts(base', Insns')[k] = Contexts(base, Insns)[k]
       /\ Contexts(base', Insns')[i] = After(c, Insns'[i])
  <2>1. m <= Len(Insns) /\ m <= Len(Insns') /\ m \in 0 .. m /\ i \in 1 .. Len(Insns') /\ i - 1 = m
        /\ \A k \in 1 .. m : Insns'[k] = Insns[k]
    BY <1>3, <1>4, <1>6
  <2>2. \A k \in 0 .. m : Contexts(base, Insns')[k] = Contexts(base, Insns)[k]
    <3>1. /\ base \in InContext /\ Codes(Insns) /\ Codes(Insns') /\ m <= Len(Insns) /\ m <= Len(Insns')
          /\ \A k \in 1 .. m : Insns'[k] = Insns[k]
      BY <1>4, <2>1
    <3> QED
      BY <3>1, ContextsAgree
  <2>3. Contexts(base, Insns')[i] = After(Contexts(base, Insns')[i - 1], Insns'[i])
    BY <1>4, <2>1, ContextsIs
  <2> QED
    BY <1>2, <1>13, <2>1, <2>2, <2>3
<1>15. Path' = After(c, Insns'[i])
  <2>1. /\ (dropped = <<>> => Path = Beyond(Here, fetch2.insns))'
        /\ (fetch2.insns = <<>> => Beyond(Here, fetch2.insns) = Here)'
    BY <1>2, PathPrimed
  <2> QED
    BY <1>2, <1>3, <1>5, <1>14, <2>1 DEF Here, Beyond
<1>16. Keeps(window, log, ras, Contexts(base, Insns))
  BY DEF RasKept
<1>17. Holds(ras', c)
  <2>1. m \in 0 .. Len(window)
    BY <1>6
  <2> QED
    BY <1>8, <1>13, <1>16, <2>1 DEF Keeps
<1>18. Holds(ras', After(c, Insns'[i]))
  <2>1. CASE x.kind # "call"
    BY <1>10, <1>13, <1>17, <2>1, AfterHolds
  <2>2. CASE x.kind = "call"
    <3>1. PICK d : d = After(c, x) /\ d.tos = Up(c.tos) /\ d.stack = Append(c.stack, x.ra)
      BY <1>13, <2>2 DEF After, InContext
    <3>2. i \in 0 .. Len(window)
      BY <1>3, <1>4
    <3>3. Holds(Held(window, log, ras, i), d)
      BY <1>13, <1>16, <3>1, <3>2 DEF Keeps
    <3>4. /\ c.stack \in Seq(RetAddr \cup {0}) /\ c.tos \in Tos /\ Len(c.stack) \in Nat /\ RasSize \in Nat
          /\ Len(d.stack) = Len(c.stack) + 1 /\ d.stack[Len(d.stack)] = x.ra
      <4>1. c.stack \in Seq(RetAddr \cup {0}) /\ c.tos \in Tos /\ RasSize \in Nat
        BY <1>13, Sizes DEF InContext
      <4>2. PICK s \in Seq(RetAddr \cup {0}) : s = c.stack
        BY <4>1
      <4>3. PICK a : a = x.ra
        OBVIOUS
      <4>4. Len(s) \in Nat /\ Len(Append(s, a)) = Len(s) + 1 /\ Append(s, a)[Len(s) + 1] = a
        OBVIOUS
      <4> QED
        BY <3>1, <4>1, <4>2, <4>3, <4>4
    <3>5. Len(c.stack) < RasSize /\ 0 \in 0 .. Len(d.stack) - 1
      BY <3>3, <3>4 DEF Holds
    <3>6. d.tos \in Tos /\ Up(c.tos) # c.tos
      BY <3>1, <3>4, UpDown
    <3>7. Below(d.tos, 0) = d.tos
      <4>1. 0 \in 0 .. RasSize - 1
        BY <3>4
      <4> QED
        BY <3>6, <4>1, BelowIs
    <3>8. Held(window, log, ras, i)[Up(c.tos)] = x.ra
      <4>1. Held(window, log, ras, i)[Below(d.tos, 0)] = d.stack[Len(d.stack) - 0]
        BY <3>3, <3>5 DEF Holds
      <4> QED
        BY <3>1, <3>4, <3>7, <4>1
    <3>9. log[T].tos = c.tos
      <4>1. LogOf(window, Contexts(base, Insns), log)
        BY <1>2, LogForm DEF IInv
      <4>2. Recorded(window[i].insn, log[window[i].tag], Contexts(base, Insns)[i - 1])
        BY <1>1, <1>2, <1>3, <4>1 DEF LogOf
      <4> QED
        BY <1>1, <1>6, <1>13, <4>2 DEF Recorded
    <3>10. ras'[Up(c.tos)] = x.ra
      <4>1. PICK f, t, v : f = Held(window, log, ras, i) /\ t = log[T].tos /\ v = log[T].content
        OBVIOUS
      <4>2. ras' = [f EXCEPT ![t] = v]
        BY <1>9, <4>1 DEF Undo
      <4>3. Up(c.tos) \in DOMAIN f
        BY <3>1, <3>6, <4>1 DEF Held
      <4> QED
        BY <3>6, <3>8, <3>9, <4>1, <4>2, <4>3
    <3> QED
      BY <1>10, <1>13, <1>17, <2>2, <3>5, <3>10, CallHolds
  <2> QED
    BY <2>1, <2>2
<1>19. Keeps(window', log', ras', Contexts(base', Insns'))
  <2> SUFFICES ASSUME NEW j \in 0 .. i
               PROVE  Holds(Held(window', log', ras', j), Contexts(base', Insns')[j])
    BY <1>3 DEF Keeps
  <2>1. CASE j = i
    BY <1>11, <1>14, <1>18, <2>1
  <2>2. CASE j # i
    <3>1. j \in 0 .. m /\ j \in 0 .. Len(window)
      BY <1>3, <1>4, <1>6, <2>2
    <3> QED
      BY <1>12, <1>14, <1>16, <3>1 DEF Keeps
  <2> QED
    BY <2>1, <2>2
<1> QED
  BY <1>15, <1>18, <1>19

LEMMA InitRas ==
  ASSUME Init
  PROVE  RasKept
<1>1. IInv /\ TypeOK /\ window = <<>> /\ dropped = <<>> /\ fetch2 = NoBundle /\ base.stack = <<>>
  BY InitHolds DEF Init, IInv
<1>2. fetch2.insns = <<>> /\ ~fetch2.valid /\ Len(window) = 0 /\ Len(base.stack) = 0
  <2>1. fetch2.insns = <<>> /\ ~fetch2.valid
    BY <1>1, EmptyType
  <2> QED
    BY <1>1, <2>1
<1>3. /\ Array(ras) /\ Contexts(base, Insns)[0] = base /\ Contexts(base, Insns)[Len(window)] = Here
      /\ Path = Here
  BY <1>1, <1>2, WindowContexts, PathIs
<1>4. \A f : Holds(f, base)
  BY <1>2, Sizes DEF Holds
<1>5. \A j \in 0 .. 0 : j = 0
  OBVIOUS
<1>6. Keeps(window, log, ras, Contexts(base, Insns))
  BY <1>2, <1>3, <1>4, <1>5 DEF Keeps
<1> QED
  BY <1>2, <1>3, <1>4, <1>6 DEF RasKept

LEMMA StepRas ==
  ASSUME IInv, IInv', RasKept, RasSize > 1, [Next]_vars
  PROVE  RasKept'
<1>1. CASE Fetch1
  BY <1>1, Fetch1Ras
<1>2. CASE Fetch2Misfetch
  BY <1>2, MisfetchRas
<1>3. CASE Fetch2Stall
  BY <1>3, StallRas
<1>4. CASE Fetch2Advance
  BY <1>4, AdvanceRas
<1>5. ASSUME NEW i \in DOMAIN window, Resolve(i)
      PROVE  RasKept'
  BY <1>5, ResolveRas
<1>6. ASSUME NEW i \in DOMAIN window, Mispredict(i)
      PROVE  RasKept'
  BY <1>6, MispredictRas
<1>7. CASE Commit
  BY <1>7, CommitRas
<1>8. CASE Flush
  BY <1>8, FlushRas
<1>9. CASE UNCHANGED vars
  <2>1. UNCHANGED <<fetch2, ras, log, window, base, dropped>>
    BY <1>9 DEF vars
  <2>2. Insns' = Insns
    BY <2>1 DEF Insns
  <2>3. Path' = Path
    BY <2>1, <2>2 DEF Path
  <2> QED
    BY <2>1, <2>2, <2>3 DEF RasKept
<1> QED
  BY <1>1, <1>2, <1>3, <1>4, <1>5, <1>6, <1>7, <1>8, <1>9 DEF Next

-----------------------------------------------------------------------------
(* The theorems.                                                           *)

(* The invariant holds in every reachable state (fetchunit.cc, bq.cc,      *)
(* gshare.cc, ras.cc).                                                     *)
THEOREM Invariance == Spec => []IInv
<1>1. Init => IInv
  BY InitHolds
<1>2. IInv /\ [Next]_vars => IInv'
  BY StepKeeps
<1> QED
  BY <1>1, <1>2, PTL DEF Spec

(* The branch queue holds the branches in flight in program order: each    *)
(* branch stands at its pred_tag, and the phases tell full from empty      *)
(* (bq_t::push, pop, rollback, flush).                                     *)
THEOREM QueueStaysInOrder == Spec => []QueueInOrder
<1>1. IInv => QueueInOrder
  BY DEF IInv, QueueInOrder
<1> QED
  BY <1>1, Invariance, PTL

(* FETCH1 is idle only while an instruction in flight will restart it, and *)
(* nothing is fetched behind such an instruction (fetchunit_t::fetch2,     *)
(* mispredict, flush).                                                     *)
THEOREM IdleUntilRestarted == Spec => []FetchActiveExact
<1>1. IInv => FetchActiveExact
  BY DEF IInv
<1> QED
  BY <1>1, Invariance, PTL

(* The history and the top of the return address stack are those of the    *)
(* path in front of FETCH1, and every branch in flight finds in its log    *)
(* the context in front of it (gshare_t and ras_t, spec_update, log_branch, *)
(* mispredict, flush, restore_fetch2_context).                             *)
THEOREM ContextsAreExact == Spec => [](HistoryExact /\ LogExact)
<1>1. IInv => HistoryExact /\ LogExact
  BY DEF IInv
<1> QED
  BY <1>1, Invariance, PTL

(* With a return address stack of two entries or more, FETCH1's history    *)
(* and top of the stack, each branch's log entry and, with walk recovery,  *)
(* the stack itself are always those of the path in front of them; and a   *)
(* misfetched bundle finds the entry it started from as it left it         *)
(* (gshare_t and ras_t; the assertion of restore_fetch2_context).          *)
THEOREM StackIsExact == ASSUME RasSize > 1 PROVE Spec => []ContextExact
<1>1. IInv /\ RasKept => ContextExact
  <2> SUFFICES ASSUME IInv, RasKept PROVE RasExact
    BY DEF IInv, ContextExact
  <2>1. tos = Path.tos
    BY DEF IInv, HistoryExact
  <2>2. Recovery = "walk" => Holds(ras, Path)
    BY DEF RasKept
  <2>3. fetch2.valid => ras[fetch2.tos] = fetch2.content
    BY DEF RasKept
  <2> QED
    BY <2>1, <2>2, <2>3 DEF RasExact, Holds, Below
<1>2. Init => IInv /\ RasKept
  BY InitHolds, InitRas
<1>3. IInv /\ RasKept /\ [Next]_vars => IInv' /\ RasKept'
  BY StepKeeps, StepRas
<1> QED
  BY <1>1, <1>2, <1>3, PTL DEF Spec

(* The part of flush()'s promise that the code keeps: a squash that finds  *)
(* a branch in the queue restores the history and the top of the stack in  *)
(* front of the oldest instruction, even though that instruction need not  *)
(* be a branch (gshare_t::flush, ras_t::flush).                            *)
THEOREM SquashRestores ==
  Spec => [][Flush /\ ~BqEmpty => bhr' = base.bhr /\ tos' = base.tos]_vars
<1>1. IInv /\ [Next]_vars => [Flush /\ ~BqEmpty => bhr' = base.bhr /\ tos' = base.tos]_vars
  <2> SUFFICES ASSUME IInv, Flush, ~BqEmpty
               PROVE  bhr' = base.bhr /\ tos' = base.tos
    OBVIOUS
  <2>1. bhr' = log[bq_head].precise /\ tos' = log[bq_head].tos
    BY DEF Flush
  <2> QED
    BY <2>1, OldestBranch
<1> QED
  BY <1>1, Invariance, PTL DEF Spec
=============================================================================
