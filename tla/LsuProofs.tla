------------------------------ MODULE LsuProofs ------------------------------
(***************************************************************************)
(* Theorems about Lsu. The load queue and the store queue hold the loads   *)
(* and the stores of the window in program order, whatever is squashed;    *)
(* a load that ran before an older store to its bytes is marked once that  *)
(* store's address is known; and a load retires with what memory holds.    *)
(***************************************************************************)
EXTENDS Lsu, SequenceTheorems, Counting

-----------------------------------------------------------------------------
(* First a circular queue that holds the instructions of one kind of a     *)
(* window in order: what its pointers say, and what dispatch, a partial    *)
(* squash, retirement and a flush do to it. The load queue and the store   *)
(* queue of Lsu are two of them.                                           *)

(* A queue and the window w whose instructions it holds.                   *)

(* The instructions of a kind, and how many of the k oldest are.           *)
OfKind(w, kind) == {j \in Int : w[j].kind = kind}
NumOf(w, kind, k) == Count(OfKind(w, kind), k)

(* One queue holds the instructions of its kind: its length, its tail, its *)
(* valid bits, and the place each instruction of the window was given.     *)
Ring(w, kind, index, phase, valid, head, hph, tail, tph, length, n) ==
  /\ head \in 0 .. n - 1 /\ hph \in BOOLEAN
  /\ length = NumOf(w, kind, Len(w)) /\ length <= n
  /\ StandsAt(tail, tph, head, hph, length, n)
  /\ \A i \in 0 .. n - 1 : i \in valid <=> Within(i, head, length, n)
  /\ \A k \in 1 .. Len(w) : StandsAt(index[k], phase[k], head, hph, NumOf(w, kind, k - 1), n)

-----------------------------------------------------------------------------
(* Lemmas about one queue.                                                 *)

(* The slot k places behind the head is a slot, and k is how far it is.    *)
LEMMA Standing ==
  ASSUME NEW n \in Nat \ {0}, NEW h \in 0 .. n - 1, NEW hp \in BOOLEAN, NEW k \in 0 .. n,
         NEW i, NEW ph, StandsAt(i, ph, h, hp, k, n)
  PROVE  /\ i \in 0 .. n - 1 /\ ph \in BOOLEAN
         /\ k < n => (i - h) % n = k
         /\ i = (IF h + k < n THEN h + k ELSE h + k - n)
         /\ ph = (IF h + k < n THEN hp ELSE ~hp)
<1>0. i = (IF h + k < n THEN h + k ELSE h + k - n)
  BY Forward DEF StandsAt
<1>1. ph = (IF h + k < n THEN hp ELSE ~hp)
  <2>1. (h + k < n) <=> ~(h + k >= n)
    OBVIOUS
  <2> QED
    BY <2>1, Zenon DEF StandsAt
<1>2. i \in 0 .. n - 1
  BY <1>0
<1>5. ph \in BOOLEAN
  BY <1>1, Zenon
<1>3. (i - h) % n = IF h <= i THEN i - h ELSE i - h + n
  BY <1>2, Backward
<1>4. k < n => (i - h) % n = k
  BY <1>0, <1>3
<1> QED
  BY <1>0, <1>1, <1>2, <1>4, <1>5, Zenon

(* A pointer stands where it stands, and nowhere else.                     *)
LEMMA StandsUnique ==
  ASSUME NEW n \in Nat \ {0}, NEW h \in 0 .. n - 1, NEW hp \in BOOLEAN,
         NEW k \in 0 .. n, NEW i, NEW ph,
         i = (IF h + k < n THEN h + k ELSE h + k - n), ph = (IF h + k < n THEN hp ELSE ~hp)
  PROVE  StandsAt(i, ph, h, hp, k, n)
<1>1. i = (h + k) % n
  BY Forward
<1>2. (h + k < n) <=> ~(h + k >= n)
  OBVIOUS
<1> QED
  BY <1>1, <1>2, Zenon DEF StandsAt

(* Two places less than a round apart are different slots.                 *)
LEMMA StandsApart ==
  ASSUME NEW n \in Nat \ {0}, NEW h \in 0 .. n - 1, NEW hp \in BOOLEAN,
         NEW j \in 0 .. n - 1, NEW k \in 0 .. n - 1, NEW i, NEW ph, NEW qh,
         StandsAt(i, ph, h, hp, j, n), StandsAt(i, qh, h, hp, k, n)
  PROVE  j = k
<1>1. (i - h) % n = j
  BY Standing
<1>2. (i - h) % n = k
  BY Standing
<1> QED
  BY <1>1, <1>2

(* The tail moves by one slot, and its phase turns when it wraps.          *)
LEMMA TailMoves ==
  ASSUME NEW n \in Nat \ {0}, NEW h \in 0 .. n - 1, NEW hp \in BOOLEAN, NEW k \in 0 .. n - 1,
         NEW i, NEW ph, StandsAt(i, ph, h, hp, k, n)
  PROVE  StandsAt(Succ(i, n), Phase(i, ph, n), h, hp, k + 1, n)
<1>1. i \in 0 .. n - 1 /\ i = (IF h + k < n THEN h + k ELSE h + k - n)
      /\ ph = (IF h + k < n THEN hp ELSE ~hp)
  BY Standing
<1>2. Succ(i, n) = IF i + 1 < n THEN i + 1 ELSE i + 1 - n
  <2>1. 1 \in 0 .. n
    OBVIOUS
  <2> QED
    BY <1>1, <2>1, Forward DEF Succ
<1>3. Succ(i, n) = (IF h + (k + 1) < n THEN h + (k + 1) ELSE h + (k + 1) - n)
  BY <1>1, <1>2
<1>4. Phase(i, ph, n) = (IF h + (k + 1) < n THEN hp ELSE ~hp)
  BY <1>1, <1>2 DEF Phase
<1>5. k + 1 \in 0 .. n
  OBVIOUS
<1> QED
  BY <1>3, <1>4, <1>5, StandsUnique

(* When the head moves by one slot every place is one nearer to it.        *)
LEMMA HeadMoves ==
  ASSUME NEW n \in Nat \ {0}, NEW h \in 0 .. n - 1, NEW hp \in BOOLEAN, NEW k \in 1 .. n,
         NEW i, NEW ph, StandsAt(i, ph, h, hp, k, n)
  PROVE  /\ Succ(h, n) \in 0 .. n - 1 /\ Phase(h, hp, n) \in BOOLEAN
         /\ StandsAt(i, ph, Succ(h, n), Phase(h, hp, n), k - 1, n)
<1> DEFINE g == Succ(h, n)
           gp == Phase(h, hp, n)
<1>1. i \in 0 .. n - 1 /\ i = (IF h + k < n THEN h + k ELSE h + k - n)
      /\ ph = (IF h + k < n THEN hp ELSE ~hp)
  BY Standing
<1>2. g = IF h + 1 < n THEN h + 1 ELSE h + 1 - n
  <2>1. 1 \in 0 .. n
    OBVIOUS
  <2> QED
    BY <2>1, Forward DEF Succ
<1>3. gp = (IF h + 1 < n THEN hp ELSE ~hp)
  BY <1>2 DEF Phase
<1>4. g \in 0 .. n - 1 /\ gp \in BOOLEAN
  <2>1. g \in 0 .. n - 1
    BY <1>2
  <2>2. gp \in BOOLEAN
    BY <1>3, Zenon
  <2> QED
    BY <2>1, <2>2
<1>5. i = (IF g + (k - 1) < n THEN g + (k - 1) ELSE g + (k - 1) - n)
  BY <1>1, <1>2
<1>6. ph = (IF g + (k - 1) < n THEN gp ELSE ~gp)
  BY <1>1, <1>2, <1>3
<1>7. k - 1 \in 0 .. n
  OBVIOUS
<1> HIDE DEF g, gp
<1>8. StandsAt(i, ph, g, gp, k - 1, n)
  BY <1>4, <1>5, <1>6, <1>7, StandsUnique
<1> QED
  BY <1>4, <1>8 DEF g, gp

(* The length of a queue whose tail stands k places behind its head.       *)
LEMMA LengthIs ==
  ASSUME NEW n \in Nat \ {0}, NEW h \in 0 .. n - 1, NEW hp \in BOOLEAN, NEW k \in 0 .. n,
         NEW i, NEW ph, StandsAt(i, ph, h, hp, k, n)
  PROVE  LengthOf(h, hp, i, ph, n) = k
<1>1. i \in 0 .. n - 1 /\ i = (IF h + k < n THEN h + k ELSE h + k - n)
      /\ ph = (IF h + k < n THEN hp ELSE ~hp)
  BY Standing
<1>2. (n + i - h) % n = IF h <= i THEN i - h ELSE i - h + n
  BY <1>1
<1> QED
  BY <1>1, <1>2 DEF LengthOf

(* The slots of the first k places are those of as many entries.           *)
LEMMA WithinIs ==
  ASSUME NEW n \in Nat \ {0}, NEW h \in 0 .. n - 1, NEW i \in 0 .. n - 1, NEW k \in 0 .. n
  PROVE  Within(i, h, k, n) <=> (IF h <= i THEN i - h ELSE i - h + n) < k
BY Backward DEF Within

-----------------------------------------------------------------------------
(* Lemmas about how many instructions of a window are of a kind.           *)

(* The model's count is this one.                                          *)
LEMMA NumberIs ==
  ASSUME NEW kind, NEW k \in Nat
  PROVE  Number(kind, k) = NumOf(window, kind, k)
<1>1. {j \in 1 .. k : window[j].kind = kind} = {j \in 1 .. k : j \in OfKind(window, kind)}
  BY DEF OfKind
<1> QED
  BY <1>1 DEF Number, NumOf, Count

(* There are at most k in front of place k + 1.                            *)
LEMMA NumType ==
  ASSUME NEW w, NEW kind, NEW k \in Nat
  PROVE  NumOf(w, kind, k) \in 0 .. k /\ NumOf(w, kind, 0) = 0
BY CountType DEF NumOf

(* One more instruction counts if it is of the kind.                       *)
LEMMA NumStep ==
  ASSUME NEW w, NEW kind, NEW k \in Nat
  PROVE  NumOf(w, kind, k + 1) = NumOf(w, kind, k) + (IF w[k + 1].kind = kind THEN 1 ELSE 0)
<1>1. k + 1 \in OfKind(w, kind) <=> w[k + 1].kind = kind
  BY DEF OfKind
<1> QED
  BY <1>1, CountStep DEF NumOf

(* The same, seen from the last instruction.                               *)
LEMMA NumLast ==
  ASSUME NEW w, NEW kind, NEW k \in Nat \ {0}
  PROVE  NumOf(w, kind, k) = NumOf(w, kind, k - 1) + (IF w[k].kind = kind THEN 1 ELSE 0)
<1>1. k - 1 \in Nat /\ (k - 1) + 1 = k
  OBVIOUS
<1> HIDE DEF NumOf
<1> QED
  BY <1>1, NumStep

(* The count grows with the place, past an instruction of the kind by one  *)
(* at least.                                                               *)
LEMMA NumGrows ==
  ASSUME NEW w, NEW kind, NEW j \in Nat, NEW k \in Nat, j <= k
  PROVE  /\ NumOf(w, kind, j) <= NumOf(w, kind, k)
         /\ j >= 1 /\ w[j].kind = kind => NumOf(w, kind, j - 1) < NumOf(w, kind, k)
<1>1. NumOf(w, kind, j) <= NumOf(w, kind, k)
  BY CountMono DEF NumOf
<1>2. ASSUME j >= 1, w[j].kind = kind PROVE NumOf(w, kind, j - 1) < NumOf(w, kind, k)
  <2>1. NumOf(w, kind, j) = NumOf(w, kind, j - 1) + 1
    BY <1>2, NumLast
  <2>2. j - 1 \in Nat
    BY <1>2
  <2>3. NumOf(w, kind, j) \in Nat /\ NumOf(w, kind, k) \in Nat /\ NumOf(w, kind, j - 1) \in Nat
    BY <2>2, NumType
  <2> QED
    BY <1>1, <2>1, <2>3
<1> QED
  BY <1>1, <1>2

(* Windows of the same kinds count the same.                               *)
LEMMA NumAgree ==
  ASSUME NEW v, NEW w, NEW kind, NEW k \in Nat, \A j \in 1 .. k : v[j].kind = w[j].kind
  PROVE  NumOf(v, kind, k) = NumOf(w, kind, k)
<1>1. \A j \in 1 .. k : j \in OfKind(v, kind) <=> j \in OfKind(w, kind)
  BY DEF OfKind
<1> QED
  BY <1>1, CountAgree DEF NumOf

(* A window that loses its oldest instruction counts it no longer.         *)
LEMMA NumShift ==
  ASSUME NEW v, NEW w, NEW kind, NEW k \in Nat, \A j \in 1 .. k : v[j].kind = w[j + 1].kind
  PROVE  NumOf(v, kind, k) = NumOf(w, kind, k + 1) - (IF w[1].kind = kind THEN 1 ELSE 0)
<1>1. \A j \in 1 .. k : j \in OfKind(v, kind) <=> j + 1 \in OfKind(w, kind)
  BY DEF OfKind
<1>2. 1 \in OfKind(w, kind) <=> w[1].kind = kind
  BY DEF OfKind
<1> QED
  BY <1>1, <1>2, CountShift DEF NumOf

(* Every number below the count is that of an instruction of the kind.     *)
LEMMA NumReached ==
  ASSUME NEW w, NEW kind, NEW l \in Nat, NEW m \in 0 .. NumOf(w, kind, l) - 1
  PROVE  \E k \in 1 .. l : w[k].kind = kind /\ NumOf(w, kind, k - 1) = m
<1> DEFINE S == {j \in 1 .. l : j \in OfKind(w, kind)}
<1>1. S \in SUBSET Int /\ IsFiniteSet(S) /\ Cardinality(S) = NumOf(w, kind, l)
  <2>1. S \in SUBSET Int
    OBVIOUS
  <2>2. IsFiniteSet(S)
    BY CountType
  <2>3. Cardinality(S) = NumOf(w, kind, l)
    BY DEF NumOf, Count
  <2> QED
    BY <2>1, <2>2, <2>3
<1>2. PICK k \in S : Rank(S, k) = m
  <2> HIDE DEF S
  <2> QED
    BY <1>1, RankExists
<1>3. {q \in S : q < k} = {j \in 1 .. k - 1 : j \in OfKind(w, kind)}
  OBVIOUS
<1>4. NumOf(w, kind, k - 1) = m
  BY <1>2, <1>3 DEF Rank, NumOf, Count
<1>5. w[k].kind = kind
  BY DEF OfKind
<1> QED
  BY <1>4, <1>5

-----------------------------------------------------------------------------
(* Lemmas about a ring that holds the instructions of its kind.            *)

(* Every instruction's place is a slot, and an instruction of the kind has *)
(* a slot of its own among the valid ones.                                 *)
LEMMA RingPlaces ==
  ASSUME NEW n \in Nat \ {0}, NEW w, Len(w) \in Nat, NEW kind, NEW index, NEW phase, NEW valid,
         NEW h, NEW hp, NEW t, NEW tp, NEW len,
         Ring(w, kind, index, phase, valid, h, hp, t, tp, len, n),
         NEW k \in 1 .. Len(w)
  PROVE  /\ NumOf(w, kind, k - 1) \in 0 .. len /\ len \in 0 .. n
         /\ index[k] \in 0 .. n - 1 /\ phase[k] \in BOOLEAN
         /\ StandsAt(index[k], phase[k], h, hp, NumOf(w, kind, k - 1), n)
         /\ w[k].kind = kind => NumOf(w, kind, k - 1) < len /\ index[k] \in valid
<1>1. len \in 0 .. n /\ len = NumOf(w, kind, Len(w))
  BY NumType DEF Ring
<1>2. NumOf(w, kind, k - 1) \in 0 .. len
  <2>1. k - 1 \in Nat /\ k - 1 <= Len(w)
    OBVIOUS
  <2>2. NumOf(w, kind, k - 1) \in Nat
    BY <2>1, NumType
  <2> QED
    BY <1>1, <2>1, <2>2, NumGrows
<1>3. /\ h \in 0 .. n - 1 /\ hp \in BOOLEAN
      /\ StandsAt(index[k], phase[k], h, hp, NumOf(w, kind, k - 1), n)
  BY DEF Ring
<1>4. NumOf(w, kind, k - 1) \in 0 .. n
  BY <1>1, <1>2
<1>5. index[k] \in 0 .. n - 1 /\ phase[k] \in BOOLEAN
  BY <1>3, <1>4, Standing
<1>6. ASSUME w[k].kind = kind PROVE NumOf(w, kind, k - 1) < len /\ index[k] \in valid
  <2>1. NumOf(w, kind, k - 1) < len
    BY <1>1, <1>6, NumGrows
  <2>2. (index[k] - h) % n = NumOf(w, kind, k - 1)
    <3>1. NumOf(w, kind, k - 1) < n
      BY <1>1, <1>4, <2>1
    <3> QED
      BY <1>3, <1>4, <3>1, Standing
  <2>3. Within(index[k], h, len, n)
    BY <2>1, <2>2 DEF Within
  <2> QED
    BY <2>1, <2>3, <1>5 DEF Ring
<1> QED
  BY <1>1, <1>2, <1>3, <1>5, <1>6

(* No two instructions of the kind share a slot.                           *)
LEMMA RingInjective ==
  ASSUME NEW n \in Nat \ {0}, NEW w, Len(w) \in Nat, NEW kind, NEW index, NEW phase, NEW valid,
         NEW h, NEW hp, NEW t, NEW tp, NEW len,
         Ring(w, kind, index, phase, valid, h, hp, t, tp, len, n),
         NEW j \in 1 .. Len(w), NEW k \in 1 .. Len(w),
         w[j].kind = kind, w[k].kind = kind, index[j] = index[k]
  PROVE  j = k
<1>1. h \in 0 .. n - 1 /\ hp \in BOOLEAN
  BY DEF Ring
<1>2. /\ NumOf(w, kind, j - 1) \in 0 .. n - 1
      /\ StandsAt(index[j], phase[j], h, hp, NumOf(w, kind, j - 1), n)
  <2>1. NumOf(w, kind, j - 1) \in 0 .. len /\ len \in 0 .. n /\ NumOf(w, kind, j - 1) < len
        /\ StandsAt(index[j], phase[j], h, hp, NumOf(w, kind, j - 1), n)
    BY RingPlaces
  <2> QED
    BY <2>1
<1>3. /\ NumOf(w, kind, k - 1) \in 0 .. n - 1
      /\ StandsAt(index[k], phase[k], h, hp, NumOf(w, kind, k - 1), n)
  <2>1. NumOf(w, kind, k - 1) \in 0 .. len /\ len \in 0 .. n /\ NumOf(w, kind, k - 1) < len
        /\ StandsAt(index[k], phase[k], h, hp, NumOf(w, kind, k - 1), n)
    BY RingPlaces
  <2> QED
    BY <2>1
<1>4. NumOf(w, kind, j - 1) = NumOf(w, kind, k - 1)
  BY <1>1, <1>2, <1>3, StandsApart
<1>5. ASSUME NEW a \in 1 .. Len(w), NEW b \in 1 .. Len(w), a < b, w[a].kind = kind
      PROVE  NumOf(w, kind, a - 1) < NumOf(w, kind, b - 1)
  <2>1. a <= b - 1 /\ a \in Nat /\ b - 1 \in Nat /\ a >= 1
    BY <1>5
  <2> QED
    BY <2>1, <1>5, NumGrows
<1>6. NumOf(w, kind, j - 1) \in Int /\ NumOf(w, kind, k - 1) \in Int
  BY <1>2, <1>3
<1>7. ~(j < k)
  BY <1>4, <1>5, <1>6
<1>8. ~(k < j)
  BY <1>4, <1>5, <1>6
<1> QED
  BY <1>7, <1>8

(* The instruction of the kind that is m places behind the head.           *)
LEMMA RingHolds ==
  ASSUME NEW n \in Nat \ {0}, NEW w, Len(w) \in Nat, NEW kind, NEW index, NEW phase, NEW valid,
         NEW h, NEW hp, NEW t, NEW tp, NEW len,
         Ring(w, kind, index, phase, valid, h, hp, t, tp, len, n),
         NEW m \in 0 .. len - 1
  PROVE  \E k \in 1 .. Len(w) : /\ w[k].kind = kind /\ NumOf(w, kind, k - 1) = m
                                /\ index[k] = (h + m) % n
<1>1. len = NumOf(w, kind, Len(w))
  BY DEF Ring
<1>2. PICK k \in 1 .. Len(w) : w[k].kind = kind /\ NumOf(w, kind, k - 1) = m
  BY <1>1, NumReached
<1>3. index[k] = (h + m) % n
  BY <1>2 DEF Ring, StandsAt
<1> QED
  BY <1>2, <1>3

(* Each valid slot is some instruction's.                                  *)
LEMMA RingOwner ==
  ASSUME NEW n \in Nat \ {0}, NEW w, Len(w) \in Nat, NEW kind, NEW index, NEW phase, NEW valid,
         NEW h, NEW hp, NEW t, NEW tp, NEW len,
         Ring(w, kind, index, phase, valid, h, hp, t, tp, len, n),
         NEW i \in 0 .. n - 1, i \in valid
  PROVE  \E k \in 1 .. Len(w) : w[k].kind = kind /\ index[k] = i
<1> DEFINE m == IF h <= i THEN i - h ELSE i - h + n
<1>1. h \in 0 .. n - 1 /\ len \in 0 .. n
  BY NumType DEF Ring
<1>2. m \in 0 .. len - 1
  <2>1. Within(i, h, len, n)
    BY DEF Ring
  <2> QED
    BY <1>1, <2>1, WithinIs
<1>3. (h + m) % n = i
  <2>1. m \in 0 .. n
    BY <1>1
  <2>2. (IF h + m < n THEN h + m ELSE h + m - n) = i
    BY <1>1
  <2> HIDE DEF m
  <2>3. (h + m) % n = IF h + m < n THEN h + m ELSE h + m - n
    BY <1>1, <2>1, Forward
  <2> QED
    BY <2>2, <2>3
<1> HIDE DEF m
<1>4. \E k \in 1 .. Len(w) : /\ w[k].kind = kind /\ NumOf(w, kind, k - 1) = m
                               /\ index[k] = (h + m) % n
  BY <1>2, RingHolds
<1> QED
  BY <1>3, <1>4

-----------------------------------------------------------------------------
(* What the operations do to a ring.                                       *)

(* A window of the same instructions at the same places.                   *)
LEMMA RingAlike ==
  ASSUME NEW n \in Nat \ {0}, NEW v, NEW w, Len(w) \in Nat, Len(v) = Len(w), NEW kind,
         NEW index, NEW phase, NEW jndex, NEW qhase, NEW valid,
         NEW h, NEW hp, NEW t, NEW tp, NEW len,
         Ring(w, kind, index, phase, valid, h, hp, t, tp, len, n),
         \A k \in 1 .. Len(w) : /\ v[k].kind = w[k].kind
                                /\ jndex[k] = index[k] /\ qhase[k] = phase[k]
  PROVE  Ring(v, kind, jndex, qhase, valid, h, hp, t, tp, len, n)
<1>1. \A k \in 0 .. Len(w) : NumOf(v, kind, k) = NumOf(w, kind, k)
  BY NumAgree
<1>2. /\ h \in 0 .. n - 1 /\ hp \in BOOLEAN
      /\ len = NumOf(v, kind, Len(v)) /\ len <= n
      /\ StandsAt(t, tp, h, hp, len, n)
      /\ \A i \in 0 .. n - 1 : i \in valid <=> Within(i, h, len, n)
  BY <1>1 DEF Ring
<1>3. \A k \in 1 .. Len(v) : StandsAt(jndex[k], qhase[k], h, hp, NumOf(v, kind, k - 1), n)
  <2> SUFFICES ASSUME NEW k \in 1 .. Len(v)
               PROVE  StandsAt(jndex[k], qhase[k], h, hp, NumOf(v, kind, k - 1), n)
    OBVIOUS
  <2>1. StandsAt(index[k], phase[k], h, hp, NumOf(w, kind, k - 1), n)
    BY DEF Ring
  <2>2. NumOf(v, kind, k - 1) = NumOf(w, kind, k - 1)
    BY <1>1
  <2> QED
    BY <2>1, <2>2
<1> QED
  BY <1>2, <1>3 DEF Ring

(* Window v is w with one more instruction, which stands at (t, tp).       *)
Joins(v, w, jndex, index, qhase, phase, t, tp) ==
  /\ Len(w) \in Nat /\ Len(v) = Len(w) + 1
  /\ \A k \in 1 .. Len(w) : v[k].kind = w[k].kind /\ jndex[k] = index[k] /\ qhase[k] = phase[k]
  /\ jndex[Len(v)] = t /\ qhase[Len(v)] = tp

(* Dispatch: the new instruction takes the tail's place.                   *)
LEMMA TailPlace ==
  ASSUME NEW n \in Nat \ {0}, NEW v, NEW w, NEW kind,
         NEW index, NEW phase, NEW jndex, NEW qhase, NEW valid,
         NEW h, NEW hp, NEW t, NEW tp, NEW len,
         Ring(w, kind, index, phase, valid, h, hp, t, tp, len, n),
         Joins(v, w, jndex, index, qhase, phase, t, tp)
  PROVE  /\ h \in 0 .. n - 1 /\ hp \in BOOLEAN /\ len \in 0 .. n
         /\ StandsAt(t, tp, h, hp, len, n)
         /\ NumOf(v, kind, Len(v)) = len + (IF v[Len(v)].kind = kind THEN 1 ELSE 0)
         /\ \A k \in 1 .. Len(v) : StandsAt(jndex[k], qhase[k], h, hp, NumOf(v, kind, k - 1), n)
<1>9. /\ Len(w) \in Nat /\ Len(v) = Len(w) + 1
      /\ \A k \in 1 .. Len(w) : v[k].kind = w[k].kind /\ jndex[k] = index[k] /\ qhase[k] = phase[k]
      /\ jndex[Len(v)] = t /\ qhase[Len(v)] = tp
  BY DEF Joins
<1>0. /\ h \in 0 .. n - 1 /\ hp \in BOOLEAN /\ len \in 0 .. n
      /\ len = NumOf(w, kind, Len(w))
      /\ StandsAt(t, tp, h, hp, len, n)
      /\ \A i \in 0 .. n - 1 : i \in valid <=> Within(i, h, len, n)
  BY <1>9, NumType DEF Ring
<1>1. \A k \in 0 .. Len(w) : NumOf(v, kind, k) = NumOf(w, kind, k)
  BY <1>9, NumAgree
<1>2. NumOf(v, kind, Len(v)) = len + (IF v[Len(v)].kind = kind THEN 1 ELSE 0)
  <2>1. NumOf(v, kind, Len(w)) = len
    BY <1>0, <1>1, <1>9
  <2> QED
    BY <1>9, <2>1, NumStep
<1>3. \A k \in 1 .. Len(v) : StandsAt(jndex[k], qhase[k], h, hp, NumOf(v, kind, k - 1), n)
  <2> SUFFICES ASSUME NEW k \in 1 .. Len(v)
               PROVE  StandsAt(jndex[k], qhase[k], h, hp, NumOf(v, kind, k - 1), n)
    OBVIOUS
  <2>1. NumOf(v, kind, k - 1) = NumOf(w, kind, k - 1)
    BY <1>1, <1>9
  <2>2. CASE k \in 1 .. Len(w)
    <3>1. StandsAt(index[k], phase[k], h, hp, NumOf(w, kind, k - 1), n)
      BY <1>9, <2>2 DEF Ring
    <3> QED
      BY <1>9, <2>1, <2>2, <3>1
  <2>3. CASE k = Len(v)
    <3>1. NumOf(v, kind, k - 1) = len
      BY <1>0, <1>9, <2>1, <2>3
    <3> QED
      BY <1>0, <1>9, <2>3, <3>1
  <2> QED
    BY <1>9, <2>2, <2>3
<1> QED
  BY <1>0, <1>2, <1>3

(* It takes nothing else if it is not of the kind.                         *)
LEMMA RingPasses ==
  ASSUME NEW n \in Nat \ {0}, NEW v, NEW w, NEW kind,
         NEW index, NEW phase, NEW jndex, NEW qhase, NEW valid,
         NEW h, NEW hp, NEW t, NEW tp, NEW len,
         Ring(w, kind, index, phase, valid, h, hp, t, tp, len, n),
         Joins(v, w, jndex, index, qhase, phase, t, tp),
         v[Len(v)].kind # kind
  PROVE  Ring(v, kind, jndex, qhase, valid, h, hp, t, tp, len, n)
<1>1. /\ h \in 0 .. n - 1 /\ hp \in BOOLEAN /\ len \in 0 .. n
      /\ StandsAt(t, tp, h, hp, len, n)
      /\ NumOf(v, kind, Len(v)) = len
      /\ \A k \in 1 .. Len(v) : StandsAt(jndex[k], qhase[k], h, hp, NumOf(v, kind, k - 1), n)
  BY TailPlace
<1>2. \A i \in 0 .. n - 1 : i \in valid <=> Within(i, h, len, n)
  BY DEF Ring
<1> QED
  BY <1>1, <1>2 DEF Ring

(* If it is, it takes the slot.                                            *)
LEMMA RingGrows ==
  ASSUME NEW n \in Nat \ {0}, NEW v, NEW w, NEW kind,
         NEW index, NEW phase, NEW jndex, NEW qhase, NEW valid,
         NEW h, NEW hp, NEW t, NEW tp, NEW len,
         Ring(w, kind, index, phase, valid, h, hp, t, tp, len, n),
         Joins(v, w, jndex, index, qhase, phase, t, tp),
         v[Len(v)].kind = kind, len < n, NEW walid, walid = valid \cup {t},
         NEW u, u = Succ(t, n), NEW up, up = Phase(t, tp, n), NEW len2, len2 = len + 1
  PROVE  Ring(v, kind, jndex, qhase, walid, h, hp, u, up, len2, n)
<1>0. /\ h \in 0 .. n - 1 /\ hp \in BOOLEAN /\ len \in 0 .. n
      /\ StandsAt(t, tp, h, hp, len, n)
      /\ NumOf(v, kind, Len(v)) = len + 1
      /\ \A k \in 1 .. Len(v) : StandsAt(jndex[k], qhase[k], h, hp, NumOf(v, kind, k - 1), n)
      /\ \A i \in 0 .. n - 1 : i \in valid <=> Within(i, h, len, n)
  <2>1. \A i \in 0 .. n - 1 : i \in valid <=> Within(i, h, len, n)
    BY DEF Ring
  <2> QED
    BY <2>1, TailPlace
<1>1. StandsAt(Succ(t, n), Phase(t, tp, n), h, hp, len + 1, n)
  <2>1. len \in 0 .. n - 1
    BY <1>0
  <2> QED
    BY <1>0, <2>1, TailMoves
<1>2. \A i \in 0 .. n - 1 : i \in walid <=> Within(i, h, len + 1, n)
  <2> SUFFICES ASSUME NEW i \in 0 .. n - 1 PROVE i \in walid <=> Within(i, h, len + 1, n)
    OBVIOUS
  <2>1. t = (IF h + len < n THEN h + len ELSE h + len - n)
    BY <1>0, Standing
  <2>2. Within(i, h, len, n) <=> (IF h <= i THEN i - h ELSE i - h + n) < len
    BY <1>0, WithinIs
  <2>3. Within(i, h, len + 1, n) <=> (IF h <= i THEN i - h ELSE i - h + n) < len + 1
    <3>1. len + 1 \in 0 .. n
      BY <1>0
    <3> QED
      BY <1>0, <3>1, WithinIs
  <2>4. (IF h <= i THEN i - h ELSE i - h + n) = len <=> i = t
    <3>1. h \in 0 .. n - 1 /\ len \in 0 .. n - 1
      BY <1>0
    <3>2. t \in 0 .. n - 1
      BY <2>1, <3>1
    <3>3. (IF h <= i THEN i - h ELSE i - h + n) = len <=> i = (IF h + len < n THEN h + len ELSE h + len - n)
      BY <3>1
    <3> QED
      BY <2>1, <3>3
  <2>5. Within(i, h, len + 1, n) <=> Within(i, h, len, n) \/ i = t
    BY <1>0, <2>2, <2>3, <2>4
  <2> QED
    BY <1>0, <2>5
<1>3. len + 1 = NumOf(v, kind, Len(v)) /\ len + 1 <= n
  BY <1>0
<1> QED
  BY <1>0, <1>1, <1>2, <1>3 DEF Ring

(* Window v is what is left of w behind the place (u, up) of its youngest  *)
(* instruction; one set of slots lies in another; a set of slots is that   *)
(* of the l places from the head.                                          *)
Cuts(v, w, jndex, index, qhase, phase, u, up) ==
  /\ Len(w) \in Nat /\ Len(v) \in 1 .. Len(w)
  /\ u = index[Len(v)] /\ up = phase[Len(v)]
  /\ \A k \in 1 .. Len(v) : v[k].kind = w[k].kind /\ jndex[k] = index[k] /\ qhase[k] = phase[k]
Among(valid, walid, n) == \A i \in 0 .. n - 1 : i \in valid => i \in walid
Fills(valid, h, l, n) == \A i \in 0 .. n - 1 : i \in valid <=> Within(i, h, l, n)

(* A partial squash: the tail goes back to the place of the youngest one   *)
(* left, which is not of the kind itself.                                  *)
LEMMA RingCut ==
  ASSUME NEW n \in Nat \ {0}, NEW v, NEW w, NEW kind,
         NEW index, NEW phase, NEW jndex, NEW qhase, NEW valid, NEW walid,
         NEW h, NEW hp, NEW t, NEW tp, NEW len,
         Ring(w, kind, index, phase, valid, h, hp, t, tp, len, n),
         NEW u, NEW up, Cuts(v, w, jndex, index, qhase, phase, u, up),
         w[Len(v)].kind # kind,
         NEW len2, len2 = LengthOf(h, hp, u, up, n), Fills(walid, h, len2, n)
  PROVE  /\ Ring(v, kind, jndex, qhase, walid, h, hp, u, up, len2, n)
         /\ len2 \in 0 .. n
         /\ u \in 0 .. n - 1 /\ up \in BOOLEAN
         /\ Among(walid, valid, n)
<1>9. /\ Len(w) \in Nat /\ Len(v) \in 1 .. Len(w)
      /\ u = index[Len(v)] /\ up = phase[Len(v)]
      /\ \A k \in 1 .. Len(v) : v[k].kind = w[k].kind /\ jndex[k] = index[k] /\ qhase[k] = phase[k]
      /\ \A i \in 0 .. n - 1 : i \in walid <=> Within(i, h, len2, n)
  BY DEF Cuts, Fills
<1> DEFINE l == Len(v)
           m == NumOf(w, kind, l - 1)
<1>0. l \in 1 .. Len(w)
  BY <1>9
<1>1. /\ m \in 0 .. len /\ len \in 0 .. n
      /\ StandsAt(u, up, h, hp, m, n) /\ u \in 0 .. n - 1 /\ up \in BOOLEAN
  BY <1>0, <1>9, RingPlaces
<1>2. h \in 0 .. n - 1 /\ hp \in BOOLEAN
      /\ \A i \in 0 .. n - 1 : i \in valid <=> Within(i, h, len, n)
  BY DEF Ring
<1>3. len2 = m
  <2>1. m \in 0 .. n
    BY <1>1
  <2> HIDE DEF m
  <2> QED
    BY <1>1, <1>2, <2>1, LengthIs
<1>4. \A k \in 0 .. l : NumOf(v, kind, k) = NumOf(w, kind, k)
  BY <1>9, NumAgree
<1>5. NumOf(v, kind, l) = m
  <2>1. NumOf(w, kind, l) = m + (IF w[l].kind = kind THEN 1 ELSE 0)
    BY <1>0, NumLast
  <2> HIDE DEF m
  <2> QED
    BY <1>1, <1>4, <2>1
<1>6. \A k \in 1 .. l : StandsAt(jndex[k], qhase[k], h, hp, NumOf(v, kind, k - 1), n)
  <2> SUFFICES ASSUME NEW k \in 1 .. l
               PROVE  StandsAt(jndex[k], qhase[k], h, hp, NumOf(v, kind, k - 1), n)
    OBVIOUS
  <2>1. StandsAt(index[k], phase[k], h, hp, NumOf(w, kind, k - 1), n)
    BY <1>9 DEF Ring
  <2>2. NumOf(v, kind, k - 1) = NumOf(w, kind, k - 1)
    BY <1>4, <1>9
  <2> QED
    BY <1>9, <2>1, <2>2
<1>7. ASSUME NEW i \in 0 .. n - 1, i \in walid PROVE i \in valid
  <2>1. Within(i, h, m, n) /\ m <= len
    BY <1>1, <1>3, <1>7, <1>9
  <2>2. Within(i, h, len, n)
    <3>1. (i - h) % n \in Int
      BY <1>2
    <3> QED
      BY <1>1, <2>1, <3>1 DEF Within
  <2> QED
    BY <1>2, <2>2
<1> HIDE DEF m
<1>8. Ring(v, kind, jndex, qhase, walid, h, hp, u, up, len2, n)
  <2>1. len2 = NumOf(v, kind, Len(v)) /\ len2 <= n
    BY <1>1, <1>3, <1>5
  <2>2. StandsAt(u, up, h, hp, len2, n)
    BY <1>1, <1>3
  <2> QED
    BY <1>2, <1>6, <1>9, <2>1, <2>2 DEF Ring
<1>10. len2 \in 0 .. n
  BY <1>1, <1>3
<1> QED
  BY <1>1, <1>7, <1>8, <1>10 DEF Among

(* Window v is w without its oldest instruction.                           *)
Leaves(v, w, jndex, index, qhase, phase) ==
  /\ Len(w) \in Nat \ {0} /\ Len(v) = Len(w) - 1
  /\ \A k \in 1 .. Len(v) :
       v[k].kind = w[k + 1].kind /\ jndex[k] = index[k + 1] /\ qhase[k] = phase[k + 1]

(* Retirement: the others stay where they are.                             *)
LEMMA HeadLeaves ==
  ASSUME NEW n \in Nat \ {0}, NEW v, NEW w, NEW kind,
         NEW index, NEW phase, NEW jndex, NEW qhase, NEW valid,
         NEW h, NEW hp, NEW t, NEW tp, NEW len,
         Ring(w, kind, index, phase, valid, h, hp, t, tp, len, n),
         Leaves(v, w, jndex, index, qhase, phase)
  PROVE  /\ h \in 0 .. n - 1 /\ hp \in BOOLEAN /\ len \in 0 .. n
         /\ StandsAt(t, tp, h, hp, len, n)
         /\ \A i \in 0 .. n - 1 : i \in valid <=> Within(i, h, len, n)
         /\ NumOf(v, kind, Len(v)) = len - (IF w[1].kind = kind THEN 1 ELSE 0)
         /\ \A k \in 1 .. Len(v) : /\ StandsAt(jndex[k], qhase[k], h, hp, NumOf(w, kind, k), n)
                                   /\ NumOf(v, kind, k - 1) = NumOf(w, kind, k) - (IF w[1].kind = kind THEN 1 ELSE 0)
                                   /\ NumOf(w, kind, k) \in (IF w[1].kind = kind THEN 1 ELSE 0) .. n
<1> DEFINE one == IF w[1].kind = kind THEN 1 ELSE 0
<1>9. /\ Len(w) \in Nat \ {0} /\ Len(v) = Len(w) - 1
      /\ \A k \in 1 .. Len(v) : v[k].kind = w[k + 1].kind /\ jndex[k] = index[k + 1] /\ qhase[k] = phase[k + 1]
  BY DEF Leaves
<1>0. /\ h \in 0 .. n - 1 /\ hp \in BOOLEAN /\ len \in 0 .. n
      /\ len = NumOf(w, kind, Len(w))
      /\ StandsAt(t, tp, h, hp, len, n)
      /\ \A i \in 0 .. n - 1 : i \in valid <=> Within(i, h, len, n)
  BY <1>9, NumType DEF Ring
<1>1. \A k \in 0 .. Len(v) : NumOf(v, kind, k) = NumOf(w, kind, k + 1) - one
  <2> SUFFICES ASSUME NEW k \in 0 .. Len(v)
               PROVE  NumOf(v, kind, k) = NumOf(w, kind, k + 1) - one
    OBVIOUS
  <2>1. k \in Nat /\ \A j \in 1 .. k : v[j].kind = w[j + 1].kind
    BY <1>9
  <2> QED
    BY <2>1, NumShift
<1>2. NumOf(v, kind, Len(v)) = len - one
  BY <1>0, <1>1, <1>9
<1>3. \A k \in 1 .. Len(v) : /\ StandsAt(jndex[k], qhase[k], h, hp, NumOf(w, kind, k), n)
                             /\ NumOf(v, kind, k - 1) = NumOf(w, kind, k) - one
                             /\ NumOf(w, kind, k) \in one .. n
  <2> SUFFICES ASSUME NEW k \in 1 .. Len(v)
               PROVE  /\ StandsAt(jndex[k], qhase[k], h, hp, NumOf(w, kind, k), n)
                      /\ NumOf(v, kind, k - 1) = NumOf(w, kind, k) - one
                      /\ NumOf(w, kind, k) \in one .. n
    OBVIOUS
  <2>1. k + 1 \in 1 .. Len(w) /\ (k + 1) - 1 = k
    BY <1>9
  <2>2. StandsAt(index[k + 1], phase[k + 1], h, hp, NumOf(w, kind, k), n)
        /\ NumOf(w, kind, k) \in 0 .. len
    BY <1>9, <2>1, RingPlaces
  <2>3. NumOf(v, kind, k - 1) = NumOf(w, kind, k) - one
    BY <1>1, <1>9
  <2>4. NumOf(v, kind, k - 1) \in Nat
    BY <1>9, NumType
  <2> HIDE DEF one
  <2>5. one \in {0, 1}
    BY DEF one
  <2> QED
    BY <1>0, <1>9, <2>2, <2>3, <2>4, <2>5
<1> QED
  BY <1>0, <1>2, <1>3

(* The ring stays if the instruction is not of the kind.                   *)
LEMMA RingStays ==
  ASSUME NEW n \in Nat \ {0}, NEW v, NEW w, NEW kind,
         NEW index, NEW phase, NEW jndex, NEW qhase, NEW valid,
         NEW h, NEW hp, NEW t, NEW tp, NEW len,
         Ring(w, kind, index, phase, valid, h, hp, t, tp, len, n),
         Leaves(v, w, jndex, index, qhase, phase),
         w[1].kind # kind
  PROVE  Ring(v, kind, jndex, qhase, valid, h, hp, t, tp, len, n)
<1>1. /\ h \in 0 .. n - 1 /\ hp \in BOOLEAN /\ len \in 0 .. n
      /\ StandsAt(t, tp, h, hp, len, n)
      /\ \A i \in 0 .. n - 1 : i \in valid <=> Within(i, h, len, n)
      /\ NumOf(v, kind, Len(v)) = len - 0
      /\ \A k \in 1 .. Len(v) : /\ StandsAt(jndex[k], qhase[k], h, hp, NumOf(w, kind, k), n)
                                /\ NumOf(v, kind, k - 1) = NumOf(w, kind, k) - 0
                                /\ NumOf(w, kind, k) \in 0 .. n
  BY HeadLeaves
<1> QED
  BY <1>1 DEF Ring

(* If it is, its slot is the one at the head.                              *)
LEMMA HeadIs ==
  ASSUME NEW n \in Nat \ {0}, NEW v, NEW w, NEW kind,
         NEW index, NEW phase, NEW jndex, NEW qhase, NEW valid,
         NEW h, NEW hp, NEW t, NEW tp, NEW len,
         Ring(w, kind, index, phase, valid, h, hp, t, tp, len, n),
         Leaves(v, w, jndex, index, qhase, phase),
         w[1].kind = kind
  PROVE  /\ index[1] = h /\ len \in 1 .. n
         /\ Succ(h, n) \in 0 .. n - 1 /\ Phase(h, hp, n) \in BOOLEAN
<1>8. Len(w) \in Nat \ {0} /\ Len(w) \in Nat
  BY DEF Leaves
<1>9. /\ h \in 0 .. n - 1 /\ hp \in BOOLEAN /\ len \in 0 .. n
      /\ StandsAt(t, tp, h, hp, len, n)
      /\ \A i \in 0 .. n - 1 : i \in valid <=> Within(i, h, len, n)
      /\ NumOf(v, kind, Len(v)) = len - 1
      /\ \A k \in 1 .. Len(v) : /\ StandsAt(jndex[k], qhase[k], h, hp, NumOf(w, kind, k), n)
                                /\ NumOf(v, kind, k - 1) = NumOf(w, kind, k) - 1
                                /\ NumOf(w, kind, k) \in 1 .. n
  BY HeadLeaves
<1>0. 1 \in 1 .. Len(w) /\ 1 - 1 = 0
  BY <1>8
<1>1. /\ NumOf(w, kind, 0) < len
      /\ StandsAt(index[1], phase[1], h, hp, NumOf(w, kind, 0), n)
  <2>1. /\ w[1].kind = kind => NumOf(w, kind, 1 - 1) < len
        /\ StandsAt(index[1], phase[1], h, hp, NumOf(w, kind, 1 - 1), n)
    BY <1>8, <1>0, RingPlaces
  <2> QED
    BY <1>0, <2>1
<1>2. NumOf(w, kind, 0) = 0
  BY NumType
<1>3. len \in 1 .. n
  BY <1>9, <1>1, <1>2
<1>4. index[1] = h
  <2>1. StandsAt(index[1], phase[1], h, hp, 0, n)
    BY <1>1, <1>2
  <2>2. index[1] = IF h + 0 < n THEN h + 0 ELSE h + 0 - n
    <3>1. 0 \in 0 .. n
      OBVIOUS
    <3> QED
      BY <1>9, <2>1, <3>1, Standing
  <2> QED
    BY <1>9, <2>2
<1>5. Succ(h, n) \in 0 .. n - 1 /\ Phase(h, hp, n) \in BOOLEAN
  BY <1>9, <1>3, HeadMoves
<1> QED
  BY <1>3, <1>4, <1>5

(* And the head moves on.                                                  *)
LEMMA RingShrinks ==
  ASSUME NEW n \in Nat \ {0}, NEW v, NEW w, NEW kind,
         NEW index, NEW phase, NEW jndex, NEW qhase, NEW valid,
         NEW h, NEW hp, NEW t, NEW tp, NEW len,
         Ring(w, kind, index, phase, valid, h, hp, t, tp, len, n),
         Leaves(v, w, jndex, index, qhase, phase),
         w[1].kind = kind, NEW walid, walid = valid \ {h},
         NEW g, g = Succ(h, n), NEW gp, gp = Phase(h, hp, n), NEW len2, len2 = len - 1
  PROVE  Ring(v, kind, jndex, qhase, walid, g, gp, t, tp, len2, n)
<1>0. /\ h \in 0 .. n - 1 /\ hp \in BOOLEAN /\ len \in 0 .. n
      /\ StandsAt(t, tp, h, hp, len, n)
      /\ \A i \in 0 .. n - 1 : i \in valid <=> Within(i, h, len, n)
      /\ NumOf(v, kind, Len(v)) = len - 1
      /\ \A k \in 1 .. Len(v) : /\ StandsAt(jndex[k], qhase[k], h, hp, NumOf(w, kind, k), n)
                                /\ NumOf(v, kind, k - 1) = NumOf(w, kind, k) - 1
                                /\ NumOf(w, kind, k) \in 1 .. n
  BY HeadLeaves
<1>1. len \in 1 .. n /\ g \in 0 .. n - 1 /\ gp \in BOOLEAN /\ StandsAt(t, tp, g, gp, len - 1, n)
  <2>1. len \in 1 .. n
    BY HeadIs
  <2> QED
    BY <1>0, <2>1, HeadMoves
<1>2. \A i \in 0 .. n - 1 : i \in walid <=> Within(i, g, len - 1, n)
  <2> SUFFICES ASSUME NEW i \in 0 .. n - 1 PROVE i \in walid <=> Within(i, g, len - 1, n)
    OBVIOUS
  <2>1. g = IF h + 1 < n THEN h + 1 ELSE h + 1 - n
    <3>1. 1 \in 0 .. n
      OBVIOUS
    <3> QED
      BY <1>0, <3>1, Forward DEF Succ
  <2>2. Within(i, h, len, n) <=> (IF h <= i THEN i - h ELSE i - h + n) < len
    BY <1>0, WithinIs
  <2>3. Within(i, g, len - 1, n) <=> (IF g <= i THEN i - g ELSE i - g + n) < len - 1
    <3>1. len - 1 \in 0 .. n
      BY <1>1
    <3> QED
      BY <1>1, <3>1, WithinIs
  <2>4. h \in 0 .. n - 1 /\ len \in 1 .. n
    BY <1>0, <1>1
  <2>5. (IF g <= i THEN i - g ELSE i - g + n) < len - 1
        <=> (IF h <= i THEN i - h ELSE i - h + n) < len /\ i # h
    BY <2>1, <2>4
  <2> QED
    BY <1>0, <2>2, <2>3, <2>5
<1>3. \A k \in 1 .. Len(v) : StandsAt(jndex[k], qhase[k], g, gp, NumOf(v, kind, k - 1), n)
  <2> SUFFICES ASSUME NEW k \in 1 .. Len(v)
               PROVE  StandsAt(jndex[k], qhase[k], g, gp, NumOf(v, kind, k - 1), n)
    OBVIOUS
  <2>1. /\ StandsAt(jndex[k], qhase[k], h, hp, NumOf(w, kind, k), n)
        /\ NumOf(v, kind, k - 1) = NumOf(w, kind, k) - 1
        /\ NumOf(w, kind, k) \in 1 .. n
    BY <1>0
  <2>2. StandsAt(jndex[k], qhase[k], g, gp, NumOf(w, kind, k) - 1, n)
    BY <1>0, <2>1, HeadMoves
  <2> QED
    BY <2>1, <2>2
<1>4. len - 1 = NumOf(v, kind, Len(v)) /\ len - 1 <= n
  BY <1>0
<1> QED
  BY <1>1, <1>2, <1>3, <1>4 DEF Ring

(* A complete squash leaves an empty ring.                                 *)
LEMMA RingEmpty ==
  ASSUME NEW n \in Nat \ {0}, NEW v, Len(v) = 0, NEW kind, NEW index, NEW phase, NEW valid,
         \A i \in 0 .. n - 1 : i \notin valid
  PROVE  Ring(v, kind, index, phase, valid, 0, FALSE, 0, FALSE, 0, n)
<1>1. NumOf(v, kind, 0) = 0
  BY NumType
<1>2. StandsAt(0, FALSE, 0, FALSE, 0, n)
  <2>1. 0 = (0 + 0) % n /\ ~(0 + 0 >= n)
    OBVIOUS
  <2> QED
    BY <2>1, Zenon DEF StandsAt
<1>3. \A i \in 0 .. n - 1 : ~Within(i, 0, 0, n)
  <2> SUFFICES ASSUME NEW i \in 0 .. n - 1 PROVE ~Within(i, 0, 0, n)
    OBVIOUS
  <2>1. Within(i, 0, 0, n) <=> (IF 0 <= i THEN i - 0 ELSE i - 0 + n) < 0
    BY WithinIs
  <2> QED
    BY <2>1
<1>4. 0 \in 0 .. n - 1 /\ 0 = NumOf(v, kind, Len(v)) /\ 0 <= n
  BY <1>1
<1>5. FALSE \in BOOLEAN
  OBVIOUS
<1>6. \A i \in 0 .. n - 1 : i \in valid <=> Within(i, 0, 0, n)
  BY <1>3
<1>7. \A k \in 1 .. Len(v) : StandsAt(index[k], phase[k], 0, FALSE, NumOf(v, kind, k - 1), n)
  OBVIOUS
<1> QED
  BY <1>2, <1>4, <1>5, <1>6, <1>7, Zenon DEF Ring

-----------------------------------------------------------------------------
(* The inductive invariant, in terms of a window w and of the queues, so   *)
(* that it can be stated of the window before and after a step.            *)

(* The places of the instructions of w in each queue.                      *)
LqIndex(w) == [k \in DOMAIN w |-> w[k].at.lq_index]
LqPhase(w) == [k \in DOMAIN w |-> w[k].at.lq_phase]
SqIndex(w) == [k \in DOMAIN w |-> w[k].at.sq_index]
SqPhase(w) == [k \in DOMAIN w |-> w[k].at.sq_phase]

(* The slots whose valid bit is set.                                       *)
ValidSlots(Q) == {i \in DOMAIN Q : Q[i].valid}

(* A load's entry stands where the instruction stands in the store queue,  *)
(* a store's entry knows whether the store is conditional, and only the    *)
(* youngest instruction may be one that stops dispatch.                    *)
LinkAt(w, lqs, sqs, k) ==
  /\ w[k].kind = "load" => /\ lqs[w[k].at.lq_index].sq_index = w[k].at.sq_index
                           /\ lqs[w[k].at.lq_index].sq_index_phase = w[k].at.sq_phase
  /\ w[k].kind = "store" => sqs[w[k].at.sq_index].amo = w[k].amo
  /\ w[k].amo => k = Len(w)
Links(w, lqs, sqs) == \A k \in 1 .. Len(w) : LinkAt(w, lqs, sqs, k)

(* What is in an entry: an access is aligned and inside memory.            *)
LoadEntryOK(l) ==
  /\ l.valid \/ AddrAvail(l) => l.size \in Size
  /\ AddrAvail(l) => l.addr \in Addrs(l.size)
  /\ l.value_avail => AddrAvail(l)
  /\ l.valid /\ ~SpecDisambig => l.mdp_stall
StoreEntryOK(s) ==
  /\ s.valid \/ AddrAvail(s) => s.size \in Size
  /\ AddrAvail(s) => s.addr \in Addrs(s.size)
  /\ StoreValueAvail(s) => s.value \in Values(s.size)

(* A store in front of instruction k that is known to write byte b, and    *)
(* the youngest of them.                                                   *)
Writes(w, sqs, b, k, j) ==
  /\ j \in 1 .. k - 1 /\ w[j].kind = "store"
  /\ AddrAvail(sqs[w[j].at.sq_index])
  /\ b \in Span(sqs[w[j].at.sq_index].addr, sqs[w[j].at.sq_index].size)
WritesLast(w, sqs, b, k, j) ==
  Writes(w, sqs, b, k, j) /\ \A i \in j + 1 .. k - 1 : ~Writes(w, sqs, b, k, i)

(* The value v of byte b is the one that program order gives instruction   *)
(* k, as far as the addresses in front of it are known.                    *)
RightValue(w, sqs, m, b, k, v) ==
  /\ (\A j \in 1 .. k - 1 : ~Writes(w, sqs, b, k, j)) => v = m[b]
  /\ \A j \in 1 .. k - 1 : WritesLast(w, sqs, b, k, j)
       => /\ StoreValueAvail(sqs[w[j].at.sq_index])
          /\ v = sqs[w[j].at.sq_index].value[b - sqs[w[j].at.sq_index].addr]

(* Instruction k is a load that has its value.                             *)
HasValue(w, lqs, k) == w[k].kind = "load" /\ lqs[w[k].at.lq_index].value_avail

(* Neither k nor an older instruction will be squashed for what it did.    *)
Unmarked(w, k) == \A j \in 1 .. k : ~Marked(w[j])

(* Such a load has the right value.                                        *)
LoadRight(w, l, sqs, m, k) ==
  /\ l.value \in Values(l.size)
  /\ \A b \in Span(l.addr, l.size) : RightValue(w, sqs, m, b, k, l.value[b - l.addr])
ValueAt(w, lqs, sqs, m, k) ==
  HasValue(w, lqs, k) /\ Unmarked(w, k) => LoadRight(w, lqs[w[k].at.lq_index], sqs, m, k)

(* Without speculative disambiguation a load has a value only when the     *)
(* address of an older store is known, or when a store between them gave   *)
(* it the value.                                                           *)
Covered(w, lqs, sqs, j, k) ==
  \E i \in j + 1 .. k - 1 :
    LET s == sqs[w[i].at.sq_index]
        l == lqs[w[k].at.lq_index]
    IN  w[i].kind = "store" /\ AddrAvail(s) /\ s.addr = l.addr /\ s.size = l.size
WaitAt(w, lqs, sqs, k) ==
  HasValue(w, lqs, k) /\ ~SpecDisambig
    => \A j \in 1 .. k - 1 : w[j].kind = "store"
         => AddrAvail(sqs[w[j].at.sq_index]) \/ Covered(w, lqs, sqs, j, k)

ValuesRight(w, lqs, sqs, m) ==
  \A k \in 1 .. Len(w) : ValueAt(w, lqs, sqs, m, k) /\ WaitAt(w, lqs, sqs, k)

LoadRing == Ring(window, "load", LqIndex(window), LqPhase(window), ValidSlots(LQ),
                 lq_head, lq_head_phase, lq_tail, lq_tail_phase, lq_length, LqSize)
StoreRing == Ring(window, "store", SqIndex(window), SqPhase(window), ValidSlots(SQ),
                  sq_head, sq_head_phase, sq_tail, sq_tail_phase, sq_length, SqSize)

IInv ==
  /\ TypeOK
  /\ LoadRing
  /\ StoreRing
  /\ Links(window, LQ, SQ)
  /\ \A i \in LSlot : LoadEntryOK(LQ[i])
  /\ \A i \in SSlot : StoreEntryOK(SQ[i])
  /\ ValuesRight(window, LQ, SQ, mem)

-----------------------------------------------------------------------------
(* What the searches of the two queues find.                               *)

(* The sizes of the queues.                                                *)
LEMMA Sizes ==
  /\ LqSize \in Nat \ {0} /\ LSlot = 0 .. LqSize - 1
  /\ SqSize \in Nat \ {0} /\ SSlot = 0 .. SqSize - 1
BY LsuAssumption DEF LSlot, SSlot

(* Aligned accesses that share a byte overlap in the sense of the masks,   *)
(* and aligned accesses of one size that overlap are to one address.       *)
LEMMA OverlapIs ==
  ASSUME NEW x, NEW y, x.size \in {1, 2, 4, 8}, y.size \in {1, 2, 4, 8},
         x.addr \in Nat, y.addr \in Nat, x.addr % x.size = 0, y.addr % y.size = 0
  PROVE  /\ \A b \in Nat : b \in Span(x.addr, x.size) /\ b \in Span(y.addr, y.size) => Overlap(x, y)
         /\ Overlap(x, y) /\ x.size = y.size => x.addr = y.addr
<1>1. ASSUME NEW m \in {1, 2, 4, 8}, NEW a \in Nat, NEW s \in {1, 2, 4, 8}, s <= m, a % s = 0,
             NEW b \in Nat, b \in Span(a, s)
      PROVE  a \div m = b \div m
  <2>1. CASE m = 1
    BY <1>1, <2>1 DEF Span
  <2>2. CASE m = 2
    BY <1>1, <2>2 DEF Span
  <2>3. CASE m = 4
    BY <1>1, <2>3 DEF Span
  <2>4. CASE m = 8
    BY <1>1, <2>4 DEF Span
  <2> QED
    BY <2>1, <2>2, <2>3, <2>4
<1>2. ASSUME NEW m \in {1, 2, 4, 8}, NEW a \in Nat, NEW b \in Nat, a % m = 0, b % m = 0,
             a \div m = b \div m
      PROVE  a = b
  <2>1. CASE m = 1
    BY <1>2, <2>1
  <2>2. CASE m = 2
    BY <1>2, <2>2
  <2>3. CASE m = 4
    BY <1>2, <2>3
  <2>4. CASE m = 8
    BY <1>2, <2>4
  <2> QED
    BY <2>1, <2>2, <2>3, <2>4
<1>3. ASSUME NEW b \in Nat, b \in Span(x.addr, x.size), b \in Span(y.addr, y.size)
      PROVE  Overlap(x, y)
  <2> DEFINE m == IF x.size > y.size THEN x.size ELSE y.size
  <2>1. m \in {1, 2, 4, 8} /\ x.size <= m /\ y.size <= m
    OBVIOUS
  <2> HIDE DEF m
  <2>2. x.addr \div m = b \div m /\ y.addr \div m = b \div m
    BY <1>1, <1>3, <2>1
  <2> QED
    BY <2>2 DEF Overlap, m
<1>4. ASSUME Overlap(x, y), x.size = y.size PROVE x.addr = y.addr
  <2>1. x.addr \div x.size = y.addr \div x.size
    BY <1>4 DEF Overlap
  <2> QED
    BY <1>2, <1>4, <2>1
<1> QED
  BY <1>3, <1>4

(* The index and the phase an instruction carries tell how many stores are *)
(* older.                                                                  *)
LEMMA NumOlderIs ==
  ASSUME sq_head \in SSlot, sq_head_phase \in BOOLEAN,
         NEW i, NEW ph, NEW k \in 0 .. SqSize, StandsAt(i, ph, sq_head, sq_head_phase, k, SqSize)
  PROVE  NumOlder(i, ph) = k
<1>1. /\ i \in 0 .. SqSize - 1
      /\ k < SqSize => (i - sq_head) % SqSize = k
      /\ i = (IF sq_head + k < SqSize THEN sq_head + k ELSE sq_head + k - SqSize)
      /\ ph = (IF sq_head + k < SqSize THEN sq_head_phase ELSE ~sq_head_phase)
  BY Sizes, Standing
<1>2. SqSize \in Nat \ {0} /\ sq_head \in 0 .. SqSize - 1
  BY Sizes
<1>3. i = sq_head <=> k = 0 \/ k = SqSize
  BY <1>1, <1>2
<1>4. k = 0 => ph = sq_head_phase
  BY <1>1, <1>2
<1>5. k = SqSize => ph # sq_head_phase
  BY <1>1, <1>2
<1> QED
  BY <1>1, <1>2, <1>3, <1>4, <1>5 DEF NumOlder

(* And how many loads are not.                                             *)
LEMMA NumYoungerIs ==
  ASSUME lq_head \in LSlot, lq_head_phase \in BOOLEAN, lq_length \in 0 .. LqSize,
         StandsAt(lq_tail, lq_tail_phase, lq_head, lq_head_phase, lq_length, LqSize),
         NEW i, NEW ph, NEW k \in 0 .. lq_length,
         StandsAt(i, ph, lq_head, lq_head_phase, k, LqSize)
  PROVE  NumYounger(i, ph) = lq_length - k
<1>0. LqSize \in Nat \ {0} /\ lq_head \in 0 .. LqSize - 1 /\ k \in 0 .. LqSize
  BY Sizes
<1>1. /\ i \in 0 .. LqSize - 1
      /\ i = (IF lq_head + k < LqSize THEN lq_head + k ELSE lq_head + k - LqSize)
      /\ ph = (IF lq_head + k < LqSize THEN lq_head_phase ELSE ~lq_head_phase)
  BY <1>0, Standing
<1>2. /\ lq_tail \in 0 .. LqSize - 1
      /\ lq_tail = (IF lq_head + lq_length < LqSize THEN lq_head + lq_length
                                                  ELSE lq_head + lq_length - LqSize)
      /\ lq_tail_phase = (IF lq_head + lq_length < LqSize THEN lq_head_phase ELSE ~lq_head_phase)
  BY <1>0, Standing
<1>3. i = lq_tail <=> k = lq_length \/ (k = 0 /\ lq_length = LqSize)
  BY <1>0, <1>1, <1>2
<1>4. k = lq_length => ph = lq_tail_phase
  BY <1>1, <1>2
<1>5. k = 0 /\ lq_length = LqSize => ph # lq_tail_phase
  BY <1>0, <1>1, <1>2
<1>6. (lq_tail - i) % LqSize = IF i <= lq_tail THEN lq_tail - i ELSE lq_tail - i + LqSize
  <2>1. i \in 0 .. LqSize
    BY <1>0, <1>1
  <2> QED
    BY <1>0, <1>2, <2>1, Backward
<1>7. i # lq_tail => (lq_tail - i) % LqSize = lq_length - k
  BY <1>0, <1>1, <1>2, <1>3, <1>6
<1> QED
  BY <1>0, <1>3, <1>4, <1>5, <1>7 DEF NumYounger

(* The window is a sequence.                                               *)
LEMMA WindowType ==
  ASSUME TypeOK
  PROVE  /\ Len(window) \in Nat /\ DOMAIN window = 1 .. Len(window)
         /\ \A k \in 1 .. Len(window) :
              /\ window[k].kind \in {"load", "store", "branch"}
              /\ window[k].at \in Place /\ window[k].amo \in BOOLEAN
              /\ window[k].load_viol \in BOOLEAN /\ window[k].exception \in BOOLEAN
              /\ window[k] \in InWindow
<1>1. window \in Seq(InWindow)
  BY DEF TypeOK
<1>2. Len(window) \in Nat /\ DOMAIN window = 1 .. Len(window)
      /\ \A k \in 1 .. Len(window) : window[k] \in InWindow
  BY <1>1
<1> QED
  BY <1>2 DEF InWindow

(* What the rings say of the model's own variables.                        *)
LEMMA SqPlaces ==
  ASSUME TypeOK, StoreRing, NEW k \in 1 .. Len(window)
  PROVE  /\ NumOf(window, "store", k - 1) \in 0 .. SqSize
         /\ window[k].at.sq_index \in 0 .. SqSize - 1
         /\ StandsAt(window[k].at.sq_index, window[k].at.sq_phase, sq_head, sq_head_phase,
                     NumOf(window, "store", k - 1), SqSize)
         /\ window[k].kind = "store" => SQ[window[k].at.sq_index].valid
         /\ \A j \in 1 .. Len(window) :
              window[j].kind = "store" /\ window[k].kind = "store"
              /\ window[j].at.sq_index = window[k].at.sq_index => j = k
<1> DEFINE w == window
           I == SqIndex(window)
           P == SqPhase(window)
           V == ValidSlots(SQ)
<1>1. Len(w) \in Nat /\ \A j \in 1 .. Len(w) : I[j] = w[j].at.sq_index /\ P[j] = w[j].at.sq_phase
  BY WindowType DEF SqIndex, SqPhase
<1>2. \A i \in V : SQ[i].valid
  BY DEF ValidSlots
<1>3. Ring(w, "store", I, P, V, sq_head, sq_head_phase, sq_tail, sq_tail_phase, sq_length, SqSize)
  BY DEF StoreRing
<1> HIDE DEF w, I, P, V
<1>4. k \in 1 .. Len(w)
  BY DEF w
<1>8. Len(w) \in Nat /\ SqSize \in Nat \ {0}
  BY <1>1, Sizes
<1>5. /\ NumOf(w, "store", k - 1) \in 0 .. sq_length /\ sq_length \in 0 .. SqSize
      /\ I[k] \in 0 .. SqSize - 1
      /\ StandsAt(I[k], P[k], sq_head, sq_head_phase, NumOf(w, "store", k - 1), SqSize)
      /\ w[k].kind = "store" => I[k] \in V
  BY <1>3, <1>4, <1>8, RingPlaces
<1>6. \A j \in 1 .. Len(w) : w[j].kind = "store" /\ w[k].kind = "store" /\ I[j] = I[k] => j = k
  <2> SUFFICES ASSUME NEW j \in 1 .. Len(w), w[j].kind = "store", w[k].kind = "store", I[j] = I[k]
               PROVE  j = k
    OBVIOUS
  <2> QED
    BY <1>3, <1>4, <1>8, RingInjective
<1>7. NumOf(w, "store", k - 1) \in 0 .. SqSize
  BY <1>5, Sizes
<1> QED
  BY <1>1, <1>2, <1>4, <1>5, <1>6, <1>7 DEF w

(* The same of the load queue.                                             *)
LEMMA LqPlaces ==
  ASSUME TypeOK, LoadRing, NEW k \in 1 .. Len(window)
  PROVE  /\ NumOf(window, "load", k - 1) \in 0 .. lq_length
         /\ window[k].at.lq_index \in 0 .. LqSize - 1
         /\ StandsAt(window[k].at.lq_index, window[k].at.lq_phase, lq_head, lq_head_phase,
                     NumOf(window, "load", k - 1), LqSize)
         /\ window[k].kind = "load" => LQ[window[k].at.lq_index].valid
         /\ \A j \in 1 .. Len(window) :
              window[j].kind = "load" /\ window[k].kind = "load"
              /\ window[j].at.lq_index = window[k].at.lq_index => j = k
<1> DEFINE w == window
           I == LqIndex(window)
           P == LqPhase(window)
           V == ValidSlots(LQ)
<1>1. Len(w) \in Nat /\ \A j \in 1 .. Len(w) : I[j] = w[j].at.lq_index /\ P[j] = w[j].at.lq_phase
  BY WindowType DEF LqIndex, LqPhase
<1>2. \A i \in V : LQ[i].valid
  BY DEF ValidSlots
<1>3. Ring(w, "load", I, P, V, lq_head, lq_head_phase, lq_tail, lq_tail_phase, lq_length, LqSize)
  BY DEF LoadRing
<1> HIDE DEF w, I, P, V
<1>4. k \in 1 .. Len(w)
  BY DEF w
<1>8. Len(w) \in Nat /\ LqSize \in Nat \ {0}
  BY <1>1, Sizes
<1>5. /\ NumOf(w, "load", k - 1) \in 0 .. lq_length
      /\ I[k] \in 0 .. LqSize - 1
      /\ StandsAt(I[k], P[k], lq_head, lq_head_phase, NumOf(w, "load", k - 1), LqSize)
      /\ w[k].kind = "load" => I[k] \in V
  BY <1>3, <1>4, <1>8, RingPlaces
<1>6. \A j \in 1 .. Len(w) : w[j].kind = "load" /\ w[k].kind = "load" /\ I[j] = I[k] => j = k
  <2> SUFFICES ASSUME NEW j \in 1 .. Len(w), w[j].kind = "load", w[k].kind = "load", I[j] = I[k]
               PROVE  j = k
    OBVIOUS
  <2> QED
    BY <1>3, <1>4, <1>8, RingInjective
<1> QED
  BY <1>1, <1>2, <1>4, <1>5, <1>6 DEF w

(* A valid entry of the load queue is that of a load in the window.        *)
LEMMA LqOwner ==
  ASSUME TypeOK, LoadRing, NEW i \in LSlot, LQ[i].valid
  PROVE  \E k \in 1 .. Len(window) : window[k].kind = "load" /\ window[k].at.lq_index = i
<1> DEFINE I == LqIndex(window)
           P == LqPhase(window)
           V == ValidSlots(LQ)
<1>1. Len(window) \in Nat /\ \A j \in 1 .. Len(window) : I[j] = window[j].at.lq_index
  BY WindowType DEF LqIndex
<1>2. i \in V /\ i \in 0 .. LqSize - 1
  BY Sizes DEF ValidSlots, TypeOK
<1>3. Ring(window, "load", I, P, V, lq_head, lq_head_phase, lq_tail, lq_tail_phase, lq_length, LqSize)
  BY DEF LoadRing
<1> HIDE DEF I, P, V
<1>4. \E k \in 1 .. Len(window) : window[k].kind = "load" /\ I[k] = i
  BY <1>1, <1>2, <1>3, Sizes, RingOwner
<1> QED
  BY <1>1, <1>4

(* The d-th slot before the place of instruction k is that of the d-th     *)
(* youngest of the older stores.                                           *)
LEMMA BackIs ==
  ASSUME TypeOK, StoreRing, NEW k \in 1 .. Len(window)
  PROVE  /\ \A j \in 1 .. k - 1 : window[j].kind = "store" =>
              LET d == NumOf(window, "store", k - 1) - NumOf(window, "store", j - 1)
              IN  /\ d \in 1 .. NumOf(window, "store", k - 1)
                  /\ Back(window[k].at.sq_index, d) = window[j].at.sq_index
         /\ \A d \in 1 .. NumOf(window, "store", k - 1) : \E j \in 1 .. k - 1 :
              /\ window[j].kind = "store"
              /\ d = NumOf(window, "store", k - 1) - NumOf(window, "store", j - 1)
              /\ Back(window[k].at.sq_index, d) = window[j].at.sq_index
<1> DEFINE N(j) == NumOf(window, "store", j)
           I(j) == window[j].at.sq_index
<1>0. SqSize \in Nat \ {0} /\ sq_head \in 0 .. SqSize - 1 /\ sq_head_phase \in BOOLEAN
  BY Sizes DEF TypeOK
<1>1. \A j \in 1 .. Len(window) :
        /\ N(j - 1) \in 0 .. SqSize /\ I(j) \in 0 .. SqSize - 1
        /\ I(j) = (IF sq_head + N(j - 1) < SqSize THEN sq_head + N(j - 1)
                                                  ELSE sq_head + N(j - 1) - SqSize)
  <2> SUFFICES ASSUME NEW j \in 1 .. Len(window)
               PROVE  /\ N(j - 1) \in 0 .. SqSize /\ I(j) \in 0 .. SqSize - 1
                      /\ I(j) = (IF sq_head + N(j - 1) < SqSize THEN sq_head + N(j - 1)
                                                                ELSE sq_head + N(j - 1) - SqSize)
    OBVIOUS
  <2>1. /\ N(j - 1) \in 0 .. SqSize /\ I(j) \in 0 .. SqSize - 1
        /\ StandsAt(I(j), window[j].at.sq_phase, sq_head, sq_head_phase, N(j - 1), SqSize)
    BY SqPlaces
  <2> HIDE DEF N, I
  <2> QED
    BY <1>0, <2>1, Standing
<1>2. \A d \in 0 .. SqSize :
        Back(I(k), d) = IF d <= I(k) THEN I(k) - d ELSE I(k) - d + SqSize
  BY <1>0, <1>1, Backward DEF Back
<1>3. ASSUME NEW j \in 1 .. k - 1, N(j - 1) < N(k - 1)
      PROVE  /\ N(k - 1) - N(j - 1) \in 1 .. N(k - 1)
             /\ Back(I(k), N(k - 1) - N(j - 1)) = I(j)
  <2>1. j \in 1 .. Len(window)
    BY WindowType
  <2>2. PICK a \in 0 .. SqSize, b \in 0 .. SqSize : a = N(j - 1) /\ b = N(k - 1)
    BY <1>1, <2>1
  <2>3. I(j) = (IF sq_head + a < SqSize THEN sq_head + a ELSE sq_head + a - SqSize)
    BY <1>1, <2>1, <2>2
  <2>4. I(k) = (IF sq_head + b < SqSize THEN sq_head + b ELSE sq_head + b - SqSize)
        /\ I(k) \in 0 .. SqSize - 1
    BY <1>1, <2>2
  <2>5. a < b
    BY <1>3, <2>2
  <2>6. b - a \in 1 .. b /\ b - a \in 0 .. SqSize
    BY <1>0, <2>5
  <2>7. Back(I(k), b - a) = IF b - a <= I(k) THEN I(k) - (b - a) ELSE I(k) - (b - a) + SqSize
    BY <1>2, <2>6
  <2>8. Back(I(k), b - a) = I(j)
    BY <1>0, <2>3, <2>4, <2>5, <2>6, <2>7
  <2> QED
    BY <2>2, <2>6, <2>8
<1>4. \A j \in 1 .. k - 1 : window[j].kind = "store" => N(j - 1) < N(k - 1)
  <2> SUFFICES ASSUME NEW j \in 1 .. k - 1, window[j].kind = "store" PROVE N(j - 1) < N(k - 1)
    OBVIOUS
  <2>1. j \in Nat /\ k - 1 \in Nat /\ j <= k - 1 /\ j >= 1
    BY WindowType
  <2> QED
    BY <2>1, NumGrows
<1>5. ASSUME NEW d \in 1 .. N(k - 1)
      PROVE  \E j \in 1 .. k - 1 : window[j].kind = "store" /\ N(j - 1) = N(k - 1) - d
  <2>1. N(k - 1) \in Nat /\ k - 1 \in Nat
    BY WindowType, NumType
  <2>2. N(k - 1) - d \in 0 .. N(k - 1) - 1
    BY <2>1
  <2> QED
    BY <2>1, <2>2, NumReached
<1>6. ASSUME NEW j \in 1 .. k - 1, window[j].kind = "store"
      PROVE  /\ N(k - 1) - N(j - 1) \in 1 .. N(k - 1)
             /\ Back(I(k), N(k - 1) - N(j - 1)) = I(j)
  BY <1>3, <1>4, <1>6
<1>7. ASSUME NEW d \in 1 .. N(k - 1)
      PROVE  \E j \in 1 .. k - 1 : /\ window[j].kind = "store" /\ d = N(k - 1) - N(j - 1)
                                   /\ Back(I(k), d) = I(j)
  <2>1. PICK j \in 1 .. k - 1 : window[j].kind = "store" /\ N(j - 1) = N(k - 1) - d
    BY <1>5
  <2>2. d = N(k - 1) - N(j - 1)
    <3>1. N(k - 1) \in Int
      BY <1>1
    <3> QED
      BY <2>1, <3>1
  <2>3. Back(I(k), N(k - 1) - N(j - 1)) = I(j)
    BY <1>6, <2>1
  <2> QED
    BY <2>1, <2>2, <2>3
<1> QED
  BY <1>6, <1>7

(* A search finds the least of the numbers it looks for.                   *)
LEMMA LeastChosen ==
  ASSUME NEW n \in Nat, NEW D, D \in SUBSET (0 .. n), D # {}
  PROVE  LET d == CHOOSE d \in D : \A e \in D : d <= e
         IN  d \in D /\ \A e \in D : d <= e
<1>1. IsFiniteSet(0 .. n)
  BY FS_Interval
<1>2. IsFiniteSet(D) /\ D \in SUBSET Int
  <2>1. D \in SUBSET Int
    OBVIOUS
  <2>2. IsFiniteSet(D)
    BY <1>1, FS_Subset
  <2> QED
    BY <2>1, <2>2
<1>3. \E d \in D : \A e \in D : d <= e
  BY <1>2, LeastExists
<1> QED
  BY <1>3

(* Store j decides for load k whether it may run.                          *)
DecidesFor(l, k, j) ==
  /\ j \in 1 .. k - 1 /\ window[j].kind = "store"
  /\ Decides(SQ[window[j].at.sq_index], l)

(* disambiguate() finds the youngest older store that decides.             *)
LEMMA DisambiguateIs ==
  ASSUME TypeOK, StoreRing, NEW k \in 1 .. Len(window), NEW l,
         l.sq_index = window[k].at.sq_index, l.sq_index_phase = window[k].at.sq_phase
  PROVE  \/ disambiguate(l) = None /\ \A j \in 1 .. k - 1 : ~DecidesFor(l, k, j)
         \/ /\ disambiguate(l) # None
            /\ \E j \in 1 .. k - 1 : /\ disambiguate(l) = window[j].at.sq_index
                                     /\ DecidesFor(l, k, j)
                                     /\ \A i \in j + 1 .. k - 1 : ~DecidesFor(l, k, i)
<1> DEFINE n == NumOlder(l.sq_index, l.sq_index_phase)
           D == {d \in 1 .. n : Decides(SQ[Back(l.sq_index, d)], l)}
           N(j) == NumOf(window, "store", j)
           I(j) == window[j].at.sq_index
<1>1. n = N(k - 1) /\ N(k - 1) \in Nat
  <2>1. /\ N(k - 1) \in 0 .. SqSize
        /\ StandsAt(l.sq_index, l.sq_index_phase, sq_head, sq_head_phase, N(k - 1), SqSize)
    BY SqPlaces
  <2>2. sq_head \in SSlot /\ sq_head_phase \in BOOLEAN
    BY DEF TypeOK
  <2> HIDE DEF N
  <2> QED
    BY <2>1, <2>2, NumOlderIs, Sizes
<1>2. \A j \in 1 .. k - 1 : window[j].kind = "store" =>
        /\ N(k - 1) - N(j - 1) \in 1 .. N(k - 1)
        /\ Back(I(k), N(k - 1) - N(j - 1)) = I(j)
  BY BackIs
<1>3. \A d \in 1 .. N(k - 1) : \E j \in 1 .. k - 1 :
        window[j].kind = "store" /\ d = N(k - 1) - N(j - 1) /\ Back(I(k), d) = I(j)
  BY BackIs
<1>4. \A j \in 1 .. k - 1 : DecidesFor(l, k, j) => N(k - 1) - N(j - 1) \in D
  BY <1>1, <1>2 DEF DecidesFor
<1>5. D # {} <=> disambiguate(l) # None
  <2>1. CASE D = {}
    BY <2>1 DEF disambiguate
  <2>2. CASE D # {}
    <3> DEFINE d == CHOOSE d \in D : \A e \in D : d <= e
    <3>1. disambiguate(l) = Back(l.sq_index, d)
      BY <2>2 DEF disambiguate
    <3>2. d \in D
      <4>1. D \in SUBSET (0 .. n) /\ n \in Nat
        BY <1>1
      <4> HIDE DEF D, n
      <4> QED
        BY <2>2, <4>1, LeastChosen
    <3>3. d \in 1 .. N(k - 1)
      BY <1>1, <3>2
    <3>4. PICK j \in 1 .. k - 1 : Back(I(k), d) = I(j)
      BY <1>3, <3>3
    <3>5. I(j) \in 0 .. SqSize - 1
      <4>1. j \in 1 .. Len(window)
        BY WindowType
      <4> QED
        BY <4>1, SqPlaces
    <3> QED
      BY <2>2, <3>1, <3>4, <3>5, Sizes, SMTT(30) DEF None
  <2> QED
    BY <2>1, <2>2
<1>6. CASE D = {}
  BY <1>4, <1>5, <1>6
<1>7. CASE D # {}
  <2> DEFINE d == CHOOSE d \in D : \A e \in D : d <= e
  <2>1. disambiguate(l) = Back(l.sq_index, d)
    BY <1>7 DEF disambiguate
  <2>2. d \in D /\ \A e \in D : d <= e
    <3>1. D \in SUBSET (0 .. n) /\ n \in Nat
      BY <1>1
    <3> HIDE DEF D, n
    <3> QED
      BY <1>7, <3>1, LeastChosen
  <2>3. d \in 1 .. N(k - 1) /\ Decides(SQ[Back(l.sq_index, d)], l)
    BY <1>1, <2>2
  <2> HIDE DEF d, D
  <2>4. PICK j \in 1 .. k - 1 : window[j].kind = "store" /\ d = N(k - 1) - N(j - 1) /\ Back(I(k), d) = I(j)
    BY <1>3, <2>3
  <2>5. DecidesFor(l, k, j)
    BY <2>3, <2>4 DEF DecidesFor
  <2>6. ASSUME NEW i \in j + 1 .. k - 1, DecidesFor(l, k, i) PROVE FALSE
    <3>1. i \in 1 .. k - 1 /\ j \in Nat /\ j <= i - 1 /\ i - 1 \in Nat /\ j >= 1
      BY WindowType
    <3>2. N(j - 1) < N(i - 1)
      BY <2>4, <3>1, NumGrows
    <3>3. N(k - 1) - N(i - 1) \in D
      BY <1>4, <2>6, <3>1
    <3>4. d <= N(k - 1) - N(i - 1)
      BY <2>2, <3>3
    <3>5. N(i - 1) \in Nat /\ N(j - 1) \in Nat
      <4>1. i - 1 \in Nat /\ j - 1 \in Nat
        BY <3>1
      <4> QED
        BY <4>1, NumType
    <3> HIDE DEF N
    <3> QED
      BY <1>1, <2>4, <3>2, <3>4, <3>5
  <2> QED
    BY <1>5, <1>7, <2>1, <2>4, <2>5, <2>6
<1> QED
  BY <1>6, <1>7

(* Load p has a value from an address that a store s also writes.          *)
RanEarly(s, p) ==
  LET l == LQ[window[p].at.lq_index]
  IN  /\ window[p].kind = "load"
      /\ AddrAvail(l) /\ l.value_avail /\ Overlap(s, l)

(* ld_violation() finds a load that is not younger than any that ran       *)
(* before the store at k and should not have.                              *)
LEMMA ViolationIs ==
  ASSUME TypeOK, LoadRing, NEW k \in 1 .. Len(window), NEW s,
         NEW p \in k + 1 .. Len(window), RanEarly(s, p)
  PROVE  /\ ld_violation(s, window[k].at) # None
         /\ \E q \in 1 .. p : window[q].kind = "load"
                              /\ window[q].at.lq_index = ld_violation(s, window[k].at)
<1> DEFINE N(j) == NumOf(window, "load", j)
           I(j) == window[j].at.lq_index
           n == NumYounger(I(k), window[k].at.lq_phase)
           Hit(i) == AddrAvail(LQ[i]) /\ LQ[i].value_avail /\ Overlap(s, LQ[i])
           V == {d \in 0 .. n - 1 : Hit((I(k) + d) % LqSize)}
           e == CHOOSE d \in V : \A x \in V : d <= x
<1>0. /\ LqSize \in Nat \ {0} /\ lq_head \in 0 .. LqSize - 1 /\ lq_head_phase \in BOOLEAN
      /\ lq_length \in 0 .. LqSize /\ Len(window) \in Nat
  BY Sizes, WindowType DEF TypeOK
<1>1. \A j \in 1 .. Len(window) :
        /\ N(j - 1) \in 0 .. lq_length
        /\ StandsAt(I(j), window[j].at.lq_phase, lq_head, lq_head_phase, N(j - 1), LqSize)
        /\ I(j) = (IF lq_head + N(j - 1) < LqSize THEN lq_head + N(j - 1)
                                                  ELSE lq_head + N(j - 1) - LqSize)
  <2> SUFFICES ASSUME NEW j \in 1 .. Len(window)
               PROVE  /\ N(j - 1) \in 0 .. lq_length
                      /\ StandsAt(I(j), window[j].at.lq_phase, lq_head, lq_head_phase, N(j - 1), LqSize)
                      /\ I(j) = (IF lq_head + N(j - 1) < LqSize THEN lq_head + N(j - 1)
                                                                ELSE lq_head + N(j - 1) - LqSize)
    OBVIOUS
  <2>1. /\ N(j - 1) \in 0 .. lq_length
        /\ StandsAt(I(j), window[j].at.lq_phase, lq_head, lq_head_phase, N(j - 1), LqSize)
    BY LqPlaces
  <2>2. PICK m \in 0 .. LqSize : m = N(j - 1)
    BY <1>0, <2>1
  <2>3. I(j) = (IF lq_head + m < LqSize THEN lq_head + m ELSE lq_head + m - LqSize)
    <3>1. StandsAt(I(j), window[j].at.lq_phase, lq_head, lq_head_phase, m, LqSize)
      BY <2>1, <2>2
    <3> HIDE DEF I
    <3> QED
      BY <1>0, <3>1, Standing
  <2> QED
    BY <2>1, <2>2, <2>3
<1>2. n = lq_length - N(k - 1)
  <2>1. /\ N(k - 1) \in 0 .. lq_length
        /\ StandsAt(I(k), window[k].at.lq_phase, lq_head, lq_head_phase, N(k - 1), LqSize)
    BY <1>1
  <2>2. StandsAt(lq_tail, lq_tail_phase, lq_head, lq_head_phase, lq_length, LqSize)
    BY DEF LoadRing, Ring
  <2>3. lq_head \in LSlot
    BY DEF TypeOK
  <2> HIDE DEF N, I
  <2> QED
    BY <1>0, <2>1, <2>2, <2>3, NumYoungerIs
<1>3. ASSUME NEW j \in k .. Len(window), N(j - 1) < lq_length, N(k - 1) <= N(j - 1)
      PROVE  /\ N(j - 1) - N(k - 1) \in 0 .. n - 1
             /\ (I(k) + (N(j - 1) - N(k - 1))) % LqSize = I(j)
  <2>1. PICK a \in 0 .. LqSize, b \in 0 .. LqSize - 1 : a = N(k - 1) /\ b = N(j - 1)
    <3>1. j \in 1 .. Len(window)
      OBVIOUS
    <3>2. N(k - 1) \in 0 .. lq_length /\ N(j - 1) \in 0 .. lq_length
      BY <1>1, <3>1
    <3> QED
      BY <1>0, <1>3, <3>2
  <2>2. I(k) = (IF lq_head + a < LqSize THEN lq_head + a ELSE lq_head + a - LqSize)
        /\ I(j) = (IF lq_head + b < LqSize THEN lq_head + b ELSE lq_head + b - LqSize)
    BY <1>1, <2>1
  <2>3. a <= b /\ b - a \in 0 .. LqSize
    BY <1>0, <1>3, <2>1
  <2>4. I(k) \in 0 .. LqSize - 1
    BY <1>0, <2>2, SMTT(30)
  <2>5. (I(k) + (b - a)) % LqSize = IF I(k) + (b - a) < LqSize THEN I(k) + (b - a)
                                                               ELSE I(k) + (b - a) - LqSize
    BY <1>0, <2>3, <2>4, Forward
  <2>6. (I(k) + (b - a)) % LqSize = I(j)
    BY <1>0, <2>2, <2>3, <2>5
  <2>7. b - a \in 0 .. n - 1
    BY <1>0, <1>2, <1>3, <2>1, <2>3, SMTT(30)
  <2> QED
    BY <2>1, <2>6, <2>7
<1>4. /\ N(p - 1) < lq_length /\ N(k - 1) <= N(p - 1)
  <2>1. lq_length = N(Len(window))
    BY DEF LoadRing, Ring
  <2>2. k - 1 \in Nat /\ p - 1 \in Nat /\ k - 1 <= p - 1 /\ p \in Nat /\ p >= 1 /\ p <= Len(window)
    BY <1>0
  <2>3. window[p].kind = "load"
    BY DEF RanEarly
  <2> QED
    BY <1>0, <2>1, <2>2, <2>3, NumGrows
<1>5. N(p - 1) - N(k - 1) \in V
  <2>1. /\ N(p - 1) - N(k - 1) \in 0 .. n - 1
        /\ (I(k) + (N(p - 1) - N(k - 1))) % LqSize = I(p)
    BY <1>0, <1>3, <1>4
  <2>2. Hit(I(p))
    BY DEF RanEarly
  <2> QED
    BY <2>1, <2>2
<1>6. n \in Nat
  BY <1>0, <1>1, <1>2
<1>7. e \in V /\ e <= N(p - 1) - N(k - 1)
  <2>1. V \in SUBSET (0 .. n)
    BY <1>6
  <2> HIDE DEF V, n
  <2>2. e \in V /\ \A x \in V : e <= x
    BY <1>5, <1>6, <2>1, LeastChosen
  <2> QED
    BY <1>5, <2>2
<1>8. ld_violation(s, window[k].at) = (I(k) + e) % LqSize
  <2>1. V # {}
    BY <1>5
  <2> QED
    BY <2>1 DEF ld_violation
<1>9. e \in Nat /\ e + N(k - 1) <= N(p - 1)
  <2>1. e \in 0 .. n - 1
    BY <1>7
  <2>2. p \in 1 .. Len(window)
    BY <1>0
  <2>3. N(k - 1) \in Nat /\ N(p - 1) \in Nat
    BY <1>0, <1>1, <2>2
  <2> HIDE DEF e, N, n
  <2> QED
    BY <1>6, <1>7, <2>1, <2>3
<1> HIDE DEF e
<1>10. PICK q \in 1 .. Len(window) : window[q].kind = "load" /\ N(q - 1) = N(k - 1) + e
  <2>1. N(k - 1) + e \in 0 .. lq_length - 1
    <3>1. N(k - 1) \in Nat /\ N(p - 1) \in Nat
      <4>1. k - 1 \in Nat /\ p - 1 \in Nat
        BY <1>0
      <4> QED
        BY <4>1, NumType
    <3> HIDE DEF N
    <3> QED
      BY <1>0, <1>4, <1>9, <3>1
  <2>2. lq_length = N(Len(window))
    BY DEF LoadRing, Ring
  <2> QED
    BY <1>0, <2>1, <2>2, NumReached
<1>11. q <= p
  <2> SUFFICES ASSUME p < q PROVE FALSE
    BY <1>0
  <2>1. p \in Nat /\ q - 1 \in Nat /\ p <= q - 1 /\ p >= 1
    BY <1>0
  <2>2. window[p].kind = "load"
    BY DEF RanEarly
  <2>3. N(p - 1) < N(q - 1)
    BY <2>1, <2>2, NumGrows
  <2>4. N(p - 1) \in Nat /\ N(k - 1) \in Nat
    <3>1. k - 1 \in Nat /\ p - 1 \in Nat
      BY <1>0
    <3> QED
      BY <3>1, NumType
  <2> HIDE DEF N
  <2> QED
    BY <1>9, <1>10, <2>3, <2>4
<1>12. I(q) = (I(k) + e) % LqSize
  <2>1. CASE k <= q
    <3>1. N(q - 1) < lq_length /\ N(k - 1) <= N(q - 1) /\ N(q - 1) - N(k - 1) = e
      <4>1. N(q - 1) \in Nat /\ N(k - 1) \in Nat /\ N(p - 1) \in Nat
        <5>1. k - 1 \in Nat /\ p - 1 \in Nat /\ q - 1 \in Nat
          BY <1>0
        <5> QED
          BY <5>1, NumType
      <4>2. /\ N(p - 1) < lq_length /\ e \in Nat /\ e + N(k - 1) <= N(p - 1)
            /\ N(q - 1) = N(k - 1) + e /\ lq_length \in Nat
        BY <1>0, <1>4, <1>9, <1>10
      <4>3. \A x, y, z \in Nat : z < lq_length /\ e + y <= z /\ x = y + e
                                  => x < lq_length /\ y <= x /\ x - y = e
        BY <4>2
      <4> HIDE DEF N, I, V, n, Hit
      <4> QED
        BY <4>1, <4>2, <4>3
    <3>2. q \in k .. Len(window)
      BY <1>0, <2>1
    <3> QED
      BY <1>3, <3>1, <3>2
  <2>2. CASE q < k
    <3>1. q \in Nat /\ k - 1 \in Nat /\ q <= k - 1 /\ q >= 1
      BY <1>0, <2>2
    <3>2. N(q - 1) < N(k - 1)
      BY <1>10, <3>1, NumGrows
    <3>3. N(k - 1) \in Nat
      BY <3>1, NumType
    <3> HIDE DEF N
    <3> QED
      BY <1>9, <1>10, <3>2, <3>3
  <2> QED
    BY <1>0, <2>1, <2>2
<1>13. I(q) \in 0 .. LqSize - 1
  BY LqPlaces
<1>14. ld_violation(s, window[k].at) # None
  BY <1>8, <1>12, <1>13 DEF None
<1>15. q \in 1 .. p
  BY <1>0, <1>11
<1> QED
  BY <1>8, <1>10, <1>12, <1>14, <1>15

-----------------------------------------------------------------------------
(* Lemmas about a window that changes.                                     *)

(* The first k instructions of v are those of w, with their marks.         *)
Alike(v, w, k) ==
  \A j \in 1 .. k : /\ v[j].kind = w[j].kind /\ v[j].at = w[j].at /\ v[j].amo = w[j].amo
                    /\ Marked(w[j]) => Marked(v[j])

(* Marking instructions leaves everything else as it was.                  *)
LEMMA MarkingKeeps ==
  ASSUME TypeOK, NEW kind \in {"load", "store"}, NEW i,
         NEW v \in {window, WithException(kind, i), WithViolation(i)}
  PROVE  /\ v \in Seq(InWindow) /\ Len(v) = Len(window) /\ Alike(v, window, Len(window))
<1> DEFINE L == Len(window)
<1>1. /\ L \in Nat /\ DOMAIN window = 1 .. L /\ window \in Seq(InWindow)
      /\ \A k \in 1 .. L : window[k] \in InWindow
  BY WindowType DEF TypeOK
<1>2. ASSUME NEW u, DOMAIN u = 1 .. L, u = [k \in 1 .. L |-> u[k]],
             \A k \in 1 .. L : \/ u[k] = window[k]
                               \/ u[k] = [window[k] EXCEPT !.exception = TRUE]
                               \/ u[k] = [window[k] EXCEPT !.load_viol = TRUE]
      PROVE  u \in Seq(InWindow) /\ Len(u) = L /\ Alike(u, window, L)
  <2>1. \A k \in 1 .. L : /\ u[k] \in InWindow
                          /\ u[k].kind = window[k].kind /\ u[k].at = window[k].at
                          /\ u[k].amo = window[k].amo /\ (Marked(window[k]) => Marked(u[k]))
    <3> SUFFICES ASSUME NEW k \in 1 .. L
                 PROVE  /\ u[k] \in InWindow
                        /\ u[k].kind = window[k].kind /\ u[k].at = window[k].at
                        /\ u[k].amo = window[k].amo /\ (Marked(window[k]) => Marked(u[k]))
      OBVIOUS
    <3>1. window[k] \in InWindow
      BY <1>1
    <3>2. CASE u[k] = window[k]
      BY <3>1, <3>2
    <3>3. CASE u[k] = [window[k] EXCEPT !.exception = TRUE]
      BY <3>1, <3>3 DEF InWindow, Marked
    <3>4. CASE u[k] = [window[k] EXCEPT !.load_viol = TRUE]
      BY <3>1, <3>4 DEF InWindow, Marked
    <3> QED
      BY <1>2, <3>2, <3>3, <3>4
  <2>2. u \in Seq(InWindow)
    <3>1. u \in [1 .. L -> InWindow]
      BY <1>2, <2>1
    <3> QED
      BY <1>1, <3>1
  <2>3. Len(u) = L
    BY <1>1, <1>2
  <2> QED
    BY <2>1, <2>2, <2>3 DEF Alike
<1>3. CASE v = window
  BY <1>1, <1>3 DEF Alike
<1>4. CASE v = WithException(kind, i)
  <2>1. /\ DOMAIN v = 1 .. L /\ v = [k \in 1 .. L |-> v[k]]
        /\ \A k \in 1 .. L : v[k] = window[k] \/ v[k] = [window[k] EXCEPT !.exception = TRUE]
    BY <1>1, <1>4 DEF WithException
  <2> QED
    BY <1>2, <2>1
<1>5. CASE v = WithViolation(i)
  <2>1. /\ DOMAIN v = 1 .. L /\ v = [k \in 1 .. L |-> v[k]]
        /\ \A k \in 1 .. L : v[k] = window[k] \/ v[k] = [window[k] EXCEPT !.load_viol = TRUE]
    BY <1>1, <1>5 DEF WithViolation
  <2> QED
    BY <1>2, <2>1
<1> QED
  BY <1>3, <1>4, <1>5

(* What a mark marks.                                                      *)
LEMMA Marks ==
  ASSUME TypeOK, NEW k \in 1 .. Len(window), NEW i
  PROVE  /\ window[k].kind = "load" /\ i = window[k].at.lq_index
              => Marked(WithException("load", i)[k]) /\ Marked(WithViolation(i)[k])
         /\ window[k].kind = "store" /\ i = window[k].at.sq_index
              => Marked(WithException("store", i)[k])
<1>1. window[k] \in InWindow /\ k \in DOMAIN window
  BY WindowType
<1>2. \A x \in InWindow : /\ Marked([x EXCEPT !.exception = TRUE])
                          /\ Marked([x EXCEPT !.load_viol = TRUE])
  BY DEF InWindow, Marked
<1>3. ASSUME window[k].kind = "load", i = window[k].at.lq_index
      PROVE  /\ WithException("load", i)[k] = [window[k] EXCEPT !.exception = TRUE]
             /\ WithViolation(i)[k] = [window[k] EXCEPT !.load_viol = TRUE]
  BY <1>1, <1>3 DEF WithException, WithViolation
<1>4. ASSUME window[k].kind = "store", i = window[k].at.sq_index
      PROVE  WithException("store", i)[k] = [window[k] EXCEPT !.exception = TRUE]
  BY <1>1, <1>4 DEF WithException
<1> QED
  BY <1>1, <1>2, <1>3, <1>4

(* A ring does not notice marks.                                           *)
LEMMA LoadRingKept ==
  ASSUME TypeOK, LoadRing, Len(window') = Len(window), window' \in Seq(InWindow),
         Alike(window', window, Len(window)),
         ValidSlots(LQ') = ValidSlots(LQ),
         UNCHANGED <<lq_head, lq_head_phase, lq_tail, lq_tail_phase, lq_length>>
  PROVE  LoadRing'
<1> DEFINE v == window'
           I == LqIndex(window)
           J == LqIndex(v)
           P == LqPhase(window)
           Q == LqPhase(v)
           V == ValidSlots(LQ)
<1>0. Len(window) \in Nat /\ Len(v) = Len(window) /\ DOMAIN v = 1 .. Len(window)
      /\ DOMAIN window = 1 .. Len(window)
  BY WindowType
<1>1. \A k \in 1 .. Len(window) : /\ v[k].kind = window[k].kind
                                  /\ J[k] = I[k] /\ Q[k] = P[k]
  BY <1>0 DEF LqIndex, LqPhase, Alike
<1>2. Ring(window, "load", I, P, V, lq_head, lq_head_phase, lq_tail, lq_tail_phase, lq_length, LqSize)
  BY DEF LoadRing
<1>3. LoadRing' = Ring(v, "load", J, Q, V, lq_head, lq_head_phase, lq_tail, lq_tail_phase,
                       lq_length, LqSize)
  BY DEF LoadRing
<1> HIDE DEF v, I, J, P, Q, V
<1>4. Ring(v, "load", J, Q, V, lq_head, lq_head_phase, lq_tail, lq_tail_phase, lq_length, LqSize)
  BY <1>0, <1>1, <1>2, Sizes, RingAlike
<1> QED
  BY <1>3, <1>4

(* Neither does the ring of stores.                                        *)
LEMMA StoreRingKept ==
  ASSUME TypeOK, StoreRing, Len(window') = Len(window), window' \in Seq(InWindow),
         Alike(window', window, Len(window)),
         ValidSlots(SQ') = ValidSlots(SQ),
         UNCHANGED <<sq_head, sq_head_phase, sq_tail, sq_tail_phase, sq_length>>
  PROVE  StoreRing'
<1> DEFINE v == window'
           I == SqIndex(window)
           J == SqIndex(v)
           P == SqPhase(window)
           Q == SqPhase(v)
           V == ValidSlots(SQ)
<1>0. Len(window) \in Nat /\ Len(v) = Len(window) /\ DOMAIN v = 1 .. Len(window)
      /\ DOMAIN window = 1 .. Len(window)
  BY WindowType
<1>1. \A k \in 1 .. Len(window) : /\ v[k].kind = window[k].kind
                                  /\ J[k] = I[k] /\ Q[k] = P[k]
  BY <1>0 DEF SqIndex, SqPhase, Alike
<1>2. Ring(window, "store", I, P, V, sq_head, sq_head_phase, sq_tail, sq_tail_phase, sq_length, SqSize)
  BY DEF StoreRing
<1>3. StoreRing' = Ring(v, "store", J, Q, V, sq_head, sq_head_phase, sq_tail, sq_tail_phase,
                        sq_length, SqSize)
  BY DEF StoreRing
<1> HIDE DEF v, I, J, P, Q, V
<1>4. Ring(v, "store", J, Q, V, sq_head, sq_head_phase, sq_tail, sq_tail_phase, sq_length, SqSize)
  BY <1>0, <1>1, <1>2, Sizes, RingAlike
<1> QED
  BY <1>3, <1>4

-----------------------------------------------------------------------------
(* What a load in the window keeps.                                        *)

(* The entries of two loads, or of two stores, that do the same.           *)
SameLoad(l, q) ==
  /\ l.addr = q.addr /\ l.size = q.size
  /\ l.value = q.value /\ l.value_avail = q.value_avail
  /\ l.sq_index = q.sq_index /\ l.sq_index_phase = q.sq_index_phase
SameStore(s, t) ==
  s.addr = t.addr /\ s.size = t.size /\ s.value = t.value /\ s.amo = t.amo

(* The stores in front of instruction k do in v what they do in w.         *)
SameStores(v, w, sqs2, sqs, k) ==
  \A j \in 1 .. k - 1 : w[j].kind = "store"
    => SameStore(sqs2[w[j].at.sq_index], sqs[w[j].at.sq_index])

(* A value stays right when the stores that write the byte are the same.   *)
LEMMA RightKept ==
  ASSUME NEW v, NEW w, NEW sqs, NEW sqs2, NEW m, NEW b, NEW x, NEW k,
         RightValue(w, sqs, m, b, k, x),
         (\E j \in 1 .. k - 1 : Writes(w, sqs, b, k, j)) => \E j \in 1 .. k - 1 : Writes(v, sqs2, b, k, j),
         \A j \in 1 .. k - 1 : WritesLast(v, sqs2, b, k, j) => WritesLast(w, sqs, b, k, j),
         \A j \in 1 .. k - 1 : WritesLast(w, sqs, b, k, j) /\ StoreValueAvail(sqs[w[j].at.sq_index])
           => /\ sqs2[v[j].at.sq_index].value = sqs[w[j].at.sq_index].value
              /\ sqs2[v[j].at.sq_index].addr = sqs[w[j].at.sq_index].addr
  PROVE  RightValue(v, sqs2, m, b, k, x)
<1>1. (\A j \in 1 .. k - 1 : ~Writes(v, sqs2, b, k, j)) => x = m[b]
  BY DEF RightValue
<1>2. ASSUME NEW j \in 1 .. k - 1, WritesLast(v, sqs2, b, k, j)
      PROVE  /\ StoreValueAvail(sqs2[v[j].at.sq_index])
             /\ x = sqs2[v[j].at.sq_index].value[b - sqs2[v[j].at.sq_index].addr]
  <2>1. /\ StoreValueAvail(sqs[w[j].at.sq_index])
        /\ x = sqs[w[j].at.sq_index].value[b - sqs[w[j].at.sq_index].addr]
    BY <1>2 DEF RightValue
  <2>2. /\ sqs2[v[j].at.sq_index].value = sqs[w[j].at.sq_index].value
        /\ sqs2[v[j].at.sq_index].addr = sqs[w[j].at.sq_index].addr
    BY <1>2, <2>1
  <2> QED
    BY <2>1, <2>2 DEF StoreValueAvail
<1> QED
  BY <1>1, <1>2 DEF RightValue

(* An older mark is still there in a window that is alike.                 *)
LEMMA UnmarkedKept ==
  ASSUME NEW v, NEW w, NEW k, Alike(v, w, k), Unmarked(v, k)
  PROVE  Unmarked(w, k)
BY DEF Alike, Unmarked

(* What holds of instruction k holds still when neither it nor the stores  *)
(* in front of it change.                                                  *)
LEMMA ValueKept ==
  ASSUME NEW v, NEW w, NEW k \in Nat \ {0}, Alike(v, w, k),
         NEW lqs, NEW lqs2, NEW sqs, NEW sqs2, NEW m,
         w[k].kind = "load" => SameLoad(lqs2[w[k].at.lq_index], lqs[w[k].at.lq_index]),
         SameStores(v, w, sqs2, sqs, k),
         ValueAt(w, lqs, sqs, m, k), WaitAt(w, lqs, sqs, k)
  PROVE  ValueAt(v, lqs2, sqs2, m, k) /\ WaitAt(v, lqs2, sqs2, k)
<1> DEFINE l == lqs[w[k].at.lq_index]
           q == lqs2[v[k].at.lq_index]
           S(j) == sqs[w[j].at.sq_index]
           T(j) == sqs2[v[j].at.sq_index]
<1>0. \A j \in 1 .. k - 1 : /\ v[j].kind = w[j].kind /\ v[j].at = w[j].at
                            /\ w[j].kind = "store" => SameStore(T(j), S(j))
  <2>1. \A j \in 1 .. k - 1 : j \in 1 .. k
    OBVIOUS
  <2> QED
    BY <2>1 DEF Alike, SameStores
<1>1. v[k].kind = w[k].kind /\ v[k].at = w[k].at
  BY DEF Alike
<1>2. ASSUME HasValue(v, lqs2, k)
      PROVE  HasValue(w, lqs, k) /\ SameLoad(q, l)
  BY <1>1, <1>2 DEF HasValue, SameLoad
<1>3. ASSUME HasValue(v, lqs2, k), Unmarked(v, k)
      PROVE  LoadRight(v, q, sqs2, m, k)
  <2>1. LoadRight(w, l, sqs, m, k)
    BY <1>2, <1>3, UnmarkedKept DEF ValueAt
  <2>2. q.addr = l.addr /\ q.size = l.size /\ q.value = l.value
    BY <1>2, <1>3 DEF SameLoad
  <2>3. ASSUME NEW b \in Span(l.addr, l.size)
        PROVE  RightValue(v, sqs2, m, b, k, l.value[b - l.addr])
    <3>1. RightValue(w, sqs, m, b, k, l.value[b - l.addr])
      BY <2>1, <2>3 DEF LoadRight
    <3>2. \A j \in 1 .. k - 1 : Writes(v, sqs2, b, k, j) <=> Writes(w, sqs, b, k, j)
      BY <1>0 DEF Writes, SameStore, AddrAvail
    <3>3. \A j \in 1 .. k - 1 : WritesLast(v, sqs2, b, k, j) => WritesLast(w, sqs, b, k, j)
      <4>1. \A j \in 1 .. k - 1 : \A i \in j + 1 .. k - 1 : i \in 1 .. k - 1
        OBVIOUS
      <4> QED
        BY <3>2, <4>1 DEF WritesLast
    <3>4. \A j \in 1 .. k - 1 : WritesLast(w, sqs, b, k, j)
            => T(j).value = S(j).value /\ T(j).addr = S(j).addr
      BY <1>0 DEF WritesLast, Writes, SameStore
    <3> QED
      BY <3>1, <3>2, <3>3, <3>4, RightKept, ZenonT(30)
  <2> QED
    BY <2>1, <2>2, <2>3 DEF LoadRight
<1>4. WaitAt(v, lqs2, sqs2, k)
  <2> SUFFICES ASSUME HasValue(v, lqs2, k), ~SpecDisambig,
                      NEW j \in 1 .. k - 1, v[j].kind = "store", ~AddrAvail(T(j))
               PROVE  Covered(v, lqs2, sqs2, j, k)
    BY DEF WaitAt
  <2>1. w[j].kind = "store" /\ ~AddrAvail(S(j))
    BY <1>0 DEF SameStore, AddrAvail
  <2>2. Covered(w, lqs, sqs, j, k)
    BY <1>2, <2>1 DEF WaitAt
  <2>3. PICK i \in j + 1 .. k - 1 : /\ w[i].kind = "store" /\ AddrAvail(S(i))
                                    /\ S(i).addr = l.addr /\ S(i).size = l.size
    BY <2>2 DEF Covered
  <2>4. i \in 1 .. k - 1
    OBVIOUS
  <2>5. v[i].kind = "store" /\ AddrAvail(T(i)) /\ T(i).addr = q.addr /\ T(i).size = q.size
    BY <1>0, <1>2, <2>3, <2>4 DEF SameStore, SameLoad, AddrAvail
  <2> QED
    BY <2>5 DEF Covered
<1> QED
  BY <1>3, <1>4 DEF ValueAt

(* An aligned access lies in memory.                                       *)
LEMMA AddrsIs ==
  ASSUME NEW n \in Size, NEW a \in Addrs(n)
  PROVE  /\ n \in {1, 2, 4, 8} /\ a \in Nat /\ a \in Byte /\ a % n = 0 /\ a # None
         /\ Span(a, n) \subseteq Byte
         /\ \A b \in Span(a, n) : b \in Nat /\ b - a \in 0 .. n - 1
         /\ \A d \in 0 .. n - 1 : a + d \in Span(a, n)
<1>1. n \in {1, 2, 4, 8} /\ a \in Byte /\ a \in Nat /\ a % n = 0 /\ Span(a, n) \subseteq Byte
  BY LsuAssumption DEF Addrs
<1>2. /\ \A b \in Span(a, n) : b \in Nat /\ b - a \in 0 .. n - 1
      /\ \A d \in 0 .. n - 1 : a + d \in Span(a, n)
  BY <1>1 DEF Span
<1> QED
  BY <1>1, <1>2 DEF None

(* A store whose address is known and a load that share a byte overlap.    *)
LEMMA SharesByte ==
  ASSUME NEW s, StoreEntryOK(s), AddrAvail(s), NEW l, l.size \in Size, l.addr \in Addrs(l.size)
  PROVE  /\ \A b : b \in Span(s.addr, s.size) /\ b \in Span(l.addr, l.size) => Overlap(s, l)
         /\ Overlap(s, l) /\ s.size = l.size => s.addr = l.addr
<1>1. s.size \in Size /\ s.addr \in Addrs(s.size)
  BY DEF StoreEntryOK
<1>2. /\ s.size \in {1, 2, 4, 8} /\ s.addr \in Nat /\ s.addr % s.size = 0
      /\ \A b \in Span(s.addr, s.size) : b \in Nat
  BY <1>1, AddrsIs
<1>3. l.size \in {1, 2, 4, 8} /\ l.addr \in Nat /\ l.addr % l.size = 0
  BY AddrsIs
<1> QED
  BY <1>2, <1>3, OverlapIs

(* The entry of a store in the window is well formed.                      *)
LEMMA StoreOK ==
  ASSUME IInv, NEW k \in 1 .. Len(window), window[k].kind = "store"
  PROVE  /\ window[k].at.sq_index \in SSlot
         /\ SQ[window[k].at.sq_index].valid /\ StoreEntryOK(SQ[window[k].at.sq_index])
BY SqPlaces, Sizes DEF IInv

(* A load that executes without a trap gets the right value, and one that  *)
(* must wait has waited, or has its value from the store in between.       *)
LEMMA LoadRuns ==
  ASSUME IInv, NEW k \in 1 .. Len(window), window[k].kind = "load",
         NEW i, i = window[k].at.lq_index,
         NEW l, l.sq_index = LQ[i].sq_index, l.sq_index_phase = LQ[i].sq_index_phase,
         l.size = LQ[i].size, l.mdp_stall = LQ[i].mdp_stall,
         l.addr \in Addrs(l.size), Executes(i, l)
  PROVE  /\ ~Faults(l) => /\ LoadValue(l) \in Values(l.size)
                          /\ \A b \in Span(l.addr, l.size) :
                               RightValue(window, SQ, mem, b, k, LoadValue(l)[b - l.addr])
         /\ ~SpecDisambig => \A j \in 1 .. k - 1 : window[j].kind = "store"
              => \/ AddrAvail(SQ[window[j].at.sq_index])
                 \/ \E h \in j + 1 .. k - 1 :
                      /\ window[h].kind = "store" /\ AddrAvail(SQ[window[h].at.sq_index])
                      /\ SQ[window[h].at.sq_index].addr = l.addr
                      /\ SQ[window[h].at.sq_index].size = l.size
<1> DEFINE S(j) == SQ[window[j].at.sq_index]
<1>0. /\ TypeOK /\ StoreRing /\ LoadRing /\ Len(window) \in Nat /\ k \in 1 .. Len(window)
      /\ \A j \in 1 .. k - 1 : j \in 1 .. Len(window)
  BY WindowType DEF IInv
<1>1. /\ l.sq_index = window[k].at.sq_index /\ l.sq_index_phase = window[k].at.sq_phase
      /\ LQ[i].valid /\ i \in LSlot
  BY <1>0, LqPlaces, Sizes DEF IInv, Links, LinkAt
<1>2. /\ l.size \in Size
      /\ ~SpecDisambig => l.mdp_stall
  BY <1>1 DEF IInv, LoadEntryOK
<1>3. \A j \in 1 .. k - 1 : window[j].kind = "store" => StoreEntryOK(S(j))
  BY <1>0, StoreOK
<1>4. ASSUME NEW j \in 1 .. k - 1, NEW b \in Span(l.addr, l.size), Writes(window, SQ, b, k, j)
      PROVE  DecidesFor(l, k, j)
  <2>1. window[j].kind = "store" /\ AddrAvail(S(j)) /\ b \in Span(S(j).addr, S(j).size)
    BY <1>4 DEF Writes
  <2>2. Overlap(S(j), l)
    BY <1>2, <1>3, <2>1, SharesByte
  <2> QED
    BY <2>1, <2>2 DEF DecidesFor, Decides
<1>5. CASE disambiguate(l) = None /\ \A j \in 1 .. k - 1 : ~DecidesFor(l, k, j)
  <2>1. ASSUME ~SpecDisambig, NEW j \in 1 .. k - 1, window[j].kind = "store"
        PROVE  AddrAvail(S(j))
    BY <1>2, <1>5, <2>1 DEF DecidesFor, Decides
  <2>2. ASSUME ~Faults(l)
        PROVE  /\ LoadValue(l) \in Values(l.size)
               /\ \A b \in Span(l.addr, l.size) :
                    RightValue(window, SQ, mem, b, k, LoadValue(l)[b - l.addr])
    <3>1. LoadValue(l) = [d \in 0 .. l.size - 1 |-> mem[l.addr + d]]
      BY <1>5, <2>2 DEF Faults, LoadValue, Read
    <3>2. /\ l.addr \in Nat /\ l.size \in {1, 2, 4, 8} /\ Span(l.addr, l.size) \subseteq Byte
          /\ \A b \in Span(l.addr, l.size) : b \in Nat /\ b - l.addr \in 0 .. l.size - 1
      BY <1>2, AddrsIs
    <3>3. \A d \in 0 .. l.size - 1 : mem[l.addr + d] \in Val
      <4>1. \A d \in 0 .. l.size - 1 : l.addr + d \in Span(l.addr, l.size)
        BY <1>2, AddrsIs
      <4> QED
        BY <1>0, <3>2, <4>1 DEF TypeOK
    <3>4. ASSUME NEW b \in Span(l.addr, l.size)
          PROVE  RightValue(window, SQ, mem, b, k, LoadValue(l)[b - l.addr])
      <4>1. LoadValue(l)[b - l.addr] = mem[b]
        <5>1. b - l.addr \in 0 .. l.size - 1 /\ l.addr + (b - l.addr) = b
          BY <3>2, SMTT(30)
        <5> QED
          BY <3>1, <5>1
      <4>2. \A j \in 1 .. k - 1 : ~WritesLast(window, SQ, b, k, j)
        BY <1>4, <1>5 DEF WritesLast
      <4> QED
        BY <4>1, <4>2 DEF RightValue
    <3> QED
      BY <3>1, <3>3, <3>4 DEF Values
  <2> QED
    BY <2>1, <2>2
<1>6. CASE \E j \in 1 .. k - 1 : /\ disambiguate(l) # None /\ disambiguate(l) = window[j].at.sq_index
                                 /\ DecidesFor(l, k, j)
                                 /\ \A h \in j + 1 .. k - 1 : ~DecidesFor(l, k, h)
  <2>1. PICK j \in 1 .. k - 1 : /\ disambiguate(l) # None /\ disambiguate(l) = window[j].at.sq_index
                                /\ DecidesFor(l, k, j)
                                /\ \A h \in j + 1 .. k - 1 : ~DecidesFor(l, k, h)
    BY <1>6
  <2>2. AddrAvail(S(j)) /\ S(j).size = l.size /\ StoreValueAvail(S(j)) /\ LoadValue(l) = S(j).value
    BY <2>1 DEF Executes, Forwards, LoadValue
  <2>3. window[j].kind = "store" /\ Overlap(S(j), l)
    BY <2>1, <2>2 DEF DecidesFor, Decides
  <2>4. S(j).addr = l.addr /\ S(j).value \in Values(l.size)
    <3>1. StoreEntryOK(S(j))
      BY <1>3, <2>3
    <3> QED
      BY <1>2, <2>2, <2>3, <3>1, SharesByte DEF StoreEntryOK
  <2>5. ASSUME ~SpecDisambig, NEW g \in 1 .. k - 1, window[g].kind = "store"
        PROVE  \/ AddrAvail(S(g))
               \/ \E h \in g + 1 .. k - 1 : /\ window[h].kind = "store" /\ AddrAvail(S(h))
                                            /\ S(h).addr = l.addr /\ S(h).size = l.size
    <3>1. CASE g < j
      <4>1. j \in g + 1 .. k - 1
        BY <1>0, <3>1
      <4> QED
        BY <2>2, <2>3, <2>4, <4>1
    <3>2. CASE g = j
      BY <2>2, <3>2
    <3>3. CASE g > j
      <4>1. g \in j + 1 .. k - 1
        BY <1>0, <3>3
      <4> QED
        BY <1>2, <2>1, <2>5, <4>1 DEF DecidesFor, Decides
    <3>4. g < j \/ g = j \/ g > j
      BY <1>0
    <3> QED
      BY <3>1, <3>2, <3>3, <3>4
  <2>6. ASSUME NEW b \in Span(l.addr, l.size)
        PROVE  RightValue(window, SQ, mem, b, k, LoadValue(l)[b - l.addr])
    <3>1. Writes(window, SQ, b, k, j)
      BY <2>2, <2>3, <2>4 DEF Writes
    <3>2. \A g \in 1 .. k - 1 : WritesLast(window, SQ, b, k, g) => g = j
      <4> SUFFICES ASSUME NEW g \in 1 .. k - 1, WritesLast(window, SQ, b, k, g), g # j PROVE FALSE
        OBVIOUS
      <4>1. CASE g < j
        <5>1. j \in g + 1 .. k - 1
          BY <1>0, <4>1
        <5> QED
          BY <3>1, <5>1 DEF WritesLast
      <4>2. CASE g > j
        <5>1. g \in j + 1 .. k - 1
          BY <1>0, <4>2
        <5> QED
          BY <1>4, <2>1, <5>1 DEF WritesLast
      <4> QED
        BY <1>0, <4>1, <4>2
    <3> QED
      BY <2>2, <2>4, <3>1, <3>2 DEF RightValue
  <2> QED
    BY <2>2, <2>4, <2>5, <2>6
<1> QED
  BY <1>0, <1>1, <1>5, <1>6, DisambiguateIs

-----------------------------------------------------------------------------
(* The steps of the unit, one lemma for each.                              *)

(* What an execution attempt leaves in the entry of a load.                *)
LEMMA ExecutedLoad ==
  ASSUME IInv, NEW i, NEW l \in LoadEntry, l.valid, LoadEntryOK(l), AddrAvail(l),
         NEW q, q = execute_load(i, l)
  PROVE  /\ q \in LoadEntry /\ LoadEntryOK(q)
         /\ q.valid /\ q.addr = l.addr /\ q.size = l.size
         /\ q.sq_index = l.sq_index /\ q.sq_index_phase = l.sq_index_phase
         /\ Executes(i, l) => q.value = LoadValue(l)
         /\ ~Executes(i, l) => q = l
<1>1. CASE ~Executes(i, l)
  BY <1>1 DEF execute_load
<1>2. CASE Executes(i, l)
  <2>1. l.size \in Size /\ l.addr \in Addrs(l.size)
    BY DEF LoadEntryOK
  <2>2. LoadValue(l) \in QueueValues
    <3>1. CASE disambiguate(l) # None
      <4>1. Forwards(SQ[disambiguate(l)], l)
        BY <1>2, <3>1 DEF Executes
      <4>2. disambiguate(l) \in SSlot
        <5>1. \A x, d \in Int : Back(x, d) \in SSlot
          BY Sizes DEF Back
        <5>2. l.sq_index \in Int
          BY Sizes DEF LoadEntry
        <5>3. PICK n \in Int : n = NumOlder(l.sq_index, l.sq_index_phase)
          <6>1. sq_head \in Int
            BY Sizes DEF IInv, TypeOK
          <6>2. (l.sq_index - sq_head) % SqSize \in Int
            BY <5>2, <6>1, Sizes
          <6> QED
            BY <6>2, Sizes DEF NumOlder
        <5> DEFINE D == {d \in 1 .. n : Decides(SQ[Back(l.sq_index, d)], l)}
                   d == CHOOSE d \in D : \A e \in D : d <= e
        <5>4. disambiguate(l) = Back(l.sq_index, d) /\ D # {}
          BY <3>1, <5>3 DEF disambiguate
        <5>5. D \in SUBSET (0 .. n) /\ n \in Nat
          BY <5>3, <5>4
        <5>6. d \in D
          <6> HIDE DEF D
          <6> QED
            BY <5>4, <5>5, LeastChosen
        <5>7. d \in Int
          BY <5>6
        <5> HIDE DEF d
        <5> QED
          BY <5>1, <5>2, <5>4, <5>7
      <4>3. SQ[disambiguate(l)].value \in QueueValues
        BY <4>2 DEF IInv, TypeOK, StoreEntry
      <4> QED
        BY <3>1, <4>3 DEF LoadValue
    <3>2. CASE disambiguate(l) = None /\ l.addr \in Fault
      BY <3>2 DEF LoadValue, LoadEntry
    <3>3. CASE disambiguate(l) = None /\ l.addr \notin Fault
      <4>1. LoadValue(l) = [d \in 0 .. l.size - 1 |-> mem[l.addr + d]]
        BY <3>3 DEF LoadValue, Read
      <4>2. \A d \in 0 .. l.size - 1 : mem[l.addr + d] \in Val
        <5>1. \A d \in 0 .. l.size - 1 : l.addr + d \in Byte
          BY <2>1, AddrsIs
        <5> QED
          BY <5>1 DEF IInv, TypeOK
      <4>3. LoadValue(l) \in Values(l.size)
        BY <4>1, <4>2 DEF Values
      <4> QED
        BY <2>1, <4>3 DEF QueueValues
    <3> QED
      BY <3>1, <3>2, <3>3
  <2>3. q = [l EXCEPT !.value = LoadValue(l), !.value_avail = TRUE]
    BY <1>2 DEF execute_load
  <2>4. /\ q.valid = l.valid /\ q.addr = l.addr /\ q.size = l.size /\ q.mdp_stall = l.mdp_stall
        /\ q.sq_index = l.sq_index /\ q.sq_index_phase = l.sq_index_phase
        /\ q.value = LoadValue(l) /\ q.value_avail = TRUE
    BY <2>3 DEF LoadEntry
  <2>5. q \in LoadEntry
    BY <2>2, <2>3 DEF LoadEntry
  <2>6. LoadEntryOK(q)
    BY <2>4 DEF LoadEntryOK, AddrAvail
  <2> QED
    BY <1>2, <2>4, <2>5, <2>6
<1> QED
  BY <1>1, <1>2

(* A load makes an attempt: it gets its value, and if it must trap it is   *)
(* marked, or it stays as it was but for what it waits for.                *)
LEMMA LoadMoves ==
  ASSUME IInv, NEW i \in LSlot, LQ[i].valid, ~LQ[i].value_avail,
         NEW l \in LoadEntry, l.valid, LoadEntryOK(l), AddrAvail(l), ~l.value_avail,
         l.sq_index = LQ[i].sq_index, l.sq_index_phase = LQ[i].sq_index_phase,
         l.size = LQ[i].size, l.mdp_stall = LQ[i].mdp_stall,
         LQ' = [LQ EXCEPT ![i] = execute_load(i, l)],
         window' = IF Executes(i, l) /\ Faults(l) THEN WithException("load", i) ELSE window,
         UNCHANGED <<lq_head, lq_tail, lq_head_phase, lq_tail_phase, lq_length,
                     sq, mem, load_reservation>>
  PROVE  IInv'
<1> DEFINE q == execute_load(i, l)
           v == window'
           L == Len(window)
<1>0. /\ TypeOK /\ LoadRing /\ StoreRing /\ L \in Nat
      /\ \A k \in 1 .. L : window[k].at.lq_index \in LSlot
      /\ SQ' = SQ /\ mem' = mem
  BY WindowType, LqPlaces, Sizes DEF IInv, sq
<1>1. PICK p \in 1 .. L : window[p].kind = "load" /\ window[p].at.lq_index = i
  BY <1>0, LqOwner
<1>2. v \in Seq(InWindow) /\ Len(v) = L /\ Alike(v, window, L)
  <2>1. v \in {window, WithException("load", i), WithViolation(i)}
    OBVIOUS
  <2> HIDE DEF v
  <2> QED
    BY <1>0, <2>1, MarkingKeeps
<1>3. /\ q \in LoadEntry /\ LoadEntryOK(q)
      /\ q.valid /\ q.addr = l.addr /\ q.size = l.size
      /\ q.sq_index = l.sq_index /\ q.sq_index_phase = l.sq_index_phase
      /\ Executes(i, l) => q.value = LoadValue(l)
      /\ ~Executes(i, l) => q = l
  <2>1. q = execute_load(i, l)
    OBVIOUS
  <2> HIDE DEF q
  <2>2. q \in LoadEntry /\ LoadEntryOK(q)
    BY <2>1, ExecutedLoad
  <2>3. q.valid /\ q.addr = l.addr /\ q.size = l.size
    BY <2>1, ExecutedLoad
  <2>4. q.sq_index = l.sq_index /\ q.sq_index_phase = l.sq_index_phase
    BY <2>1, ExecutedLoad
  <2>5. (Executes(i, l) => q.value = LoadValue(l)) /\ (~Executes(i, l) => q = l)
    BY <2>1, ExecutedLoad
  <2> QED
    BY <2>2, <2>3, <2>4, <2>5
<1> HIDE DEF q
<1>4. /\ DOMAIN LQ = LSlot /\ DOMAIN LQ' = LSlot /\ LQ'[i] = q
      /\ \A h \in LSlot : h # i => LQ'[h] = LQ[h]
  BY <1>0 DEF TypeOK, q
<1>5. TypeOK'
  <2>1. LQ' \in [LSlot -> LoadEntry]
    BY <1>0, <1>3 DEF TypeOK, q
  <2> QED
    BY <1>0, <1>2, <2>1 DEF TypeOK, sq
<1>6. ValidSlots(LQ') = ValidSlots(LQ) /\ ValidSlots(SQ') = ValidSlots(SQ)
  BY <1>0, <1>3, <1>4 DEF ValidSlots
<1>7. LoadRing' /\ StoreRing'
  BY <1>0, <1>2, <1>6, LoadRingKept, StoreRingKept DEF sq
<1>8. \A k \in 1 .. L : v[k].kind = window[k].kind /\ v[k].at = window[k].at /\ v[k].amo = window[k].amo
  BY <1>2 DEF Alike
<1>9. \A k \in 1 .. L : LinkAt(v, LQ', SQ', k)
  <2> SUFFICES ASSUME NEW k \in 1 .. L PROVE LinkAt(v, LQ', SQ', k)
    OBVIOUS
  <2>1. LinkAt(window, LQ, SQ, k)
    BY DEF IInv, Links
  <2>2. /\ LQ'[window[k].at.lq_index].sq_index = LQ[window[k].at.lq_index].sq_index
        /\ LQ'[window[k].at.lq_index].sq_index_phase = LQ[window[k].at.lq_index].sq_index_phase
    BY <1>0, <1>3, <1>4
  <2> HIDE DEF v
  <2> QED
    BY <1>0, <1>2, <1>8, <2>1, <2>2 DEF LinkAt
<1>10. \A k \in 1 .. L : ValueAt(v, LQ', SQ', mem', k) /\ WaitAt(v, LQ', SQ', k)
  <2> SUFFICES ASSUME NEW k \in 1 .. L PROVE ValueAt(v, LQ', SQ', mem', k) /\ WaitAt(v, LQ', SQ', k)
    OBVIOUS
  <2>0. k \in Nat \ {0} /\ Alike(v, window, k)
    BY <1>0, <1>2 DEF Alike
  <2>1. SameStores(v, window, SQ', SQ, k)
    BY <1>0 DEF SameStores, SameStore
  <2>2. ValueAt(window, LQ, SQ, mem, k) /\ WaitAt(window, LQ, SQ, k)
    BY DEF IInv, ValuesRight
  <2>3. CASE k # p
    <3>1. window[k].kind = "load" => LQ'[window[k].at.lq_index] = LQ[window[k].at.lq_index]
      BY <1>0, <1>1, <1>4, <2>3, LqPlaces
    <3>2. window[k].kind = "load" => SameLoad(LQ'[window[k].at.lq_index], LQ[window[k].at.lq_index])
      BY <3>1 DEF SameLoad
    <3> HIDE DEF v
    <3>3. ValueAt(v, LQ', SQ', mem, k) /\ WaitAt(v, LQ', SQ', k)
      BY <2>0, <2>1, <2>2, <3>2, ValueKept
    <3> QED
      BY <1>0, <3>3
  <2>4. CASE k = p /\ ~Executes(i, l)
    <3>1. ~HasValue(v, LQ', k)
      BY <1>1, <1>3, <1>4, <1>8, <2>4 DEF HasValue
    <3> QED
      BY <3>1 DEF ValueAt, WaitAt
  <2>5. CASE k = p /\ Executes(i, l)
    <3>1. v[k].at.lq_index = i /\ LQ'[v[k].at.lq_index] = q
      BY <1>1, <1>4, <1>8, <2>5
    <3>2. l.addr \in Addrs(l.size)
      BY DEF LoadEntryOK
    <3>3. /\ ~Faults(l) => /\ LoadValue(l) \in Values(l.size)
                           /\ \A b \in Span(l.addr, l.size) :
                                RightValue(window, SQ, mem, b, k, LoadValue(l)[b - l.addr])
          /\ ~SpecDisambig => \A j \in 1 .. k - 1 : window[j].kind = "store"
               => \/ AddrAvail(SQ[window[j].at.sq_index])
                  \/ \E h \in j + 1 .. k - 1 :
                       /\ window[h].kind = "store" /\ AddrAvail(SQ[window[h].at.sq_index])
                       /\ SQ[window[h].at.sq_index].addr = l.addr
                       /\ SQ[window[h].at.sq_index].size = l.size
      BY <1>1, <2>5, <3>2, LoadRuns
    <3>4. WaitAt(v, LQ', SQ', k)
      <4>1. \A j \in 1 .. k - 1 : \A h \in j + 1 .. k - 1 : h \in 1 .. L
        BY <1>0
      <4>2. \A j \in 1 .. k - 1 : j \in 1 .. L
        BY <1>0
      <4> HIDE DEF v
      <4> QED
        BY <1>0, <1>3, <1>8, <3>1, <3>3, <4>1, <4>2, SMTT(30) DEF WaitAt, Covered
    <3>5. ASSUME Unmarked(v, k) PROVE LoadRight(v, q, SQ', mem', k)
      <4>1. ~Faults(l)
        <5> SUFFICES ASSUME Faults(l) PROVE FALSE
          OBVIOUS
        <5>1. v = WithException("load", i)
          BY <2>5
        <5>2. Marked(WithException("load", i)[k])
          BY <1>0, <1>1, <2>5, Marks
        <5>3. k \in 1 .. k
          BY <2>0
        <5> QED
          BY <3>5, <5>1, <5>2, <5>3 DEF Unmarked
      <4>2. v = window
        BY <4>1
      <4> HIDE DEF v
      <4> QED
        BY <1>0, <1>3, <2>5, <3>3, <4>1, <4>2 DEF LoadRight
    <3> QED
      BY <3>1, <3>4, <3>5 DEF ValueAt
  <2> QED
    BY <2>3, <2>4, <2>5
<1>11. Links(window, LQ, SQ)' /\ ValuesRight(window, LQ, SQ, mem)'
  BY <1>2, <1>9, <1>10 DEF Links, ValuesRight
<1>12. (\A h \in LSlot : LoadEntryOK(LQ[h]))'
  BY <1>3, <1>4 DEF IInv
<1>13. (\A h \in SSlot : StoreEntryOK(SQ[h]))'
  BY <1>0 DEF IInv
<1> QED
  BY <1>5, <1>7, <1>11, <1>12, <1>13 DEF IInv

(* LoadAddr keeps the invariant.                                           *)
LEMMA LoadAddrKeeps ==
  ASSUME IInv, NEW i \in LSlot, NEW a \in Byte, NEW miss \in BOOLEAN, LoadAddr(i, a, miss)
  PROVE  IInv'
<1> DEFINE l == [LQ[i] EXCEPT !.addr = a, !.missed = miss]
<1>1. /\ LQ[i].valid /\ ~AddrAvail(LQ[i]) /\ a \in Addrs(LQ[i].size)
      /\ LQ' = [LQ EXCEPT ![i] = execute_load(i, l)]
      /\ window' = IF Executes(i, l) /\ Faults(l) THEN WithException("load", i) ELSE window
      /\ UNCHANGED <<lq_head, lq_tail, lq_head_phase, lq_tail_phase, lq_length,
                     sq, mem, load_reservation>>
  BY DEF LoadAddr
<1>2. LQ[i] \in LoadEntry /\ LoadEntryOK(LQ[i])
  BY DEF IInv, TypeOK
<1>3. /\ l \in LoadEntry /\ l.valid /\ l.addr = a /\ l.value_avail = LQ[i].value_avail
      /\ l.sq_index = LQ[i].sq_index /\ l.sq_index_phase = LQ[i].sq_index_phase
      /\ l.size = LQ[i].size /\ l.mdp_stall = LQ[i].mdp_stall
  BY <1>1, <1>2 DEF LoadEntry
<1>4. ~LQ[i].value_avail /\ ~l.value_avail
  BY <1>1, <1>2, <1>3 DEF LoadEntryOK
<1>5. AddrAvail(l)
  <2>1. a # None
    BY LsuAssumption DEF None
  <2> QED
    BY <1>3, <2>1 DEF AddrAvail
<1>6. LoadEntryOK(l)
  BY <1>1, <1>2, <1>3, <1>4 DEF LoadEntryOK
<1> HIDE DEF l
<1> QED
  BY <1>1, <1>3, <1>4, <1>5, <1>6, LoadMoves

(* LoadReplay keeps the invariant: the load it finds is in the window.     *)
LEMMA LoadReplayKeeps ==
  ASSUME IInv, LoadReplay
  PROVE  IInv'
<1> DEFINE d == CHOOSE x \in Unstalled : \A y \in Unstalled : x <= y
           i == (lq_head + d) % LqSize
<1>1. /\ LQ' = [LQ EXCEPT ![i] = execute_load(i, LQ[i])]
      /\ window' = IF Faults(LQ[i]) THEN WithException("load", i) ELSE window
      /\ UNCHANGED <<lq_head, lq_tail, lq_head_phase, lq_tail_phase, lq_length,
                     sq, mem, load_reservation>>
      /\ Unstalled # {}
  BY DEF LoadReplay
<1>2. /\ TypeOK /\ LoadRing /\ lq_head \in 0 .. LqSize - 1 /\ lq_length \in 0 .. LqSize
      /\ LqSize \in Nat \ {0} /\ LSlot = 0 .. LqSize - 1
  BY Sizes DEF IInv, TypeOK
<1>3. d \in Unstalled
  <2>1. Unstalled \in SUBSET (0 .. lq_length)
    BY <1>2 DEF Unstalled
  <2>2. lq_length \in Nat
    BY <1>2
  <2> QED
    BY <1>1, <2>1, <2>2, LeastChosen
<1>4. /\ d \in 0 .. lq_length - 1
      /\ AddrAvail(LQ[i]) /\ ~LQ[i].value_avail /\ Executes(i, LQ[i])
  BY <1>3 DEF Unstalled
<1> HIDE DEF d
<1>5. i \in LSlot /\ Within(i, lq_head, lq_length, LqSize)
  <2>1. i = IF lq_head + d < LqSize THEN lq_head + d ELSE lq_head + d - LqSize
    <3>1. d \in 0 .. LqSize
      BY <1>2, <1>4
    <3> QED
      BY <1>2, <3>1, Forward
  <2>2. i \in 0 .. LqSize - 1 /\ (IF lq_head <= i THEN i - lq_head ELSE i - lq_head + LqSize) < lq_length
    BY <1>2, <1>4, <2>1
  <2> HIDE DEF i
  <2> QED
    BY <1>2, <2>2, WithinIs
<1> HIDE DEF i
<1>6. LQ[i].valid
  <2>1. i \in ValidSlots(LQ)
    BY <1>2, <1>5 DEF LoadRing, Ring
  <2> QED
    BY <2>1 DEF ValidSlots
<1>7. LQ[i] \in LoadEntry /\ LoadEntryOK(LQ[i])
  BY <1>5 DEF IInv, TypeOK
<1> QED
  BY <1>1, <1>4, <1>5, <1>6, <1>7, LoadMoves

(* Nothing that matters moves when the entries of loads change in what     *)
(* they wait for and instructions of the window in whether they resolved.  *)
LEMMA NothingMoves ==
  ASSUME IInv, TypeOK', Len(window') = Len(window), Alike(window', window, Len(window)),
         \A i \in LSlot : /\ SameLoad(LQ'[i], LQ[i]) /\ (LQ'[i].valid <=> LQ[i].valid)
                          /\ LoadEntryOK(LQ'[i]),
         UNCHANGED <<lq_head, lq_tail, lq_head_phase, lq_tail_phase, lq_length, sq, mem>>
  PROVE  IInv'
<1> DEFINE v == window'
           L == Len(window)
<1>0. /\ TypeOK /\ LoadRing /\ StoreRing /\ L \in Nat /\ v \in Seq(InWindow) /\ Len(v) = L
      /\ \A k \in 1 .. L : window[k].at.lq_index \in LSlot
      /\ SQ' = SQ /\ mem' = mem
      /\ \A k \in 1 .. L : v[k].kind = window[k].kind /\ v[k].at = window[k].at /\ v[k].amo = window[k].amo
  <2>1. v \in Seq(InWindow)
    BY DEF TypeOK
  <2> QED
    BY <2>1, WindowType, LqPlaces, Sizes DEF IInv, sq, Alike
<1>1. ValidSlots(LQ') = ValidSlots(LQ) /\ ValidSlots(SQ') = ValidSlots(SQ)
  <2>1. DOMAIN LQ = LSlot /\ DOMAIN LQ' = LSlot
    BY <1>0 DEF TypeOK
  <2> QED
    BY <1>0, <2>1 DEF ValidSlots
<1>2. LoadRing' /\ StoreRing'
  BY <1>0, <1>1, LoadRingKept, StoreRingKept DEF sq
<1>3. \A k \in 1 .. L : LinkAt(v, LQ', SQ', k)
  <2> SUFFICES ASSUME NEW k \in 1 .. L PROVE LinkAt(v, LQ', SQ', k)
    OBVIOUS
  <2>1. LinkAt(window, LQ, SQ, k)
    BY DEF IInv, Links
  <2> HIDE DEF v
  <2> QED
    BY <1>0, <2>1 DEF LinkAt, SameLoad
<1>4. \A k \in 1 .. L : ValueAt(v, LQ', SQ', mem', k) /\ WaitAt(v, LQ', SQ', k)
  <2> SUFFICES ASSUME NEW k \in 1 .. L PROVE ValueAt(v, LQ', SQ', mem', k) /\ WaitAt(v, LQ', SQ', k)
    OBVIOUS
  <2>1. SameStores(v, window, SQ', SQ, k)
    BY <1>0 DEF SameStores, SameStore
  <2>2. ValueAt(window, LQ, SQ, mem, k) /\ WaitAt(window, LQ, SQ, k)
    BY DEF IInv, ValuesRight
  <2>3. Alike(v, window, k) /\ k \in Nat \ {0}
    BY <1>0 DEF Alike
  <2>4. SameLoad(LQ'[window[k].at.lq_index], LQ[window[k].at.lq_index])
    BY <1>0
  <2> HIDE DEF v
  <2>5. ValueAt(v, LQ', SQ', mem, k) /\ WaitAt(v, LQ', SQ', k)
    BY <2>1, <2>2, <2>3, <2>4, ValueKept
  <2> QED
    BY <1>0, <2>5
<1>5. Links(window, LQ, SQ)' /\ ValuesRight(window, LQ, SQ, mem)'
  BY <1>0, <1>3, <1>4 DEF Links, ValuesRight
<1>6. (\A i \in LSlot : LoadEntryOK(LQ[i]))' /\ (\A i \in SSlot : StoreEntryOK(SQ[i]))'
  BY <1>0 DEF IInv
<1> QED
  BY <1>2, <1>5, <1>6 DEF IInv

(* MissResolved keeps the invariant.                                       *)
LEMMA MissResolvedKeeps ==
  ASSUME IInv, NEW i \in LSlot, MissResolved(i)
  PROVE  IInv'
<1>1. /\ LQ' = [LQ EXCEPT ![i].missed = FALSE]
      /\ UNCHANGED <<lq_head, lq_tail, lq_head_phase, lq_tail_phase, lq_length,
                     sq, window, mem, load_reservation>>
  BY DEF MissResolved
<1>2. \A h \in LSlot : LQ[h] \in LoadEntry /\ LoadEntryOK(LQ[h])
  BY DEF IInv, TypeOK
<1>3. /\ \A h \in LSlot : h # i => LQ'[h] = LQ[h]
      /\ LQ'[i] = [LQ[i] EXCEPT !.missed = FALSE]
  BY <1>1 DEF IInv, TypeOK
<1>4. \A x \in LoadEntry : LET q == [x EXCEPT !.missed = FALSE]
        IN  /\ q \in LoadEntry /\ SameLoad(q, x) /\ (q.valid <=> x.valid)
            /\ LoadEntryOK(x) => LoadEntryOK(q)
  BY ZenonT(30) DEF LoadEntry, SameLoad, LoadEntryOK, AddrAvail
<1>5. \A h \in LSlot : /\ LQ'[h] \in LoadEntry /\ SameLoad(LQ'[h], LQ[h])
                       /\ (LQ'[h].valid <=> LQ[h].valid) /\ LoadEntryOK(LQ'[h])
  <2> SUFFICES ASSUME NEW h \in LSlot
               PROVE  /\ LQ'[h] \in LoadEntry /\ SameLoad(LQ'[h], LQ[h])
                      /\ (LQ'[h].valid <=> LQ[h].valid) /\ LoadEntryOK(LQ'[h])
    OBVIOUS
  <2>1. CASE h = i
    <3> DEFINE x == LQ[h]
               q == [x EXCEPT !.missed = FALSE]
    <3>1. x \in LoadEntry /\ LQ'[h] = q /\ LoadEntryOK(x)
      BY <1>2, <1>3, <2>1
    <3> HIDE DEF x
    <3>2. q \in LoadEntry /\ SameLoad(q, x) /\ (q.valid <=> x.valid) /\ LoadEntryOK(q)
      BY <1>4, <3>1
    <3> HIDE DEF q
    <3>3. LQ'[h] \in LoadEntry /\ SameLoad(LQ'[h], x) /\ LoadEntryOK(LQ'[h])
      BY <3>1, <3>2
    <3>4. LQ'[h].valid <=> x.valid
      BY <3>1, <3>2
    <3> QED
      BY <3>3, <3>4 DEF x
  <2>2. CASE h # i
    BY <1>2, <1>3, <2>2 DEF SameLoad
  <2> QED
    BY <2>1, <2>2
<1>6. TypeOK'
  <2>1. LQ' \in [LSlot -> LoadEntry]
    BY <1>1, <1>5 DEF IInv, TypeOK
  <2> QED
    BY <1>1, <2>1 DEF IInv, TypeOK, sq
<1>7. Alike(window', window, Len(window)) /\ Len(window') = Len(window)
  BY <1>1 DEF Alike
<1> QED
  BY <1>1, <1>5, <1>6, <1>7, NothingMoves

(* ResolveCorrect keeps the invariant.                                     *)
LEMMA ResolveCorrectKeeps ==
  ASSUME IInv, NEW k \in DOMAIN window, ResolveCorrect(k)
  PROVE  IInv'
<1>1. window' = [window EXCEPT ![k].resolved = TRUE] /\ UNCHANGED <<lq, sq, mem, load_reservation>>
  BY DEF ResolveCorrect
<1>2. /\ Len(window) \in Nat /\ DOMAIN window = 1 .. Len(window) /\ window \in Seq(InWindow)
      /\ \A j \in 1 .. Len(window) : window[j] \in InWindow
  BY WindowType DEF IInv, TypeOK
<1>3. \A x \in InWindow : LET y == [x EXCEPT !.resolved = TRUE]
        IN  y \in InWindow /\ y.kind = x.kind /\ y.at = x.at /\ y.amo = x.amo
            /\ (Marked(x) => Marked(y))
  BY DEF InWindow, Marked
<1>4. \A j \in 1 .. Len(window) : \/ window'[j] = window[j]
                                  \/ window'[j] = [window[j] EXCEPT !.resolved = TRUE]
  BY <1>1, <1>2
<1>5. window' \in Seq(InWindow) /\ Len(window') = Len(window)
  <2>1. window' \in [1 .. Len(window) -> InWindow]
    BY <1>1, <1>2, <1>3, <1>4
  <2> QED
    BY <1>1, <1>2, <2>1
<1>6. Alike(window', window, Len(window))
  BY <1>2, <1>3, <1>4, ZenonT(30) DEF Alike
<1>7. TypeOK'
  BY <1>1, <1>5 DEF IInv, TypeOK, lq, sq
<1>8. \A i \in LSlot : /\ SameLoad(LQ'[i], LQ[i]) /\ (LQ'[i].valid <=> LQ[i].valid)
                       /\ LoadEntryOK(LQ'[i])
  BY <1>1 DEF IInv, SameLoad, lq
<1> QED
  BY <1>1, <1>5, <1>6, <1>7, <1>8, NothingMoves DEF lq

(* The entries of the stores when one of them is written.                  *)
LEMMA StoreWritten ==
  ASSUME IInv, NEW p \in 1 .. Len(window), window[p].kind = "store",
         NEW s, SQ' = [SQ EXCEPT ![window[p].at.sq_index] = s]
  PROVE  /\ SQ'[window[p].at.sq_index] = s
         /\ \A j \in 1 .. Len(window) : window[j].kind = "store" /\ j # p
              => SQ'[window[j].at.sq_index] = SQ[window[j].at.sq_index]
<1>1. /\ TypeOK /\ StoreRing /\ DOMAIN SQ = SSlot
      /\ window[p].at.sq_index \in SSlot
  BY SqPlaces, Sizes DEF IInv, TypeOK
<1>2. ASSUME NEW j \in 1 .. Len(window), window[j].kind = "store", j # p
      PROVE  SQ'[window[j].at.sq_index] = SQ[window[j].at.sq_index]
  <2>1. window[j].at.sq_index \in SSlot /\ window[j].at.sq_index # window[p].at.sq_index
    BY <1>1, <1>2, SqPlaces, Sizes
  <2> QED
    BY <1>1, <2>1
<1> QED
  BY <1>1, <1>2

(* A store executes in part: its entry changes, and an instruction may be  *)
(* marked. It remains to be seen what becomes of the loads behind it.      *)
LEMMA StoreMoves ==
  ASSUME IInv, NEW p \in 1 .. Len(window), window[p].kind = "store",
         NEW i, i = window[p].at.sq_index,
         NEW s \in StoreEntry, s.valid, s.amo = SQ[i].amo, StoreEntryOK(s),
         SQ' = [SQ EXCEPT ![i] = s],
         window' \in Seq(InWindow), Len(window') = Len(window),
         Alike(window', window, Len(window)),
         UNCHANGED <<lq, sq_head, sq_tail, sq_head_phase, sq_tail_phase,
                     sq_length, mem, load_reservation>>,
         \A k \in p + 1 .. Len(window) :
           ValueAt(window', LQ, SQ', mem, k) /\ WaitAt(window', LQ, SQ', k)
  PROVE  IInv'
<1> DEFINE v == window'
           L == Len(window)
<1>0. /\ TypeOK /\ LoadRing /\ StoreRing /\ L \in Nat /\ i \in SSlot /\ SQ[i].valid
      /\ \A k \in 1 .. L : window[k].at.sq_index \in SSlot
      /\ LQ' = LQ /\ mem' = mem
  BY WindowType, SqPlaces, Sizes DEF IInv, lq
<1>1. v \in Seq(InWindow) /\ Len(v) = L /\ Alike(v, window, L)
  OBVIOUS
<1>2. \A k \in 1 .. L : v[k].kind = window[k].kind /\ v[k].at = window[k].at /\ v[k].amo = window[k].amo
  BY <1>1 DEF Alike
<1>3. /\ DOMAIN SQ = SSlot /\ DOMAIN SQ' = SSlot /\ SQ'[i] = s
      /\ \A h \in SSlot : h # i => SQ'[h] = SQ[h]
  BY <1>0 DEF TypeOK
<1>4. /\ SQ'[i] = s
      /\ \A j \in 1 .. L : window[j].kind = "store" /\ j # p
           => SQ'[window[j].at.sq_index] = SQ[window[j].at.sq_index]
  BY StoreWritten, ZenonT(30)
<1>5. TypeOK'
  <2>1. SQ' \in [SSlot -> StoreEntry]
    BY <1>0 DEF TypeOK
  <2> QED
    BY <1>0, <1>1, <2>1 DEF TypeOK, lq
<1>6. ValidSlots(LQ') = ValidSlots(LQ) /\ ValidSlots(SQ') = ValidSlots(SQ)
  BY <1>0, <1>3 DEF ValidSlots
<1>7. LoadRing' /\ StoreRing'
  BY <1>0, <1>1, <1>6, LoadRingKept, StoreRingKept DEF lq
<1>8. \A k \in 1 .. L : LinkAt(v, LQ', SQ', k)
  <2> SUFFICES ASSUME NEW k \in 1 .. L PROVE LinkAt(v, LQ', SQ', k)
    OBVIOUS
  <2>1. LinkAt(window, LQ, SQ, k)
    BY DEF IInv, Links
  <2>2. window[k].kind = "store" => SQ'[window[k].at.sq_index].amo = SQ[window[k].at.sq_index].amo
    BY <1>4
  <2> HIDE DEF v
  <2> QED
    BY <1>0, <1>1, <1>2, <2>1, <2>2 DEF LinkAt
<1>9. \A k \in 1 .. L : ValueAt(v, LQ', SQ', mem', k) /\ WaitAt(v, LQ', SQ', k)
  <2> SUFFICES ASSUME NEW k \in 1 .. L PROVE ValueAt(v, LQ', SQ', mem', k) /\ WaitAt(v, LQ', SQ', k)
    OBVIOUS
  <2>1. CASE k > p
    <3>1. k \in p + 1 .. L
      BY <1>0, <2>1
    <3> QED
      BY <1>0, <3>1
  <2>2. CASE k <= p
    <3>1. SameStores(v, window, SQ', SQ, k)
      <4>1. \A j \in 1 .. k - 1 : j \in 1 .. L /\ j # p
        BY <1>0, <2>2
      <4> QED
        BY <1>4, <4>1 DEF SameStores, SameStore
    <3>2. ValueAt(window, LQ, SQ, mem, k) /\ WaitAt(window, LQ, SQ, k)
      BY DEF IInv, ValuesRight
    <3>3. Alike(v, window, k) /\ k \in Nat \ {0}
      BY <1>0, <1>1 DEF Alike
    <3>4. SameLoad(LQ'[window[k].at.lq_index], LQ[window[k].at.lq_index])
      BY <1>0 DEF SameLoad
    <3> HIDE DEF v
    <3>5. ValueAt(v, LQ', SQ', mem, k) /\ WaitAt(v, LQ', SQ', k)
      BY <3>1, <3>2, <3>3, <3>4, ValueKept
    <3> QED
      BY <1>0, <3>5
  <2> QED
    BY <1>0, <2>1, <2>2
<1>10. Links(window, LQ, SQ)' /\ ValuesRight(window, LQ, SQ, mem)'
  BY <1>1, <1>8, <1>9 DEF Links, ValuesRight
<1>11. (\A h \in LSlot : LoadEntryOK(LQ[h]))' /\ (\A h \in SSlot : StoreEntryOK(SQ[h]))'
  BY <1>0, <1>3 DEF IInv
<1> QED
  BY <1>5, <1>7, <1>10, <1>11 DEF IInv

(* StoreAddr keeps the invariant. A load behind the store that has a value *)
(* from the bytes it writes is marked, or one before it is; without        *)
(* speculative disambiguation a store in between gave it the value.        *)
LEMMA StoreAddrKeeps ==
  ASSUME IInv, NEW p \in DOMAIN window, NEW a \in Byte, StoreAddr(p, a)
  PROVE  IInv'
<1> DEFINE i == window[p].at.sq_index
           s == [SQ[i] EXCEPT !.addr = a]
           x == ld_violation(s, window[p].at)
           v == window'
           L == Len(window)
<1>1. /\ window[p].kind = "store" /\ ~AddrAvail(SQ[i]) /\ a \in Addrs(SQ[i].size)
      /\ SQ' = [SQ EXCEPT ![i] = s]
      /\ v = IF a \in Fault THEN WithException("store", i)
             ELSE IF SpecDisambig /\ x # None THEN WithViolation(x) ELSE window
      /\ UNCHANGED <<lq, sq_head, sq_tail, sq_head_phase, sq_tail_phase,
                     sq_length, mem, load_reservation>>
  BY DEF StoreAddr
<1>2. /\ TypeOK /\ LoadRing /\ StoreRing /\ L \in Nat /\ p \in 1 .. L
      /\ \A k \in 1 .. L : window[k].at.lq_index \in LSlot
  BY WindowType, LqPlaces, Sizes DEF IInv
<1>3. i \in SSlot /\ SQ[i].valid /\ StoreEntryOK(SQ[i]) /\ SQ[i] \in StoreEntry
  BY <1>1, <1>2, StoreOK DEF TypeOK
<1>4. /\ s \in StoreEntry /\ s.valid /\ s.amo = SQ[i].amo /\ s.addr = a
      /\ s.size = SQ[i].size /\ s.value = SQ[i].value
  BY <1>3 DEF StoreEntry
<1>5. StoreEntryOK(s) /\ AddrAvail(s)
  <2>1. a # None
    BY LsuAssumption DEF None
  <2> QED
    BY <1>1, <1>3, <1>4, <2>1 DEF StoreEntryOK, StoreValueAvail, AddrAvail
<1>6. v \in {window, WithException("store", i), WithViolation(x)}
  BY <1>1
<1> HIDE DEF s, x, v
<1>7. v \in Seq(InWindow) /\ Len(v) = L /\ Alike(v, window, L)
  <2>1. CASE v \in {window, WithException("store", i)}
    <3>1. v \in {window, WithException("store", i), WithViolation(i)}
      BY <2>1
    <3> QED
      BY <1>2, <3>1, MarkingKeeps
  <2>2. CASE v = WithViolation(x)
    <3>1. v \in {window, WithException("store", x), WithViolation(x)}
      BY <2>2
    <3> QED
      BY <1>2, <3>1, MarkingKeeps
  <2> QED
    BY <1>6, <2>1, <2>2
<1>8. /\ SQ'[i] = s
      /\ \A j \in 1 .. L : window[j].kind = "store" /\ j # p
           => SQ'[window[j].at.sq_index] = SQ[window[j].at.sq_index]
  BY <1>1, <1>2, StoreWritten
<1>9. \A j \in 1 .. L : v[j].kind = window[j].kind /\ v[j].at = window[j].at
  BY <1>7 DEF Alike
<1>10. ASSUME NEW k \in p + 1 .. L
       PROVE  ValueAt(v, LQ, SQ', mem, k) /\ WaitAt(v, LQ, SQ', k)
  <2> DEFINE l == LQ[window[k].at.lq_index]
             S(j) == SQ[window[j].at.sq_index]
             T(j) == SQ'[v[j].at.sq_index]
  <2>0. /\ k \in 1 .. L /\ k \in Nat \ {0} /\ p \in 1 .. k - 1 /\ Alike(v, window, k)
        /\ \A j \in 1 .. k - 1 : j \in 1 .. L
        /\ v[k].at = window[k].at /\ v[k].kind = window[k].kind
    BY <1>2, <1>7, <1>9 DEF Alike
  <2>1. T(p) = s
    BY <1>8, <1>9, <1>2
  <2>2. \A j \in 1 .. k - 1 : /\ v[j].kind = window[j].kind
                              /\ window[j].kind = "store" /\ j # p => T(j) = S(j)
    BY <1>8, <1>9, <2>0
  <2>3. \A j \in 1 .. k - 1 : /\ window[j].kind = "store" /\ AddrAvail(S(j)) => j # p /\ T(j) = S(j)
                              /\ window[j].kind = "store" /\ AddrAvail(S(j)) => AddrAvail(T(j))
    BY <1>1, <2>2
  <2>4. ValueAt(window, LQ, SQ, mem, k) /\ WaitAt(window, LQ, SQ, k)
    BY <2>0 DEF IInv, ValuesRight
  <2>5. HasValue(v, LQ, k) => HasValue(window, LQ, k)
    BY <2>0 DEF HasValue
  <2> HIDE DEF S, T
  <2>6. WaitAt(v, LQ, SQ', k)
    <3> SUFFICES ASSUME HasValue(v, LQ, k), ~SpecDisambig,
                        NEW j \in 1 .. k - 1, v[j].kind = "store", ~AddrAvail(T(j))
                 PROVE  Covered(v, LQ, SQ', j, k)
      BY DEF WaitAt, T
    <3>1. window[j].kind = "store" /\ ~AddrAvail(S(j))
      BY <2>2, <2>3
    <3>2. Covered(window, LQ, SQ, j, k)
      BY <2>4, <2>5, <3>1 DEF WaitAt, S
    <3>3. PICK h \in j + 1 .. k - 1 : /\ window[h].kind = "store" /\ AddrAvail(S(h))
                                      /\ S(h).addr = l.addr /\ S(h).size = l.size
      BY <3>2 DEF Covered, S
    <3>4. h \in 1 .. k - 1
      OBVIOUS
    <3>5. v[h].kind = "store" /\ T(h) = S(h)
      BY <2>2, <2>3, <3>3, <3>4
    <3> QED
      BY <2>0, <3>3, <3>5 DEF Covered, T
  <2>7. ASSUME HasValue(v, LQ, k), Unmarked(v, k)
        PROVE  LoadRight(v, LQ[v[k].at.lq_index], SQ', mem, k)
    <3>1. LoadRight(window, l, SQ, mem, k)
      BY <2>0, <2>4, <2>5, <2>7, UnmarkedKept DEF ValueAt
    <3>2. /\ LoadEntryOK(l) /\ l.valid /\ l.value_avail /\ window[k].kind = "load"
          /\ l.size \in Size /\ l.addr \in Addrs(l.size) /\ AddrAvail(l)
      <4>1. window[k].kind = "load" /\ l.value_avail
        BY <2>5, <2>7 DEF HasValue
      <4>2. l.valid
        BY <1>2, <2>0, <4>1, LqPlaces
      <4>3. LoadEntryOK(l)
        BY <1>2, <2>0 DEF IInv
      <4> QED
        BY <4>1, <4>2, <4>3 DEF LoadEntryOK
    <3>3. SpecDisambig => ~Overlap(s, l)
      <4> SUFFICES ASSUME SpecDisambig, Overlap(s, l) PROVE FALSE
        OBVIOUS
      <4>1. a \notin Fault
        <5> SUFFICES ASSUME a \in Fault PROVE FALSE
          OBVIOUS
        <5>1. v = WithException("store", i)
          BY <1>1
        <5>2. Marked(WithException("store", i)[p])
          BY <1>1, <1>2, Marks
        <5>3. p \in 1 .. k
          BY <2>0
        <5> QED
          BY <2>7, <5>1, <5>2, <5>3 DEF Unmarked
      <4>2. RanEarly(s, k)
        BY <3>2 DEF RanEarly
      <4>3. /\ x # None
            /\ \E q \in 1 .. k : window[q].kind = "load" /\ window[q].at.lq_index = x
        BY <1>2, <4>2, ViolationIs DEF x
      <4>4. PICK q \in 1 .. k : window[q].kind = "load" /\ window[q].at.lq_index = x
        BY <4>3
      <4>5. v = WithViolation(x)
        BY <1>1, <4>1, <4>3
      <4>6. q \in 1 .. L
        BY <2>0
      <4>7. Marked(WithViolation(x)[q])
        BY <1>2, <4>4, <4>6, Marks
      <4> QED
        BY <2>7, <4>5, <4>7 DEF Unmarked
    <3>4. ASSUME NEW b \in Span(l.addr, l.size)
          PROVE  RightValue(v, SQ', mem, b, k, l.value[b - l.addr])
      <4>1. \/ b \notin Span(s.addr, s.size)
            \/ \E h \in p + 1 .. k - 1 : Writes(window, SQ, b, k, h)
        <5>1. CASE SpecDisambig
          BY <1>5, <3>2, <3>3, <5>1, SharesByte
        <5>2. CASE ~SpecDisambig
          <6>1. Covered(window, LQ, SQ, p, k)
            BY <1>1, <2>0, <2>4, <2>5, <2>7, <5>2 DEF WaitAt
          <6>2. PICK h \in p + 1 .. k - 1 : /\ window[h].kind = "store" /\ AddrAvail(S(h))
                                            /\ S(h).addr = l.addr /\ S(h).size = l.size
            BY <6>1 DEF Covered, S
          <6>3. h \in 1 .. k - 1
            BY <2>0
          <6> QED
            BY <6>2, <6>3 DEF Writes, S
        <5> QED
          BY <5>1, <5>2
      <4>2. \A j \in 1 .. k - 1 : Writes(window, SQ, b, k, j) => Writes(v, SQ', b, k, j) /\ j # p
        BY <2>2, <2>3 DEF Writes, S, T
      <4>3. \A j \in 1 .. k - 1 : j # p /\ Writes(v, SQ', b, k, j) => Writes(window, SQ, b, k, j)
        BY <2>2 DEF Writes, S, T
      <4>4. ASSUME NEW j \in 1 .. k - 1, WritesLast(v, SQ', b, k, j)
            PROVE  WritesLast(window, SQ, b, k, j)
        <5>1. j # p
          <6> SUFFICES ASSUME j = p PROVE FALSE
            OBVIOUS
          <6>1. b \in Span(s.addr, s.size)
            BY <2>1, <4>4 DEF WritesLast, Writes, T
          <6>2. PICK h \in p + 1 .. k - 1 : Writes(window, SQ, b, k, h)
            BY <4>1, <6>1
          <6>3. h \in 1 .. k - 1
            BY <2>0
          <6>4. Writes(v, SQ', b, k, h)
            BY <4>2, <6>2, <6>3
          <6> QED
            BY <4>4, <6>4 DEF WritesLast
        <5>2. Writes(window, SQ, b, k, j)
          BY <4>3, <4>4, <5>1 DEF WritesLast
        <5>3. \A h \in j + 1 .. k - 1 : ~Writes(window, SQ, b, k, h)
          <6>1. \A h \in j + 1 .. k - 1 : h \in 1 .. k - 1
            OBVIOUS
          <6> QED
            BY <4>2, <4>4, <6>1 DEF WritesLast
        <5> QED
          BY <5>2, <5>3 DEF WritesLast
      <4>5. \A j \in 1 .. k - 1 : WritesLast(window, SQ, b, k, j) => T(j) = S(j)
        BY <2>2, <4>2 DEF WritesLast, Writes
      <4>6. RightValue(window, SQ, mem, b, k, l.value[b - l.addr])
        BY <3>1, <3>4 DEF LoadRight
      <4>7. \A j \in 1 .. k - 1 :
              WritesLast(window, SQ, b, k, j) /\ StoreValueAvail(SQ[window[j].at.sq_index])
                => /\ SQ'[v[j].at.sq_index].value = SQ[window[j].at.sq_index].value
                   /\ SQ'[v[j].at.sq_index].addr = SQ[window[j].at.sq_index].addr
        BY <4>5 DEF S, T
      <4> HIDE DEF l
      <4> QED
        BY <4>2, <4>4, <4>6, <4>7, RightKept
    <3> QED
      BY <2>0, <3>1, <3>4 DEF LoadRight
  <2> QED
    BY <2>6, <2>7 DEF ValueAt
<1> QED
  <2>1. \A k \in p + 1 .. L : ValueAt(window', LQ, SQ', mem, k) /\ WaitAt(window', LQ, SQ', k)
    BY <1>10 DEF v
  <2>2. window' \in Seq(InWindow) /\ Len(window') = L /\ Alike(window', window, L)
    BY <1>7 DEF v
  <2>3. UNCHANGED <<lq, sq_head, sq_tail, sq_head_phase, sq_tail_phase,
                    sq_length, mem, load_reservation>>
    BY <1>1
  <2> QED
    BY <1>1, <1>2, <1>4, <1>5, <2>1, <2>2, <2>3, StoreMoves

(* StoreValue keeps the invariant: no load has a value from this store.    *)
LEMMA StoreValueKeeps ==
  ASSUME IInv, NEW p \in DOMAIN window, NEW y \in UNION {Values(n) : n \in Size}, StoreValue(p, y)
  PROVE  IInv'
<1> DEFINE i == window[p].at.sq_index
           s == [SQ[i] EXCEPT !.value = y]
           L == Len(window)
<1>1. /\ window[p].kind = "store" /\ ~StoreValueAvail(SQ[i]) /\ y \in Values(SQ[i].size)
      /\ SQ' = [SQ EXCEPT ![i].value = y]
      /\ UNCHANGED <<lq, sq_head, sq_tail, sq_head_phase, sq_tail_phase,
                     sq_length, window, mem, load_reservation>>
  BY DEF StoreValue
<1>2. TypeOK /\ LoadRing /\ StoreRing /\ L \in Nat /\ p \in 1 .. L
  BY WindowType DEF IInv
<1>3. i \in SSlot /\ SQ[i].valid /\ StoreEntryOK(SQ[i]) /\ SQ[i] \in StoreEntry
  BY <1>1, <1>2, StoreOK DEF TypeOK
<1>4. /\ s \in StoreEntry /\ s.valid /\ s.amo = SQ[i].amo /\ s.addr = SQ[i].addr
      /\ s.size = SQ[i].size /\ s.value = y
  BY <1>3 DEF StoreEntry, QueueValues
<1>5. StoreEntryOK(s)
  BY <1>1, <1>3, <1>4 DEF StoreEntryOK, AddrAvail
<1>6. SQ' = [SQ EXCEPT ![i] = s]
  BY <1>1
<1> HIDE DEF s
<1>7. /\ SQ'[i] = s
      /\ \A j \in 1 .. L : window[j].kind = "store" /\ j # p
           => SQ'[window[j].at.sq_index] = SQ[window[j].at.sq_index]
  BY <1>1, <1>2, <1>6, StoreWritten
<1>8. ASSUME NEW k \in p + 1 .. L
      PROVE  ValueAt(window, LQ, SQ', mem, k) /\ WaitAt(window, LQ, SQ', k)
  <2> DEFINE l == LQ[window[k].at.lq_index]
             S(j) == SQ[window[j].at.sq_index]
             T(j) == SQ'[window[j].at.sq_index]
  <2>0. k \in 1 .. L /\ p \in 1 .. k - 1 /\ \A j \in 1 .. k - 1 : j \in 1 .. L
    BY <1>2
  <2>1. \A j \in 1 .. k - 1 : window[j].kind = "store"
          => /\ T(j).addr = S(j).addr /\ T(j).size = S(j).size
             /\ StoreValueAvail(S(j)) => T(j) = S(j)
    BY <1>1, <1>4, <1>7, <2>0
  <2>2. ValueAt(window, LQ, SQ, mem, k) /\ WaitAt(window, LQ, SQ, k)
    BY <2>0 DEF IInv, ValuesRight
  <2> HIDE DEF S, T
  <2>3. WaitAt(window, LQ, SQ', k)
    <3>1. \A j \in 1 .. k - 1 : \A h \in j + 1 .. k - 1 : h \in 1 .. k - 1
      OBVIOUS
    <3> QED
      BY <2>1, <2>2, <3>1 DEF WaitAt, Covered, AddrAvail, S, T
  <2>4. ASSUME HasValue(window, LQ, k), Unmarked(window, k)
        PROVE  LoadRight(window, l, SQ', mem, k)
    <3>1. LoadRight(window, l, SQ, mem, k)
      BY <2>2, <2>4 DEF ValueAt
    <3>2. ASSUME NEW b \in Span(l.addr, l.size)
          PROVE  RightValue(window, SQ', mem, b, k, l.value[b - l.addr])
      <4>1. \A j \in 1 .. k - 1 : Writes(window, SQ, b, k, j) <=> Writes(window, SQ', b, k, j)
        BY <2>1 DEF Writes, AddrAvail, S, T
      <4>2. \A j \in 1 .. k - 1 : WritesLast(window, SQ', b, k, j) => WritesLast(window, SQ, b, k, j)
        <5>1. \A j \in 1 .. k - 1 : \A h \in j + 1 .. k - 1 : h \in 1 .. k - 1
          OBVIOUS
        <5> QED
          BY <4>1, <5>1 DEF WritesLast
      <4>3. \A j \in 1 .. k - 1 : WritesLast(window, SQ, b, k, j) /\ StoreValueAvail(S(j))
              => T(j).value = S(j).value /\ T(j).addr = S(j).addr
        BY <2>1 DEF WritesLast, Writes
      <4>4. RightValue(window, SQ, mem, b, k, l.value[b - l.addr])
        BY <3>1, <3>2 DEF LoadRight
      <4> QED
        BY <4>1, <4>2, <4>3, <4>4, RightKept DEF S, T
    <3> QED
      BY <3>1, <3>2 DEF LoadRight
  <2> QED
    BY <2>3, <2>4 DEF ValueAt
<1> QED
  <2>1. \A k \in p + 1 .. L : ValueAt(window', LQ, SQ', mem, k) /\ WaitAt(window', LQ, SQ', k)
    BY <1>1, <1>8
  <2>2. window' \in Seq(InWindow) /\ Len(window') = L /\ Alike(window', window, L)
    BY <1>1, <1>2 DEF TypeOK, Alike
  <2>3. UNCHANGED <<lq, sq_head, sq_tail, sq_head_phase, sq_tail_phase,
                    sq_length, mem, load_reservation>>
    BY <1>1
  <2> QED
    BY <1>1, <1>2, <1>4, <1>5, <1>6, <2>1, <2>2, <2>3, StoreMoves

(* The slot at the tail of a ring that is not full is free.                *)
LEMMA TailFree ==
  ASSUME NEW n \in Nat \ {0}, NEW w, Len(w) \in Nat, NEW kind, NEW index, NEW phase, NEW valid,
         NEW h, NEW hp, NEW t, NEW tp, NEW len,
         Ring(w, kind, index, phase, valid, h, hp, t, tp, len, n), len < n
  PROVE  t \in 0 .. n - 1 /\ t \notin valid
<1>1. len \in 0 .. n
  BY NumType DEF Ring
<1>2. h \in 0 .. n - 1 /\ hp \in BOOLEAN /\ StandsAt(t, tp, h, hp, len, n)
  BY DEF Ring
<1>3. t \in 0 .. n - 1 /\ (t - h) % n = len
  BY <1>1, <1>2, Standing
<1>4. ~Within(t, h, len, n)
  BY <1>1, <1>3 DEF Within
<1> QED
  BY <1>3, <1>4 DEF Ring

(* What that does to the ring of loads.                                    *)
LEMMA LoadRingGrows ==
  ASSUME IInv, NEW x \in InWindow, x.at = Here, window' = Append(window, x),
         UNCHANGED <<lq_head, lq_head_phase>>
  PROVE  /\ x.kind # "load" /\ UNCHANGED lq => LoadRing'
         /\ /\ x.kind = "load" /\ lq_length < LqSize
            /\ ValidSlots(LQ') = ValidSlots(LQ) \cup {lq_tail}
            /\ lq_tail' = Succ(lq_tail, LqSize)
            /\ lq_tail_phase' = Phase(lq_tail, lq_tail_phase, LqSize)
            /\ lq_length' = lq_length + 1
            => LoadRing'
<1> DEFINE v == window'
           I == LqIndex(window)
           J == LqIndex(v)
           P == LqPhase(window)
           Q == LqPhase(v)
           V == ValidSlots(LQ)
           W == ValidSlots(LQ')
<1>0. /\ Len(window) \in Nat /\ Len(v) = Len(window) + 1 /\ DOMAIN window = 1 .. Len(window)
      /\ DOMAIN v = 1 .. Len(v)
      /\ \A k \in 1 .. Len(window) : v[k] = window[k]
      /\ v[Len(v)] = x
  <2>1. /\ v \in Seq(InWindow) /\ Len(v) = Len(window) + 1
        /\ \A k \in 1 .. Len(window) : v[k] = window[k]
        /\ v[Len(v)] = x
    <3>1. v = Append(window, x) /\ window \in Seq(InWindow)
      BY DEF IInv, TypeOK
    <3> HIDE DEF v
    <3> QED
      BY <3>1
  <2> QED
    BY <2>1, WindowType DEF IInv
<1>1. \A k \in 1 .. Len(window) : v[k].kind = window[k].kind /\ J[k] = I[k] /\ Q[k] = P[k]
  BY <1>0 DEF LqIndex, LqPhase
<1>2. J[Len(v)] = lq_tail /\ Q[Len(v)] = lq_tail_phase
  BY <1>0 DEF LqIndex, LqPhase, Here
<1>3. Ring(window, "load", I, P, V, lq_head, lq_head_phase, lq_tail, lq_tail_phase, lq_length, LqSize)
  BY DEF IInv, LoadRing
<1>4. LoadRing' = Ring(v, "load", J, Q, W, lq_head, lq_head_phase, lq_tail', lq_tail_phase',
                       lq_length', LqSize)
  BY DEF LoadRing
<1> HIDE DEF v, I, J, P, Q, V, W
<1>8. Joins(v, window, J, I, Q, P, lq_tail, lq_tail_phase)
  BY <1>0, <1>1, <1>2 DEF Joins
<1>5. ASSUME v[Len(v)].kind # "load"
      PROVE  Ring(v, "load", J, Q, V, lq_head, lq_head_phase, lq_tail, lq_tail_phase, lq_length, LqSize)
  BY <1>3, <1>5, <1>8, Sizes, RingPasses
<1>6. ASSUME x.kind # "load", UNCHANGED lq PROVE LoadRing'
  <2>1. W = V
    BY <1>6 DEF lq, V, W
  <2> QED
    BY <1>0, <1>4, <1>5, <1>6, <2>1 DEF lq
<1>7. ASSUME x.kind = "load", lq_length < LqSize, W = V \cup {lq_tail},
             lq_tail' = Succ(lq_tail, LqSize),
             lq_tail_phase' = Phase(lq_tail, lq_tail_phase, LqSize),
             lq_length' = lq_length + 1
      PROVE  LoadRing'
  <2>1. v[Len(v)].kind = "load"
    BY <1>0, <1>7
  <2>2. Ring(v, "load", J, Q, W, lq_head, lq_head_phase, lq_tail', lq_tail_phase', lq_length', LqSize)
    BY <1>3, <1>7, <1>8, <2>1, Sizes, RingGrows
  <2> QED
    BY <1>4, <2>2
<1> QED
  BY <1>6, <1>7 DEF V, W

(* What that does to the ring of stores.                                    *)
LEMMA StoreRingGrows ==
  ASSUME IInv, NEW x \in InWindow, x.at = Here, window' = Append(window, x),
         UNCHANGED <<sq_head, sq_head_phase>>
  PROVE  /\ x.kind # "store" /\ UNCHANGED sq => StoreRing'
         /\ /\ x.kind = "store" /\ sq_length < SqSize
            /\ ValidSlots(SQ') = ValidSlots(SQ) \cup {sq_tail}
            /\ sq_tail' = Succ(sq_tail, SqSize)
            /\ sq_tail_phase' = Phase(sq_tail, sq_tail_phase, SqSize)
            /\ sq_length' = sq_length + 1
            => StoreRing'
<1> DEFINE v == window'
           I == SqIndex(window)
           J == SqIndex(v)
           P == SqPhase(window)
           Q == SqPhase(v)
           V == ValidSlots(SQ)
           W == ValidSlots(SQ')
<1>0. /\ Len(window) \in Nat /\ Len(v) = Len(window) + 1 /\ DOMAIN window = 1 .. Len(window)
      /\ DOMAIN v = 1 .. Len(v)
      /\ \A k \in 1 .. Len(window) : v[k] = window[k]
      /\ v[Len(v)] = x
  <2>1. /\ v \in Seq(InWindow) /\ Len(v) = Len(window) + 1
        /\ \A k \in 1 .. Len(window) : v[k] = window[k]
        /\ v[Len(v)] = x
    <3>1. v = Append(window, x) /\ window \in Seq(InWindow)
      BY DEF IInv, TypeOK
    <3> HIDE DEF v
    <3> QED
      BY <3>1
  <2> QED
    BY <2>1, WindowType DEF IInv
<1>1. \A k \in 1 .. Len(window) : v[k].kind = window[k].kind /\ J[k] = I[k] /\ Q[k] = P[k]
  BY <1>0 DEF SqIndex, SqPhase
<1>2. J[Len(v)] = sq_tail /\ Q[Len(v)] = sq_tail_phase
  BY <1>0 DEF SqIndex, SqPhase, Here
<1>3. Ring(window, "store", I, P, V, sq_head, sq_head_phase, sq_tail, sq_tail_phase, sq_length, SqSize)
  BY DEF IInv, StoreRing
<1>4. StoreRing' = Ring(v, "store", J, Q, W, sq_head, sq_head_phase, sq_tail', sq_tail_phase',
                       sq_length', SqSize)
  BY DEF StoreRing
<1> HIDE DEF v, I, J, P, Q, V, W
<1>8. Joins(v, window, J, I, Q, P, sq_tail, sq_tail_phase)
  BY <1>0, <1>1, <1>2 DEF Joins
<1>5. ASSUME v[Len(v)].kind # "store"
      PROVE  Ring(v, "store", J, Q, V, sq_head, sq_head_phase, sq_tail, sq_tail_phase, sq_length, SqSize)
  BY <1>3, <1>5, <1>8, Sizes, RingPasses
<1>6. ASSUME x.kind # "store", UNCHANGED sq PROVE StoreRing'
  <2>1. W = V
    BY <1>6 DEF sq, V, W
  <2> QED
    BY <1>0, <1>4, <1>5, <1>6, <2>1 DEF sq
<1>7. ASSUME x.kind = "store", sq_length < SqSize, W = V \cup {sq_tail},
             sq_tail' = Succ(sq_tail, SqSize),
             sq_tail_phase' = Phase(sq_tail, sq_tail_phase, SqSize),
             sq_length' = sq_length + 1
      PROVE  StoreRing'
  <2>1. v[Len(v)].kind = "store"
    BY <1>0, <1>7
  <2>2. Ring(v, "store", J, Q, W, sq_head, sq_head_phase, sq_tail', sq_tail_phase', sq_length', SqSize)
    BY <1>3, <1>7, <1>8, <2>1, Sizes, RingGrows
  <2> QED
    BY <1>4, <2>2
<1> QED
  BY <1>6, <1>7 DEF V, W

(* An instruction joins the window, and the entries of those in front of   *)
(* it stay as they are.                                                    *)
LEMMA InstructionJoins ==
  ASSUME IInv, CanDispatch, NEW x \in InWindow, window' = Append(window, x),
         TypeOK', LoadRing', StoreRing', mem' = mem,
         \A k \in 1 .. Len(window) :
           /\ window[k].kind = "load"
                => SameLoad(LQ'[window[k].at.lq_index], LQ[window[k].at.lq_index])
           /\ window[k].kind = "store"
                => SameStore(SQ'[window[k].at.sq_index], SQ[window[k].at.sq_index]),
         \A i \in LSlot : LoadEntryOK(LQ'[i]), \A i \in SSlot : StoreEntryOK(SQ'[i]),
         LinkAt(window', LQ', SQ', Len(window')), ~HasValue(window', LQ', Len(window'))
  PROVE  IInv'
<1> DEFINE v == window'
           L == Len(window)
<1>0. /\ TypeOK /\ L \in Nat /\ Len(v) = L + 1 /\ DOMAIN window = 1 .. L
      /\ \A k \in 1 .. L : v[k] = window[k]
  BY WindowType DEF IInv, TypeOK
<1>1. \A k \in 1 .. Len(v) : LinkAt(v, LQ', SQ', k)
  <2> SUFFICES ASSUME NEW k \in 1 .. L PROVE LinkAt(v, LQ', SQ', k)
    BY <1>0
  <2>1. LinkAt(window, LQ, SQ, k) /\ ~window[k].amo
    BY <1>0 DEF IInv, Links, CanDispatch
  <2> HIDE DEF v
  <2> QED
    BY <1>0, <2>1 DEF LinkAt, SameLoad, SameStore
<1>2. \A k \in 1 .. Len(v) : ValueAt(v, LQ', SQ', mem', k) /\ WaitAt(v, LQ', SQ', k)
  <2>1. ASSUME NEW k \in 1 .. L PROVE ValueAt(v, LQ', SQ', mem', k) /\ WaitAt(v, LQ', SQ', k)
    <3>1. SameStores(v, window, SQ', SQ, k)
      <4>1. \A j \in 1 .. k - 1 : j \in 1 .. L
        BY <1>0
      <4> QED
        BY <4>1 DEF SameStores
    <3>2. ValueAt(window, LQ, SQ, mem, k) /\ WaitAt(window, LQ, SQ, k)
      BY DEF IInv, ValuesRight
    <3>3. Alike(v, window, k) /\ k \in Nat \ {0}
      BY <1>0 DEF Alike
    <3>4. window[k].kind = "load" => SameLoad(LQ'[window[k].at.lq_index], LQ[window[k].at.lq_index])
      OBVIOUS
    <3> HIDE DEF v
    <3>5. ValueAt(v, LQ', SQ', mem, k) /\ WaitAt(v, LQ', SQ', k)
      BY <3>1, <3>2, <3>3, <3>4, ValueKept
    <3> QED
      BY <3>5
  <2>2. ValueAt(v, LQ', SQ', mem', Len(v)) /\ WaitAt(v, LQ', SQ', Len(v))
    BY DEF ValueAt, WaitAt
  <2> HIDE DEF v
  <2> QED
    BY <1>0, <2>1, <2>2
<1> QED
  BY <1>1, <1>2 DEF IInv, Links, ValuesRight

(* DispatchLoad keeps the invariant.                                       *)
LEMMA DispatchLoadKeeps ==
  ASSUME IInv, NEW n \in Size, NEW amo \in AmoKinds, NEW mdp_stall \in BOOLEAN,
         DispatchLoad(n, amo, mdp_stall)
  PROVE  IInv'
<1> DEFINE x == Item("load", amo)
           e == [EmptyLoad EXCEPT !.valid = TRUE, !.size = n, !.amo = amo,
                                  !.mdp_stall = ~SpecDisambig \/ mdp_stall,
                                  !.sq_index = sq_tail, !.sq_index_phase = sq_tail_phase]
<1>1. /\ CanDispatch /\ ~stall(1, 0)
      /\ LQ' = [LQ EXCEPT ![lq_tail] = e]
      /\ lq_tail' = Succ(lq_tail, LqSize)
      /\ lq_tail_phase' = Phase(lq_tail, lq_tail_phase, LqSize)
      /\ lq_length' = lq_length + 1
      /\ window' = Append(window, x)
      /\ UNCHANGED <<lq_head, lq_head_phase, sq, mem, load_reservation>>
  BY DEF DispatchLoad
<1>2. /\ TypeOK /\ LoadRing /\ StoreRing /\ Len(window) \in Nat /\ DOMAIN window = 1 .. Len(window)
      /\ amo \in BOOLEAN /\ lq_length \in 0 .. LqSize /\ sq_length \in 0 .. SqSize
  BY WindowType, LsuAssumption DEF IInv, TypeOK
<1>3. lq_length < LqSize
  BY <1>1, <1>2, Sizes DEF stall
<1>4. x \in InWindow /\ x.kind = "load" /\ x.at = Here /\ (x.amo <=> amo)
  BY <1>2 DEF Item, Here, InWindow, Place, TypeOK
<1>5. /\ e \in LoadEntry /\ e.valid /\ e.size = n /\ e.addr = None /\ ~e.value_avail
      /\ ~SpecDisambig => e.mdp_stall
      /\ e.sq_index = sq_tail /\ e.sq_index_phase = sq_tail_phase
  BY <1>2 DEF EmptyLoad, LoadEntry, QueueValues, TypeOK
<1>6. LoadEntryOK(e)
  BY <1>5 DEF LoadEntryOK, AddrAvail
<1> HIDE DEF x, e
<1>7. lq_tail \in LSlot /\ ~LQ[lq_tail].valid
  <2>1. lq_tail \in 0 .. LqSize - 1 /\ lq_tail \notin ValidSlots(LQ)
    BY <1>2, <1>3, Sizes, TailFree DEF LoadRing
  <2>2. DOMAIN LQ = LSlot
    BY <1>2 DEF TypeOK
  <2> QED
    BY <2>1, <2>2, Sizes DEF ValidSlots
<1>8. /\ DOMAIN LQ = LSlot /\ DOMAIN LQ' = LSlot /\ LQ'[lq_tail] = e
      /\ \A i \in LSlot : i # lq_tail => LQ'[i] = LQ[i]
      /\ SQ' = SQ
  BY <1>1, <1>2, <1>7 DEF TypeOK, sq
<1>9. ValidSlots(LQ') = ValidSlots(LQ) \cup {lq_tail}
  BY <1>5, <1>7, <1>8 DEF ValidSlots
<1>10. LoadRing' /\ StoreRing'
  <2>1. LoadRing'
    BY <1>1, <1>3, <1>4, <1>9, LoadRingGrows
  <2>2. StoreRing'
    BY <1>1, <1>4, StoreRingGrows DEF sq
  <2> QED
    BY <2>1, <2>2
<1>11. TypeOK'
  <2>1. LQ' \in [LSlot -> LoadEntry]
    BY <1>1, <1>2, <1>5 DEF TypeOK
  <2>2. lq_tail' \in LSlot /\ lq_tail_phase' \in BOOLEAN
    <3>1. lq_tail' \in LSlot
      BY <1>1, <1>7, Sizes DEF Succ
    <3>2. lq_tail_phase' \in BOOLEAN
      BY <1>1, <1>2 DEF Phase, TypeOK
    <3> QED
      BY <3>1, <3>2
  <2>3. lq_length' \in 0 .. LqSize
    BY <1>1, <1>2, <1>3, Sizes
  <2>4. window' \in Seq(InWindow) /\ Len(window') <= NumActive
    BY <1>1, <1>2, <1>4, LsuAssumption DEF TypeOK, CanDispatch
  <2> QED
    BY <1>1, <1>2, <2>1, <2>2, <2>3, <2>4 DEF TypeOK, sq
<1>12. window'[Len(window')] = x /\ Len(window') \in Nat
  BY <1>1, <1>2, <1>4 DEF TypeOK
<1>13. LinkAt(window', LQ', SQ', Len(window')) /\ ~HasValue(window', LQ', Len(window'))
  <2>1. x.at.lq_index = lq_tail /\ x.at.sq_index = sq_tail /\ x.at.sq_phase = sq_tail_phase
    BY <1>4 DEF Here
  <2>2. LQ'[x.at.lq_index] = e
    BY <1>8, <2>1
  <2>3. ~HasValue(window', LQ', Len(window'))
    BY <1>5, <1>12, <2>2 DEF HasValue
  <2>4. LinkAt(window', LQ', SQ', Len(window'))
    BY <1>4, <1>5, <1>12, <2>1, <2>2 DEF LinkAt
  <2> QED
    BY <2>3, <2>4
<1>14. \A k \in 1 .. Len(window) :
         /\ window[k].kind = "load"
              => SameLoad(LQ'[window[k].at.lq_index], LQ[window[k].at.lq_index])
         /\ window[k].kind = "store"
              => SameStore(SQ'[window[k].at.sq_index], SQ[window[k].at.sq_index])
  <2> SUFFICES ASSUME NEW k \in 1 .. Len(window)
               PROVE  /\ window[k].kind = "load"
                           => SameLoad(LQ'[window[k].at.lq_index], LQ[window[k].at.lq_index])
                      /\ window[k].kind = "store"
                           => SameStore(SQ'[window[k].at.sq_index], SQ[window[k].at.sq_index])
    OBVIOUS
  <2>1. window[k].kind = "load" => LQ'[window[k].at.lq_index] = LQ[window[k].at.lq_index]
    BY <1>2, <1>7, <1>8, Sizes, LqPlaces
  <2> QED
    BY <1>8, <2>1 DEF SameLoad, SameStore
<1>15. (\A i \in LSlot : LoadEntryOK(LQ'[i])) /\ \A i \in SSlot : StoreEntryOK(SQ'[i])
  BY <1>6, <1>8 DEF IInv
<1> QED
  BY <1>1, <1>4, <1>10, <1>11, <1>13, <1>14, <1>15, InstructionJoins

(* DispatchStore keeps the invariant.                                      *)
LEMMA DispatchStoreKeeps ==
  ASSUME IInv, NEW n \in Size, NEW amo \in AmoKinds, DispatchStore(n, amo)
  PROVE  IInv'
<1> DEFINE x == Item("store", amo)
           e == [EmptyStore EXCEPT !.valid = TRUE, !.size = n, !.amo = amo]
<1>1. /\ CanDispatch /\ ~stall(0, 1)
      /\ SQ' = [SQ EXCEPT ![sq_tail] = e]
      /\ sq_tail' = Succ(sq_tail, SqSize)
      /\ sq_tail_phase' = Phase(sq_tail, sq_tail_phase, SqSize)
      /\ sq_length' = sq_length + 1
      /\ window' = Append(window, x)
      /\ UNCHANGED <<sq_head, sq_head_phase, lq, mem, load_reservation>>
  BY DEF DispatchStore
<1>2. /\ TypeOK /\ LoadRing /\ StoreRing /\ Len(window) \in Nat /\ DOMAIN window = 1 .. Len(window)
      /\ amo \in BOOLEAN /\ lq_length \in 0 .. LqSize /\ sq_length \in 0 .. SqSize
  BY WindowType, LsuAssumption DEF IInv, TypeOK
<1>3. sq_length < SqSize
  BY <1>1, <1>2, Sizes DEF stall
<1>4. x \in InWindow /\ x.kind = "store" /\ x.at = Here /\ x.amo = amo
  BY <1>2 DEF Item, Here, InWindow, Place, TypeOK
<1>5. /\ e \in StoreEntry /\ e.valid /\ e.size = n /\ e.addr = None /\ e.value = <<>>
      /\ e.amo = amo
  BY <1>2 DEF EmptyStore, StoreEntry, QueueValues
<1>6. StoreEntryOK(e)
  BY <1>5 DEF StoreEntryOK, AddrAvail, StoreValueAvail
<1> HIDE DEF x, e
<1>7. sq_tail \in SSlot /\ ~SQ[sq_tail].valid
  <2>1. sq_tail \in 0 .. SqSize - 1 /\ sq_tail \notin ValidSlots(SQ)
    BY <1>2, <1>3, Sizes, TailFree DEF StoreRing
  <2>2. DOMAIN SQ = SSlot
    BY <1>2 DEF TypeOK
  <2> QED
    BY <2>1, <2>2, Sizes DEF ValidSlots
<1>8. /\ DOMAIN SQ = SSlot /\ DOMAIN SQ' = SSlot /\ SQ'[sq_tail] = e
      /\ \A i \in SSlot : i # sq_tail => SQ'[i] = SQ[i]
      /\ LQ' = LQ
  BY <1>1, <1>2, <1>7 DEF TypeOK, lq
<1>9. ValidSlots(SQ') = ValidSlots(SQ) \cup {sq_tail}
  BY <1>5, <1>7, <1>8 DEF ValidSlots
<1>10. LoadRing' /\ StoreRing'
  <2>1. StoreRing'
    BY <1>1, <1>3, <1>4, <1>9, StoreRingGrows
  <2>2. LoadRing'
    BY <1>1, <1>4, LoadRingGrows DEF lq
  <2> QED
    BY <2>1, <2>2
<1>11. TypeOK'
  <2>1. SQ' \in [SSlot -> StoreEntry]
    BY <1>1, <1>2, <1>5 DEF TypeOK
  <2>2. sq_tail' \in SSlot /\ sq_tail_phase' \in BOOLEAN
    <3>1. sq_tail' \in SSlot
      BY <1>1, <1>7, Sizes DEF Succ
    <3>2. sq_tail_phase' \in BOOLEAN
      BY <1>1, <1>2 DEF Phase, TypeOK
    <3> QED
      BY <3>1, <3>2
  <2>3. sq_length' \in 0 .. SqSize
    BY <1>1, <1>2, <1>3, Sizes
  <2>4. window' \in Seq(InWindow) /\ Len(window') <= NumActive
    BY <1>1, <1>2, <1>4, LsuAssumption DEF TypeOK, CanDispatch
  <2> QED
    BY <1>1, <1>2, <2>1, <2>2, <2>3, <2>4 DEF TypeOK, lq
<1>12. window'[Len(window')] = x /\ Len(window') \in Nat
  BY <1>1, <1>2, <1>4 DEF TypeOK
<1>13. LinkAt(window', LQ', SQ', Len(window')) /\ ~HasValue(window', LQ', Len(window'))
  <2>1. x.at.sq_index = sq_tail
    BY <1>4 DEF Here
  <2>2. SQ'[x.at.sq_index] = e
    BY <1>8, <2>1
  <2> QED
    BY <1>4, <1>5, <1>12, <2>2 DEF LinkAt, HasValue
<1>14. \A k \in 1 .. Len(window) :
         /\ window[k].kind = "load"
              => SameLoad(LQ'[window[k].at.lq_index], LQ[window[k].at.lq_index])
         /\ window[k].kind = "store"
              => SameStore(SQ'[window[k].at.sq_index], SQ[window[k].at.sq_index])
  <2> SUFFICES ASSUME NEW k \in 1 .. Len(window)
               PROVE  /\ window[k].kind = "load"
                           => SameLoad(LQ'[window[k].at.lq_index], LQ[window[k].at.lq_index])
                      /\ window[k].kind = "store"
                           => SameStore(SQ'[window[k].at.sq_index], SQ[window[k].at.sq_index])
    OBVIOUS
  <2>1. window[k].kind = "store" => SQ'[window[k].at.sq_index] = SQ[window[k].at.sq_index]
    BY <1>2, <1>7, <1>8, Sizes, SqPlaces
  <2> QED
    BY <1>8, <2>1 DEF SameLoad, SameStore
<1>15. (\A i \in LSlot : LoadEntryOK(LQ'[i])) /\ \A i \in SSlot : StoreEntryOK(SQ'[i])
  BY <1>6, <1>8 DEF IInv
<1> QED
  BY <1>1, <1>4, <1>10, <1>11, <1>13, <1>14, <1>15, InstructionJoins

(* DispatchBranch keeps the invariant.                                     *)
LEMMA DispatchBranchKeeps ==
  ASSUME IInv, DispatchBranch
  PROVE  IInv'
<1> DEFINE x == Item("branch", FALSE)
<1>1. /\ CanDispatch /\ window' = Append(window, x)
      /\ UNCHANGED <<lq, sq, mem, load_reservation>>
  BY DEF DispatchBranch
<1>2. TypeOK /\ Len(window) \in Nat
  BY WindowType DEF IInv
<1>3. x \in InWindow /\ x.kind = "branch" /\ x.at = Here /\ ~x.amo
  BY <1>2 DEF Item, Here, InWindow, Place, TypeOK
<1> HIDE DEF x
<1>4. LoadRing' /\ StoreRing'
  BY <1>1, <1>3, LoadRingGrows, StoreRingGrows DEF lq, sq
<1>5. TypeOK'
  <2>1. window' \in Seq(InWindow) /\ Len(window') <= NumActive
    BY <1>1, <1>2, <1>3, LsuAssumption DEF TypeOK, CanDispatch
  <2> QED
    BY <1>1, <1>2, <2>1 DEF TypeOK, lq, sq
<1>6. window'[Len(window')] = x
  BY <1>1, <1>2, <1>3 DEF TypeOK
<1>7. LinkAt(window', LQ', SQ', Len(window')) /\ ~HasValue(window', LQ', Len(window'))
  BY <1>3, <1>6 DEF LinkAt, HasValue
<1>8. LQ' = LQ /\ SQ' = SQ /\ mem' = mem
  BY <1>1 DEF lq, sq
<1>9. \A k \in 1 .. Len(window) :
        /\ window[k].kind = "load"
             => SameLoad(LQ'[window[k].at.lq_index], LQ[window[k].at.lq_index])
        /\ window[k].kind = "store"
             => SameStore(SQ'[window[k].at.sq_index], SQ[window[k].at.sq_index])
  BY <1>8 DEF SameLoad, SameStore
<1>10. (\A i \in LSlot : LoadEntryOK(LQ'[i])) /\ \A i \in SSlot : StoreEntryOK(SQ'[i])
  BY <1>8 DEF IInv
<1> QED
  BY <1>1, <1>3, <1>4, <1>5, <1>7, <1>8, <1>9, <1>10, InstructionJoins

(* The window that a mispredicted branch leaves, and the entries of those  *)
(* who stay.                                                               *)
LEMMA MispredictWindow ==
  ASSUME IInv, NEW k \in DOMAIN window, ResolveMispredict(k)
  PROVE  /\ k \in 1 .. Len(window) /\ window[k].kind = "branch"
         /\ window' \in Seq(InWindow) /\ Len(window') = k /\ DOMAIN window' = 1 .. k
         /\ Len(window') <= NumActive /\ Alike(window', window, k)
<1>1. window' = [SubSeq(window, 1, k) EXCEPT ![k].resolved = TRUE] /\ window[k].kind = "branch"
  BY DEF ResolveMispredict
<1>2. /\ Len(window) \in Nat /\ DOMAIN window = 1 .. Len(window) /\ window \in Seq(InWindow)
      /\ \A j \in 1 .. Len(window) : window[j] \in InWindow
      /\ Len(window) <= NumActive /\ NumActive \in Nat
  BY WindowType, LsuAssumption DEF IInv, TypeOK
<1>3. \A x \in InWindow : LET y == [x EXCEPT !.resolved = TRUE]
        IN  y \in InWindow /\ y.kind = x.kind /\ y.at = x.at /\ y.amo = x.amo
            /\ (Marked(x) => Marked(y))
  BY DEF InWindow, Marked
<1>4. k \in 1 .. Len(window)
  BY <1>2
<1> DEFINE c == SubSeq(window, 1, k)
<1>5. /\ c \in Seq(InWindow) /\ Len(c) = k /\ DOMAIN c = 1 .. k
      /\ \A j \in 1 .. k : c[j] = window[j]
  BY <1>2, <1>4
<1>6. window' = [c EXCEPT ![k].resolved = TRUE]
  BY <1>1
<1> HIDE DEF c
<1>7. /\ DOMAIN window' = 1 .. k
      /\ \A j \in 1 .. k : \/ window'[j] = window[j]
                           \/ window'[j] = [window[j] EXCEPT !.resolved = TRUE]
  BY <1>5, <1>6
<1>8. \A j \in 1 .. k : window[j] \in InWindow /\ window'[j] \in InWindow
  BY <1>2, <1>3, <1>4, <1>7
<1>9. window' \in Seq(InWindow) /\ Len(window') = k
  <2>1. window' = [j \in 1 .. k |-> window'[j]]
    BY <1>5, <1>6
  <2>2. window' \in [1 .. k -> InWindow]
    BY <1>8, <2>1
  <2> QED
    BY <1>4, <1>7, <2>2
<1>10. Alike(window', window, k)
  BY <1>3, <1>7, <1>8 DEF Alike
<1>11. Len(window') <= NumActive
  BY <1>2, <1>4, <1>9
<1> QED
  BY <1>1, <1>4, <1>7, <1>9, <1>10, <1>11

(* The load queue is cut at the place of the branch.                       *)
LEMMA LoadRingCut ==
  ASSUME IInv, NEW k \in DOMAIN window, ResolveMispredict(k)
  PROVE  /\ LoadRing' /\ lq_length' \in 0 .. LqSize
         /\ lq_tail' \in LSlot /\ lq_tail_phase' \in BOOLEAN
         /\ \A i \in LSlot : LQ'[i].valid => LQ[i].valid
<1> DEFINE v == window'
           I == LqIndex(window)
           J == LqIndex(v)
           P == LqPhase(window)
           Q == LqPhase(v)
           V == ValidSlots(LQ)
           W == ValidSlots(LQ')
<1>0. /\ TypeOK /\ Len(window) \in Nat /\ DOMAIN window = 1 .. Len(window)
      /\ k \in 1 .. Len(window) /\ window[k].kind = "branch"
      /\ Len(v) = k /\ DOMAIN v = 1 .. k
      /\ \A j \in 1 .. k : v[j].kind = window[j].kind /\ v[j].at = window[j].at
      /\ DOMAIN LQ = LSlot
  BY MispredictWindow, WindowType DEF IInv, TypeOK, Alike
<1>1. /\ lq_tail' = window[k].at.lq_index /\ lq_tail_phase' = window[k].at.lq_phase
      /\ lq_length' = LengthOf(lq_head, lq_head_phase, window[k].at.lq_index, window[k].at.lq_phase, LqSize)
      /\ LQ' = [i \in LSlot |-> [LQ[i] EXCEPT !.valid = Within(i, lq_head, lq_length', LqSize)]]
      /\ UNCHANGED <<lq_head, lq_head_phase>>
  BY DEF ResolveMispredict, restore
<1>2. \A i \in LSlot : LQ[i] \in LoadEntry
  BY <1>0 DEF TypeOK
<1>3. \A i \in LSlot : LQ'[i].valid <=> Within(i, lq_head, lq_length', LqSize)
  BY <1>1, <1>2 DEF LoadEntry
<1>4. DOMAIN LQ' = LSlot
  BY <1>1
<1>5. Fills(W, lq_head, lq_length', LqSize)
  BY <1>3, <1>4, Sizes DEF Fills, ValidSlots
<1>7. lq_tail' = I[Len(v)] /\ lq_tail_phase' = P[Len(v)]
  BY <1>0, <1>1 DEF LqIndex, LqPhase
<1>6. Cuts(v, window, J, I, Q, P, lq_tail', lq_tail_phase')
  BY <1>0, <1>7 DEF Cuts, LqIndex, LqPhase
<1>8. Ring(window, "load", I, P, V, lq_head, lq_head_phase, lq_tail, lq_tail_phase, lq_length, LqSize)
  BY DEF IInv, LoadRing
<1>9. LoadRing' = Ring(v, "load", J, Q, W, lq_head, lq_head_phase, lq_tail', lq_tail_phase',
                       lq_length', LqSize)
  BY <1>1 DEF LoadRing
<1>10. lq_length' = LengthOf(lq_head, lq_head_phase, lq_tail', lq_tail_phase', LqSize)
  BY <1>1
<1>11. window[Len(v)].kind # "load"
  BY <1>0
<1>15. LqSize \in Nat \ {0}
  BY Sizes
<1> HIDE DEF v, I, J, P, Q, V, W
<1>12. /\ Ring(v, "load", J, Q, W, lq_head, lq_head_phase, lq_tail', lq_tail_phase', lq_length', LqSize)
       /\ lq_length' \in 0 .. LqSize
       /\ lq_tail' \in 0 .. LqSize - 1 /\ lq_tail_phase' \in BOOLEAN
       /\ Among(W, V, LqSize)
  BY <1>5, <1>6, <1>8, <1>10, <1>11, <1>15, RingCut
<1>13. \A i \in LSlot : LQ'[i].valid => LQ[i].valid
  BY <1>0, <1>4, <1>12, <1>15, Sizes DEF V, W, ValidSlots, Among, Among
<1> QED
  BY <1>9, <1>12, <1>13, Sizes

(* And so is the store queue.                                              *)
LEMMA StoreRingCut ==
  ASSUME IInv, NEW k \in DOMAIN window, ResolveMispredict(k)
  PROVE  /\ StoreRing' /\ sq_length' \in 0 .. SqSize
         /\ sq_tail' \in SSlot /\ sq_tail_phase' \in BOOLEAN
         /\ \A i \in SSlot : SQ'[i].valid => SQ[i].valid
<1> DEFINE v == window'
           I == SqIndex(window)
           J == SqIndex(v)
           P == SqPhase(window)
           Q == SqPhase(v)
           V == ValidSlots(SQ)
           W == ValidSlots(SQ')
<1>0. /\ TypeOK /\ Len(window) \in Nat /\ DOMAIN window = 1 .. Len(window)
      /\ k \in 1 .. Len(window) /\ window[k].kind = "branch"
      /\ Len(v) = k /\ DOMAIN v = 1 .. k
      /\ \A j \in 1 .. k : v[j].kind = window[j].kind /\ v[j].at = window[j].at
      /\ DOMAIN SQ = SSlot
  BY MispredictWindow, WindowType DEF IInv, TypeOK, Alike
<1>1. /\ sq_tail' = window[k].at.sq_index /\ sq_tail_phase' = window[k].at.sq_phase
      /\ sq_length' = LengthOf(sq_head, sq_head_phase, window[k].at.sq_index, window[k].at.sq_phase, SqSize)
      /\ SQ' = [i \in SSlot |-> [SQ[i] EXCEPT !.valid = Within(i, sq_head, sq_length', SqSize)]]
      /\ UNCHANGED <<sq_head, sq_head_phase>>
  BY DEF ResolveMispredict, restore
<1>2. \A i \in SSlot : SQ[i] \in StoreEntry
  BY <1>0 DEF TypeOK
<1>3. \A i \in SSlot : SQ'[i].valid <=> Within(i, sq_head, sq_length', SqSize)
  BY <1>1, <1>2 DEF StoreEntry
<1>4. DOMAIN SQ' = SSlot
  BY <1>1
<1>5. Fills(W, sq_head, sq_length', SqSize)
  BY <1>3, <1>4, Sizes DEF Fills, ValidSlots
<1>7. sq_tail' = I[Len(v)] /\ sq_tail_phase' = P[Len(v)]
  BY <1>0, <1>1 DEF SqIndex, SqPhase
<1>6. Cuts(v, window, J, I, Q, P, sq_tail', sq_tail_phase')
  BY <1>0, <1>7 DEF Cuts, SqIndex, SqPhase
<1>8. Ring(window, "store", I, P, V, sq_head, sq_head_phase, sq_tail, sq_tail_phase, sq_length, SqSize)
  BY DEF IInv, StoreRing
<1>9. StoreRing' = Ring(v, "store", J, Q, W, sq_head, sq_head_phase, sq_tail', sq_tail_phase',
                        sq_length', SqSize)
  BY <1>1 DEF StoreRing
<1>10. sq_length' = LengthOf(sq_head, sq_head_phase, sq_tail', sq_tail_phase', SqSize)
  BY <1>1
<1>11. window[Len(v)].kind # "store"
  BY <1>0
<1>15. SqSize \in Nat \ {0}
  BY Sizes
<1> HIDE DEF v, I, J, P, Q, V, W
<1>12. /\ Ring(v, "store", J, Q, W, sq_head, sq_head_phase, sq_tail', sq_tail_phase', sq_length', SqSize)
       /\ sq_length' \in 0 .. SqSize
       /\ sq_tail' \in 0 .. SqSize - 1 /\ sq_tail_phase' \in BOOLEAN
       /\ Among(W, V, SqSize)
  BY <1>5, <1>6, <1>8, <1>10, <1>11, <1>15, RingCut
<1>13. \A i \in SSlot : SQ'[i].valid => SQ[i].valid
  BY <1>0, <1>4, <1>12, <1>15, Sizes DEF V, W, ValidSlots, Among, Among
<1> QED
  BY <1>9, <1>12, <1>13, Sizes

(* The entries after a partial squash: only valid bits go.                 *)
LEMMA MispredictEntries ==
  ASSUME IInv, NEW k \in DOMAIN window, ResolveMispredict(k)
  PROVE  /\ \A i \in LSlot : /\ LQ'[i] \in LoadEntry /\ SameLoad(LQ'[i], LQ[i])
                             /\ LoadEntryOK(LQ'[i])
         /\ \A i \in SSlot : /\ SQ'[i] \in StoreEntry /\ SameStore(SQ'[i], SQ[i])
                             /\ StoreEntryOK(SQ'[i])
         /\ LQ' \in [LSlot -> LoadEntry] /\ SQ' \in [SSlot -> StoreEntry]
<1>1. /\ \A i \in LSlot : LQ[i] \in LoadEntry /\ LoadEntryOK(LQ[i])
      /\ \A i \in SSlot : SQ[i] \in StoreEntry /\ StoreEntryOK(SQ[i])
  BY DEF IInv, TypeOK
<1>2. /\ \A i \in LSlot : LQ'[i].valid => LQ[i].valid
      /\ \A i \in SSlot : SQ'[i].valid => SQ[i].valid
  BY LoadRingCut, StoreRingCut
<1>3. /\ LQ' = [i \in LSlot |-> [LQ[i] EXCEPT !.valid = Within(i, lq_head, lq_length', LqSize)]]
      /\ SQ' = [i \in SSlot |-> [SQ[i] EXCEPT !.valid = Within(i, sq_head, sq_length', SqSize)]]
  BY DEF ResolveMispredict, restore
<1>4. \A x \in LoadEntry, b \in BOOLEAN :
        LET q == [x EXCEPT !.valid = b]
        IN  /\ q \in LoadEntry /\ SameLoad(q, x)
            /\ LoadEntryOK(x) /\ (q.valid => x.valid) => LoadEntryOK(q)
  BY DEF LoadEntry, SameLoad, LoadEntryOK, AddrAvail
<1>5. \A x \in StoreEntry, b \in BOOLEAN :
        LET q == [x EXCEPT !.valid = b]
        IN  /\ q \in StoreEntry /\ SameStore(q, x)
            /\ StoreEntryOK(x) /\ (q.valid => x.valid) => StoreEntryOK(q)
  BY DEF StoreEntry, SameStore, StoreEntryOK, AddrAvail, StoreValueAvail
<1>6. ASSUME NEW i \in LSlot
      PROVE  LQ'[i] \in LoadEntry /\ SameLoad(LQ'[i], LQ[i]) /\ LoadEntryOK(LQ'[i])
  <2> DEFINE x == LQ[i]
             b == Within(i, lq_head, lq_length', LqSize)
             q == [x EXCEPT !.valid = b]
  <2>1. x \in LoadEntry /\ LoadEntryOK(x) /\ LQ'[i] = q /\ (q.valid => x.valid)
    BY <1>1, <1>2, <1>3
  <2>2. b \in BOOLEAN
    BY DEF Within
  <2> HIDE DEF x, b
  <2>3. q \in LoadEntry /\ SameLoad(q, x) /\ LoadEntryOK(q)
    BY <1>4, <2>1, <2>2
  <2> HIDE DEF q
  <2>4. LQ'[i] \in LoadEntry /\ SameLoad(LQ'[i], x) /\ LoadEntryOK(LQ'[i])
    BY <2>1, <2>3
  <2> QED
    BY <2>4 DEF x
<1>7. ASSUME NEW i \in SSlot
      PROVE  SQ'[i] \in StoreEntry /\ SameStore(SQ'[i], SQ[i]) /\ StoreEntryOK(SQ'[i])
  <2> DEFINE x == SQ[i]
             b == Within(i, sq_head, sq_length', SqSize)
             q == [x EXCEPT !.valid = b]
  <2>1. x \in StoreEntry /\ StoreEntryOK(x) /\ SQ'[i] = q /\ (q.valid => x.valid)
    BY <1>1, <1>2, <1>3
  <2>2. b \in BOOLEAN
    BY DEF Within
  <2> HIDE DEF x, b
  <2>3. q \in StoreEntry /\ SameStore(q, x) /\ StoreEntryOK(q)
    BY <1>5, <2>1, <2>2
  <2> HIDE DEF q
  <2>4. SQ'[i] \in StoreEntry /\ SameStore(SQ'[i], x) /\ StoreEntryOK(SQ'[i])
    BY <2>1, <2>3
  <2> QED
    BY <2>4 DEF x
<1>8. LQ' \in [LSlot -> LoadEntry] /\ SQ' \in [SSlot -> StoreEntry]
  BY <1>3, <1>6, <1>7
<1> QED
  BY <1>6, <1>7, <1>8

(* ResolveMispredict keeps the invariant.                                  *)
LEMMA ResolveMispredictKeeps ==
  ASSUME IInv, NEW k \in DOMAIN window, ResolveMispredict(k)
  PROVE  IInv'
<1> DEFINE v == window'
           L == Len(window)
<1>0. /\ TypeOK /\ L \in Nat /\ k \in 1 .. L /\ v \in Seq(InWindow) /\ Len(v) = k
      /\ Len(v) <= NumActive /\ Alike(v, window, k)
      /\ \A j \in 1 .. k : v[j].kind = window[j].kind /\ v[j].at = window[j].at /\ v[j].amo = window[j].amo
      /\ \A j \in 1 .. L : window[j].at.lq_index \in LSlot /\ window[j].at.sq_index \in SSlot
  BY MispredictWindow, WindowType, Sizes, LqPlaces, SqPlaces DEF IInv, Alike
<1>1. /\ UNCHANGED <<lq_head, lq_head_phase, sq_head, sq_head_phase, mem, load_reservation>>
  BY DEF ResolveMispredict
<1>2. /\ \A i \in LSlot : SameLoad(LQ'[i], LQ[i]) /\ LoadEntryOK(LQ'[i])
      /\ \A i \in SSlot : SameStore(SQ'[i], SQ[i]) /\ StoreEntryOK(SQ'[i])
      /\ LQ' \in [LSlot -> LoadEntry] /\ SQ' \in [SSlot -> StoreEntry]
  BY MispredictEntries
<1>3. TypeOK'
  BY <1>0, <1>1, <1>2, LoadRingCut, StoreRingCut DEF TypeOK
<1>4. \A j \in 1 .. k : LinkAt(v, LQ', SQ', j)
  <2> SUFFICES ASSUME NEW j \in 1 .. k PROVE LinkAt(v, LQ', SQ', j)
    OBVIOUS
  <2>1. LinkAt(window, LQ, SQ, j) /\ j \in 1 .. L
    BY <1>0 DEF IInv, Links
  <2>2. SameLoad(LQ'[window[j].at.lq_index], LQ[window[j].at.lq_index])
        /\ SameStore(SQ'[window[j].at.sq_index], SQ[window[j].at.sq_index])
    BY <1>0, <1>2, <2>1
  <2> HIDE DEF v
  <2> QED
    BY <1>0, <2>1, <2>2, SMTT(30) DEF LinkAt, SameLoad, SameStore
<1>5. \A j \in 1 .. k : ValueAt(v, LQ', SQ', mem', j) /\ WaitAt(v, LQ', SQ', j)
  <2> SUFFICES ASSUME NEW j \in 1 .. k PROVE ValueAt(v, LQ', SQ', mem', j) /\ WaitAt(v, LQ', SQ', j)
    OBVIOUS
  <2>1. SameStores(v, window, SQ', SQ, j)
    <3>1. \A i \in 1 .. j - 1 : i \in 1 .. L
      BY <1>0
    <3> QED
      BY <1>0, <1>2, <3>1 DEF SameStores
  <2>2. ValueAt(window, LQ, SQ, mem, j) /\ WaitAt(window, LQ, SQ, j) /\ j \in 1 .. L
    BY <1>0 DEF IInv, ValuesRight
  <2>3. Alike(v, window, j) /\ j \in Nat \ {0}
    BY <1>0 DEF Alike
  <2>4. SameLoad(LQ'[window[j].at.lq_index], LQ[window[j].at.lq_index])
    BY <1>0, <1>2, <2>2
  <2> HIDE DEF v
  <2>5. ValueAt(v, LQ', SQ', mem, j) /\ WaitAt(v, LQ', SQ', j)
    BY <2>1, <2>2, <2>3, <2>4, ValueKept
  <2> QED
    BY <1>1, <2>5
<1>6. Links(window, LQ, SQ)' /\ ValuesRight(window, LQ, SQ, mem)'
  BY <1>0, <1>4, <1>5 DEF Links, ValuesRight
<1> QED
  BY <1>2, <1>3, <1>6, LoadRingCut, StoreRingCut DEF IInv

-----------------------------------------------------------------------------
(* Retirement.                                                             *)

(* The oldest instruction leaves the window.                               *)
LEMMA WindowShrinks ==
  ASSUME TypeOK, window # <<>>, window' = Tail(window)
  PROVE  /\ Len(window) \in Nat \ {0} /\ Len(window') = Len(window) - 1
         /\ DOMAIN window' = 1 .. Len(window') /\ DOMAIN window = 1 .. Len(window)
         /\ window' \in Seq(InWindow) /\ Len(window') <= NumActive
         /\ \A k \in 1 .. Len(window') : window'[k] = window[k + 1]
         /\ Head(window) = window[1]
<1>1. window \in Seq(InWindow) /\ Len(window) <= NumActive /\ NumActive \in Nat
  BY LsuAssumption DEF TypeOK
<1> DEFINE v == Tail(window)
<1>2. /\ Len(window) \in Nat \ {0} /\ Len(v) = Len(window) - 1
      /\ DOMAIN v = 1 .. Len(v) /\ DOMAIN window = 1 .. Len(window)
      /\ v \in Seq(InWindow)
      /\ \A k \in 1 .. Len(v) : v[k] = window[k + 1]
      /\ Head(window) = window[1]
  BY <1>1
<1> HIDE DEF v
<1>3. window' = v
  BY DEF v
<1>4. Len(v) <= NumActive
  BY <1>1, <1>2
<1> QED
  BY <1>2, <1>3, <1>4

(* What that does to the ring of loads.                                    *)
LEMMA LoadRingShrinks ==
  ASSUME IInv, window # <<>>, window' = Tail(window)
  PROVE  /\ window[1].kind # "load" /\ UNCHANGED lq => LoadRing'
         /\ window[1].kind = "load"
              => /\ window[1].at.lq_index = lq_head /\ lq_length \in 1 .. LqSize
                 /\ Succ(lq_head, LqSize) \in LSlot
                 /\ Phase(lq_head, lq_head_phase, LqSize) \in BOOLEAN
         /\ /\ window[1].kind = "load"
            /\ ValidSlots(LQ') = ValidSlots(LQ) \ {lq_head}
            /\ lq_head' = Succ(lq_head, LqSize)
            /\ lq_head_phase' = Phase(lq_head, lq_head_phase, LqSize)
            /\ lq_length' = lq_length - 1
            /\ UNCHANGED <<lq_tail, lq_tail_phase>>
            => LoadRing'
<1> DEFINE v == window'
           I == LqIndex(window)
           J == LqIndex(v)
           P == LqPhase(window)
           Q == LqPhase(v)
           V == ValidSlots(LQ)
           W == ValidSlots(LQ')
<1>0. /\ Len(window) \in Nat \ {0} /\ Len(v) = Len(window) - 1
      /\ DOMAIN v = 1 .. Len(v) /\ DOMAIN window = 1 .. Len(window)
      /\ \A k \in 1 .. Len(v) : v[k] = window[k + 1]
  BY WindowShrinks DEF IInv
<1>1. \A k \in 1 .. Len(v) : k + 1 \in 1 .. Len(window)
  BY <1>0
<1>2. Leaves(v, window, J, I, Q, P)
  BY <1>0, <1>1 DEF Leaves, LqIndex, LqPhase
<1>3. Ring(window, "load", I, P, V, lq_head, lq_head_phase, lq_tail, lq_tail_phase, lq_length, LqSize)
  BY DEF IInv, LoadRing
<1>4. LoadRing' = Ring(v, "load", J, Q, W, lq_head', lq_head_phase', lq_tail', lq_tail_phase',
                       lq_length', LqSize)
  BY DEF LoadRing
<1>5. I[1] = window[1].at.lq_index
  BY <1>0 DEF LqIndex
<1> HIDE DEF v, I, J, P, Q, V, W
<1>6. ASSUME window[1].kind # "load", UNCHANGED lq PROVE LoadRing'
  <2>1. W = V
    BY <1>6 DEF lq, V, W
  <2>2. Ring(v, "load", J, Q, V, lq_head, lq_head_phase, lq_tail, lq_tail_phase, lq_length, LqSize)
    BY <1>2, <1>3, <1>6, Sizes, RingStays
  <2> QED
    BY <1>4, <1>6, <2>1, <2>2 DEF lq
<1>7. ASSUME window[1].kind = "load"
      PROVE  /\ window[1].at.lq_index = lq_head /\ lq_length \in 1 .. LqSize
             /\ Succ(lq_head, LqSize) \in LSlot
             /\ Phase(lq_head, lq_head_phase, LqSize) \in BOOLEAN
  <2>1. /\ I[1] = lq_head /\ lq_length \in 1 .. LqSize
        /\ Succ(lq_head, LqSize) \in 0 .. LqSize - 1
        /\ Phase(lq_head, lq_head_phase, LqSize) \in BOOLEAN
    BY <1>2, <1>3, <1>7, Sizes, HeadIs
  <2> QED
    BY <1>5, <2>1, Sizes
<1>8. ASSUME window[1].kind = "load", W = V \ {lq_head},
             lq_head' = Succ(lq_head, LqSize),
             lq_head_phase' = Phase(lq_head, lq_head_phase, LqSize),
             lq_length' = lq_length - 1,
             UNCHANGED <<lq_tail, lq_tail_phase>>
      PROVE  LoadRing'
  <2>1. Ring(v, "load", J, Q, W, lq_head', lq_head_phase', lq_tail, lq_tail_phase, lq_length', LqSize)
    BY <1>2, <1>3, <1>8, Sizes, RingShrinks
  <2> QED
    BY <1>4, <1>8, <2>1
<1> QED
  BY <1>6, <1>7, <1>8 DEF V, W

(* What that does to the ring of stores.                                   *)
LEMMA StoreRingShrinks ==
  ASSUME IInv, window # <<>>, window' = Tail(window)
  PROVE  /\ window[1].kind # "store" /\ UNCHANGED sq => StoreRing'
         /\ window[1].kind = "store"
              => /\ window[1].at.sq_index = sq_head /\ sq_length \in 1 .. SqSize
                 /\ Succ(sq_head, SqSize) \in SSlot
                 /\ Phase(sq_head, sq_head_phase, SqSize) \in BOOLEAN
         /\ /\ window[1].kind = "store"
            /\ ValidSlots(SQ') = ValidSlots(SQ) \ {sq_head}
            /\ sq_head' = Succ(sq_head, SqSize)
            /\ sq_head_phase' = Phase(sq_head, sq_head_phase, SqSize)
            /\ sq_length' = sq_length - 1
            /\ UNCHANGED <<sq_tail, sq_tail_phase>>
            => StoreRing'
<1> DEFINE v == window'
           I == SqIndex(window)
           J == SqIndex(v)
           P == SqPhase(window)
           Q == SqPhase(v)
           V == ValidSlots(SQ)
           W == ValidSlots(SQ')
<1>0. /\ Len(window) \in Nat \ {0} /\ Len(v) = Len(window) - 1
      /\ DOMAIN v = 1 .. Len(v) /\ DOMAIN window = 1 .. Len(window)
      /\ \A k \in 1 .. Len(v) : v[k] = window[k + 1]
  BY WindowShrinks DEF IInv
<1>1. \A k \in 1 .. Len(v) : k + 1 \in 1 .. Len(window)
  BY <1>0
<1>2. Leaves(v, window, J, I, Q, P)
  BY <1>0, <1>1 DEF Leaves, SqIndex, SqPhase
<1>3. Ring(window, "store", I, P, V, sq_head, sq_head_phase, sq_tail, sq_tail_phase, sq_length, SqSize)
  BY DEF IInv, StoreRing
<1>4. StoreRing' = Ring(v, "store", J, Q, W, sq_head', sq_head_phase', sq_tail', sq_tail_phase',
                       sq_length', SqSize)
  BY DEF StoreRing
<1>5. I[1] = window[1].at.sq_index
  BY <1>0 DEF SqIndex
<1> HIDE DEF v, I, J, P, Q, V, W
<1>6. ASSUME window[1].kind # "store", UNCHANGED sq PROVE StoreRing'
  <2>1. W = V
    BY <1>6 DEF sq, V, W
  <2>2. Ring(v, "store", J, Q, V, sq_head, sq_head_phase, sq_tail, sq_tail_phase, sq_length, SqSize)
    BY <1>2, <1>3, <1>6, Sizes, RingStays
  <2> QED
    BY <1>4, <1>6, <2>1, <2>2 DEF sq
<1>7. ASSUME window[1].kind = "store"
      PROVE  /\ window[1].at.sq_index = sq_head /\ sq_length \in 1 .. SqSize
             /\ Succ(sq_head, SqSize) \in SSlot
             /\ Phase(sq_head, sq_head_phase, SqSize) \in BOOLEAN
  <2>1. /\ I[1] = sq_head /\ sq_length \in 1 .. SqSize
        /\ Succ(sq_head, SqSize) \in 0 .. SqSize - 1
        /\ Phase(sq_head, sq_head_phase, SqSize) \in BOOLEAN
    BY <1>2, <1>3, <1>7, Sizes, HeadIs
  <2> QED
    BY <1>5, <2>1, Sizes
<1>8. ASSUME window[1].kind = "store", W = V \ {sq_head},
             sq_head' = Succ(sq_head, SqSize),
             sq_head_phase' = Phase(sq_head, sq_head_phase, SqSize),
             sq_length' = sq_length - 1,
             UNCHANGED <<sq_tail, sq_tail_phase>>
      PROVE  StoreRing'
  <2>1. Ring(v, "store", J, Q, W, sq_head', sq_head_phase', sq_tail, sq_tail_phase, sq_length', SqSize)
    BY <1>2, <1>3, <1>8, Sizes, RingShrinks
  <2> QED
    BY <1>4, <1>8, <2>1
<1> QED
  BY <1>6, <1>7, <1>8 DEF V, W

(* Window v is w without its oldest instruction, and the stores in front   *)
(* of place k of v do what they did.                                       *)
Ahead(v, w, sqs2, sqs, k) ==
  /\ \A j \in 1 .. k : v[j] = w[j + 1]
  /\ \A j \in 1 .. k - 1 : w[j + 1].kind = "store"
       => SameStore(sqs2[w[j + 1].at.sq_index], sqs[w[j + 1].at.sq_index])

(* Memory holds byte b with what the oldest instruction wrote to it.       *)
ByteMoves(w, sqs, m, m2, b) ==
  IF /\ w[1].kind = "store" /\ AddrAvail(sqs[w[1].at.sq_index])
     /\ b \in Span(sqs[w[1].at.sq_index].addr, sqs[w[1].at.sq_index].size)
  THEN m2[b] = sqs[w[1].at.sq_index].value[b - sqs[w[1].at.sq_index].addr]
  ELSE m2[b] = m[b]

(* A value that was right for instruction kk is right for it when it is    *)
(* one place nearer to the head.                                           *)
LEMMA RightShifts ==
  ASSUME NEW v, NEW w, NEW sqs, NEW sqs2, NEW m, NEW m2, NEW b, NEW x,
         NEW k \in Nat \ {0}, NEW kk, kk = k + 1,
         Ahead(v, w, sqs2, sqs, k), ByteMoves(w, sqs, m, m2, b),
         RightValue(w, sqs, m, b, kk, x)
  PROVE  RightValue(v, sqs2, m2, b, k, x)
<1> DEFINE S(j) == sqs[w[j].at.sq_index]
           T(j) == sqs2[v[j].at.sq_index]
<1>0. \A j \in 1 .. k - 1 : /\ v[j] = w[j + 1]
                            /\ w[j + 1].kind = "store" => SameStore(T(j), S(j + 1))
  <2>1. \A j \in 1 .. k - 1 : j \in 1 .. k
    OBVIOUS
  <2> QED
    BY <2>1 DEF Ahead
<1>1. \A j \in 1 .. k - 1 : Writes(v, sqs2, b, k, j) <=> Writes(w, sqs, b, kk, j + 1)
  <2> SUFFICES ASSUME NEW j \in 1 .. k - 1
               PROVE  Writes(v, sqs2, b, k, j) <=> Writes(w, sqs, b, kk, j + 1)
    OBVIOUS
  <2>1. j + 1 \in 1 .. kk - 1
    OBVIOUS
  <2> QED
    BY <1>0, <2>1 DEF Writes, SameStore, AddrAvail
<1>2. \A i \in 2 .. kk - 1 : i - 1 \in 1 .. k - 1 /\ (i - 1) + 1 = i
  OBVIOUS
<1>3. ASSUME \A j \in 1 .. k - 1 : ~Writes(v, sqs2, b, k, j)
      PROVE  x = m2[b]
  <2>1. \A i \in 2 .. kk - 1 : ~Writes(w, sqs, b, kk, i)
    <3> SUFFICES ASSUME NEW i \in 2 .. kk - 1 PROVE ~Writes(w, sqs, b, kk, i)
      OBVIOUS
    <3>1. ~Writes(w, sqs, b, kk, (i - 1) + 1)
      BY <1>1, <1>2, <1>3
    <3> QED
      BY <1>2, <3>1
  <2>2. 1 \in 1 .. kk - 1 /\ \A i \in 1 + 1 .. kk - 1 : i \in 2 .. kk - 1
    OBVIOUS
  <2>3. CASE Writes(w, sqs, b, kk, 1)
    <3>1. WritesLast(w, sqs, b, kk, 1)
      BY <2>1, <2>2, <2>3 DEF WritesLast
    <3>2. x = S(1).value[b - S(1).addr]
      BY <2>2, <3>1 DEF RightValue
    <3> QED
      BY <2>3, <3>2 DEF ByteMoves, Writes
  <2>4. CASE ~Writes(w, sqs, b, kk, 1)
    <3>1. \A i \in 1 .. kk - 1 : ~Writes(w, sqs, b, kk, i)
      <4>1. \A i \in 1 .. kk - 1 : i = 1 \/ i \in 2 .. kk - 1
        OBVIOUS
      <4> QED
        BY <2>1, <2>4, <4>1
    <3>2. x = m[b]
      BY <3>1 DEF RightValue
    <3> QED
      BY <2>2, <2>4, <3>2 DEF ByteMoves, Writes
  <2> QED
    BY <2>3, <2>4
<1>4. ASSUME NEW j \in 1 .. k - 1, WritesLast(v, sqs2, b, k, j)
      PROVE  StoreValueAvail(T(j)) /\ x = T(j).value[b - T(j).addr]
  <2>1. Writes(w, sqs, b, kk, j + 1) /\ j + 1 \in 1 .. kk - 1
    BY <1>1, <1>4 DEF WritesLast
  <2>2. \A i \in (j + 1) + 1 .. kk - 1 : ~Writes(w, sqs, b, kk, i)
    <3> SUFFICES ASSUME NEW i \in (j + 1) + 1 .. kk - 1 PROVE ~Writes(w, sqs, b, kk, i)
      OBVIOUS
    <3>1. i - 1 \in j + 1 .. k - 1 /\ i - 1 \in 1 .. k - 1 /\ (i - 1) + 1 = i
      OBVIOUS
    <3>2. ~Writes(v, sqs2, b, k, i - 1)
      BY <1>4, <3>1 DEF WritesLast
    <3>3. ~Writes(w, sqs, b, kk, (i - 1) + 1)
      BY <1>1, <3>1, <3>2
    <3> QED
      BY <3>1, <3>3
  <2>3. WritesLast(w, sqs, b, kk, j + 1)
    BY <2>1, <2>2 DEF WritesLast
  <2>4. StoreValueAvail(S(j + 1)) /\ x = S(j + 1).value[b - S(j + 1).addr]
    BY <2>1, <2>3 DEF RightValue
  <2>5. SameStore(T(j), S(j + 1))
    BY <1>0, <2>1 DEF Writes
  <2> QED
    BY <2>4, <2>5 DEF SameStore, StoreValueAvail
<1> QED
  BY <1>3, <1>4 DEF RightValue

(* So does what holds of it.                                               *)
LEMMA ValueShifts ==
  ASSUME NEW v, NEW w, NEW lqs, NEW lqs2, NEW sqs, NEW sqs2, NEW m, NEW m2,
         NEW k \in Nat \ {0}, NEW kk, kk = k + 1,
         Ahead(v, w, sqs2, sqs, k), ~Marked(w[1]),
         w[kk].kind = "load" => SameLoad(lqs2[w[kk].at.lq_index], lqs[w[kk].at.lq_index]),
         HasValue(w, lqs, kk) => \A b \in Span(lqs[w[kk].at.lq_index].addr, lqs[w[kk].at.lq_index].size) :
                                   ByteMoves(w, sqs, m, m2, b),
         ValueAt(w, lqs, sqs, m, kk), WaitAt(w, lqs, sqs, kk)
  PROVE  ValueAt(v, lqs2, sqs2, m2, k) /\ WaitAt(v, lqs2, sqs2, k)
<1> DEFINE l == lqs[w[kk].at.lq_index]
           q == lqs2[v[k].at.lq_index]
           S(j) == sqs[w[j].at.sq_index]
           T(j) == sqs2[v[j].at.sq_index]
<1>0. \A j \in 1 .. k - 1 : /\ v[j] = w[j + 1] /\ j + 1 \in 1 .. kk - 1
                            /\ w[j + 1].kind = "store" => SameStore(T(j), S(j + 1))
  <2>1. \A j \in 1 .. k - 1 : j \in 1 .. k /\ j + 1 \in 1 .. kk - 1
    OBVIOUS
  <2> QED
    BY <2>1 DEF Ahead
<1>1. v[k] = w[kk]
  BY DEF Ahead
<1>2. ASSUME HasValue(v, lqs2, k)
      PROVE  HasValue(w, lqs, kk) /\ SameLoad(q, l)
  BY <1>1, <1>2 DEF HasValue, SameLoad
<1>3. ASSUME HasValue(v, lqs2, k), Unmarked(v, k)
      PROVE  LoadRight(v, q, sqs2, m2, k)
  <2>1. Unmarked(w, kk)
    <3> SUFFICES ASSUME NEW j \in 1 .. kk PROVE ~Marked(w[j])
      BY DEF Unmarked
    <3>1. CASE j = 1
      BY <3>1
    <3>2. CASE j # 1
      <4>1. j - 1 \in 1 .. k /\ (j - 1) + 1 = j
        BY <3>2
      <4>2. ~Marked(v[j - 1]) /\ v[j - 1] = w[(j - 1) + 1]
        BY <1>3, <4>1 DEF Unmarked, Ahead
      <4> QED
        BY <4>1, <4>2
    <3> QED
      BY <3>1, <3>2
  <2>2. LoadRight(w, l, sqs, m, kk)
    BY <1>2, <1>3, <2>1 DEF ValueAt
  <2>3. q.addr = l.addr /\ q.size = l.size /\ q.value = l.value
    BY <1>2, <1>3 DEF SameLoad
  <2>4. ASSUME NEW b \in Span(l.addr, l.size)
        PROVE  RightValue(v, sqs2, m2, b, k, l.value[b - l.addr])
    <3>1. RightValue(w, sqs, m, b, kk, l.value[b - l.addr])
      BY <2>2, <2>4 DEF LoadRight
    <3>2. ByteMoves(w, sqs, m, m2, b)
      BY <1>2, <1>3, <2>4
    <3> QED
      BY <3>1, <3>2, RightShifts
  <2> QED
    BY <2>2, <2>3, <2>4 DEF LoadRight
<1>4. WaitAt(v, lqs2, sqs2, k)
  <2> SUFFICES ASSUME HasValue(v, lqs2, k), ~SpecDisambig,
                      NEW j \in 1 .. k - 1, v[j].kind = "store", ~AddrAvail(T(j))
               PROVE  Covered(v, lqs2, sqs2, j, k)
    BY DEF WaitAt
  <2>1. w[j + 1].kind = "store" /\ ~AddrAvail(S(j + 1)) /\ j + 1 \in 1 .. kk - 1
    BY <1>0 DEF SameStore, AddrAvail
  <2>2. Covered(w, lqs, sqs, j + 1, kk)
    BY <1>2, <2>1 DEF WaitAt
  <2>3. PICK i \in (j + 1) + 1 .. kk - 1 : /\ w[i].kind = "store" /\ AddrAvail(S(i))
                                           /\ S(i).addr = l.addr /\ S(i).size = l.size
    BY <2>2 DEF Covered
  <2>4. i - 1 \in 1 .. k - 1 /\ i - 1 \in j + 1 .. k - 1 /\ (i - 1) + 1 = i
    OBVIOUS
  <2>5. v[i - 1] = w[i] /\ SameStore(T(i - 1), S(i))
    BY <1>0, <2>3, <2>4
  <2>6. v[i - 1].kind = "store" /\ AddrAvail(T(i - 1)) /\ T(i - 1).addr = q.addr /\ T(i - 1).size = q.size
    BY <1>2, <2>3, <2>5 DEF SameStore, SameLoad, AddrAvail
  <2> QED
    BY <2>4, <2>6 DEF Covered
<1> QED
  BY <1>3, <1>4 DEF ValueAt

(* An unmarked instruction leaves the window, and what it wrote is in      *)
(* memory.                                                                 *)
LEMMA InstructionLeaves ==
  ASSUME IInv, window # <<>>, window' = Tail(window), ~Marked(window[1]),
         TypeOK', LoadRing', StoreRing',
         \A i \in LSlot : SameLoad(LQ'[i], LQ[i]) /\ LoadEntryOK(LQ'[i]),
         \A i \in SSlot : SameStore(SQ'[i], SQ[i]) /\ StoreEntryOK(SQ'[i]),
         Len(window) > 1 => \A b \in Byte : ByteMoves(window, SQ, mem, mem', b)
  PROVE  IInv'
<1> DEFINE v == window'
           L == Len(window)
<1>0. /\ TypeOK /\ L \in Nat \ {0} /\ Len(v) = L - 1
      /\ \A k \in 1 .. Len(v) : v[k] = window[k + 1] /\ k + 1 \in 1 .. L
      /\ \A j \in 1 .. L : window[j].at.lq_index \in LSlot /\ window[j].at.sq_index \in SSlot
  <2>1. TypeOK /\ LoadRing /\ StoreRing
    BY DEF IInv
  <2>2. /\ L \in Nat \ {0} /\ Len(v) = L - 1
        /\ \A k \in 1 .. Len(v) : v[k] = window[k + 1]
    BY <2>1, WindowShrinks
  <2>3. \A k \in 1 .. Len(v) : k + 1 \in 1 .. L
    BY <2>2
  <2>4. \A j \in 1 .. L : window[j].at.lq_index \in LSlot /\ window[j].at.sq_index \in SSlot
    BY <2>1, Sizes, LqPlaces, SqPlaces
  <2> QED
    BY <2>1, <2>2, <2>3, <2>4
<1>1. \A k \in 1 .. Len(v) : LinkAt(v, LQ', SQ', k)
  <2> SUFFICES ASSUME NEW k \in 1 .. Len(v) PROVE LinkAt(v, LQ', SQ', k)
    OBVIOUS
  <2>1. LinkAt(window, LQ, SQ, k + 1) /\ v[k] = window[k + 1]
    BY <1>0 DEF IInv, Links
  <2>2. SameLoad(LQ'[window[k + 1].at.lq_index], LQ[window[k + 1].at.lq_index])
        /\ SameStore(SQ'[window[k + 1].at.sq_index], SQ[window[k + 1].at.sq_index])
    BY <1>0
  <2>3. k + 1 = L <=> k = Len(v)
    BY <1>0
  <2> HIDE DEF v
  <2> QED
    BY <2>1, <2>2, <2>3 DEF LinkAt, SameLoad, SameStore
<1>2. \A k \in 1 .. Len(v) : ValueAt(v, LQ', SQ', mem', k) /\ WaitAt(v, LQ', SQ', k)
  <2> SUFFICES ASSUME NEW k \in 1 .. Len(v)
               PROVE  ValueAt(v, LQ', SQ', mem', k) /\ WaitAt(v, LQ', SQ', k)
    OBVIOUS
  <2> DEFINE kk == k + 1
             l == LQ[window[kk].at.lq_index]
  <2>1. kk \in 1 .. L /\ k \in Nat \ {0} /\ L > 1
    BY <1>0
  <2>2. ValueAt(window, LQ, SQ, mem, kk) /\ WaitAt(window, LQ, SQ, kk)
    BY <2>1 DEF IInv, ValuesRight
  <2>3. Ahead(v, window, SQ', SQ, k)
    <3>1. \A j \in 1 .. k : j \in 1 .. Len(v)
      BY <1>0
    <3>2. \A j \in 1 .. k - 1 : j \in 1 .. k
      OBVIOUS
    <3> QED
      BY <1>0, <3>1, <3>2 DEF Ahead
  <2>4. SameLoad(LQ'[window[kk].at.lq_index], LQ[window[kk].at.lq_index])
    BY <1>0, <2>1
  <2>5. HasValue(window, LQ, kk) => \A b \in Span(l.addr, l.size) : ByteMoves(window, SQ, mem, mem', b)
    <3> SUFFICES ASSUME HasValue(window, LQ, kk), NEW b \in Span(l.addr, l.size)
                 PROVE  ByteMoves(window, SQ, mem, mem', b)
      OBVIOUS
    <3>1. LoadEntryOK(l) /\ l.value_avail
      BY <1>0, <2>1 DEF IInv, HasValue
    <3>2. l.size \in Size /\ l.addr \in Addrs(l.size)
      BY <3>1 DEF LoadEntryOK
    <3> HIDE DEF l
    <3>3. b \in Byte
      BY <3>2, AddrsIs
    <3> QED
      BY <2>1, <3>3
  <2>6. kk = k + 1
    OBVIOUS
  <2> HIDE DEF v, kk
  <2> QED
    BY <2>1, <2>2, <2>3, <2>4, <2>5, <2>6, ValueShifts, ZenonT(30)
<1>3. Links(window, LQ, SQ)' /\ ValuesRight(window, LQ, SQ, mem)'
  BY <1>1, <1>2 DEF Links, ValuesRight
<1> QED
  BY <1>3 DEF IInv

(* An entry whose valid bit is cleared.                                    *)
LEMMA Invalidated ==
  /\ \A x \in LoadEntry : LET q == [x EXCEPT !.valid = FALSE]
       IN  /\ q \in LoadEntry /\ SameLoad(q, x) /\ ~q.valid
           /\ LoadEntryOK(x) => LoadEntryOK(q)
  /\ \A x \in StoreEntry : LET q == [x EXCEPT !.valid = FALSE]
       IN  /\ q \in StoreEntry /\ SameStore(q, x) /\ ~q.valid
           /\ StoreEntryOK(x) => StoreEntryOK(q)
<1>1. \A x \in LoadEntry : LET q == [x EXCEPT !.valid = FALSE]
        IN  /\ q \in LoadEntry /\ SameLoad(q, x) /\ ~q.valid
            /\ LoadEntryOK(x) => LoadEntryOK(q)
  BY DEF LoadEntry, SameLoad, LoadEntryOK, AddrAvail
<1>2. \A x \in StoreEntry : LET q == [x EXCEPT !.valid = FALSE]
        IN  /\ q \in StoreEntry /\ SameStore(q, x) /\ ~q.valid
            /\ StoreEntryOK(x) => StoreEntryOK(q)
  BY DEF StoreEntry, SameStore, StoreEntryOK, AddrAvail, StoreValueAvail
<1> QED
  BY <1>1, <1>2

(* A load retires.                                                         *)
LEMMA RetireLoadKeeps ==
  ASSUME IInv, Retire, window[1].kind = "load"
  PROVE  IInv'
<1>1. /\ window # <<>> /\ window' = Tail(window) /\ Head(window) = window[1] /\ ~Marked(window[1])
      /\ TypeOK /\ Len(window) \in Nat \ {0}
  <2>1. window # <<>> /\ window' = Tail(window) /\ TypeOK
    BY DEF Retire, Complete, IInv
  <2>2. Head(window) = window[1] /\ Len(window) \in Nat \ {0}
    BY <2>1, WindowShrinks
  <2>3. ~Head(window).exception /\ ~Head(window).load_viol
    BY DEF Retire
  <2> QED
    BY <2>1, <2>2, <2>3 DEF Marked
<1>2. commit_load
  BY <1>1 DEF Retire
<1> DEFINE q == [LQ[lq_head] EXCEPT !.valid = FALSE]
<1>3. /\ load_reservation' = (IF LQ[lq_head].amo THEN LQ[lq_head].addr ELSE load_reservation)
      /\ LQ' = [LQ EXCEPT ![lq_head] = q]
      /\ lq_head' = Succ(lq_head, LqSize)
      /\ lq_head_phase' = Phase(lq_head, lq_head_phase, LqSize)
      /\ lq_length' = lq_length - 1
      /\ UNCHANGED <<lq_tail, lq_tail_phase, sq, mem>>
  BY <1>2 DEF commit_load
<1>4. /\ lq_head \in LSlot /\ DOMAIN LQ = LSlot
      /\ \A i \in LSlot : LQ[i] \in LoadEntry /\ LoadEntryOK(LQ[i])
  BY DEF IInv, TypeOK
<1>5. q \in LoadEntry /\ SameLoad(q, LQ[lq_head]) /\ ~q.valid /\ LoadEntryOK(q)
  <2> DEFINE x == LQ[lq_head]
  <2>1. x \in LoadEntry /\ LoadEntryOK(x) /\ q = [x EXCEPT !.valid = FALSE]
    BY <1>4
  <2> HIDE DEF x, q
  <2>2. q \in LoadEntry /\ SameLoad(q, x) /\ ~q.valid /\ LoadEntryOK(q)
    BY <2>1, Invalidated
  <2> QED
    BY <2>2 DEF x
<1> HIDE DEF q
<1>6. /\ DOMAIN LQ' = LSlot /\ LQ'[lq_head] = q
      /\ \A i \in LSlot : i # lq_head => LQ'[i] = LQ[i]
      /\ SQ' = SQ
  BY <1>3, <1>4 DEF sq
<1>7. ValidSlots(LQ') = ValidSlots(LQ) \ {lq_head}
  BY <1>4, <1>5, <1>6 DEF ValidSlots
<1>8. /\ lq_length \in 1 .. LqSize /\ Succ(lq_head, LqSize) \in LSlot
      /\ Phase(lq_head, lq_head_phase, LqSize) \in BOOLEAN
      /\ LoadRing'
  BY <1>1, <1>3, <1>7, LoadRingShrinks
<1>9. StoreRing'
  BY <1>1, <1>3, StoreRingShrinks
<1>10. \A i \in LSlot : SameLoad(LQ'[i], LQ[i]) /\ LoadEntryOK(LQ'[i])
  <2>1. \A i \in LSlot : i # lq_head => SameLoad(LQ'[i], LQ[i]) /\ LoadEntryOK(LQ'[i])
    BY <1>4, <1>6 DEF SameLoad
  <2> QED
    BY <1>5, <1>6, <2>1
<1>11. \A i \in SSlot : SameStore(SQ'[i], SQ[i]) /\ StoreEntryOK(SQ'[i])
  BY <1>6 DEF IInv, SameStore
<1>12. TypeOK'
  <2>1. LQ' \in [LSlot -> LoadEntry]
    BY <1>1, <1>3, <1>5 DEF TypeOK
  <2>2. lq_length' \in 0 .. LqSize
    BY <1>3, <1>8, Sizes
  <2>3. load_reservation' \in Byte \cup {None}
    BY <1>1, <1>3, <1>4 DEF TypeOK, LoadEntry
  <2>4. window' \in Seq(InWindow) /\ Len(window') <= NumActive
    BY <1>1, WindowShrinks
  <2> QED
    BY <1>1, <1>3, <1>8, <2>1, <2>2, <2>3, <2>4 DEF TypeOK, sq
<1>13. \A b \in Byte : ByteMoves(window, SQ, mem, mem', b)
  BY <1>3 DEF ByteMoves
<1> QED
  BY <1>1, <1>8, <1>9, <1>10, <1>11, <1>12, <1>13, InstructionLeaves

(* Memory when a store is written to it.                                   *)
LEMMA StoreCommits ==
  ASSUME mem \in [Byte -> Val], NEW s, StoreEntryOK(s), AddrAvail(s), StoreValueAvail(s),
         NEW m, m = Written(mem, s.addr, s.size, s.value)
  PROVE  /\ m \in [Byte -> Val]
         /\ \A b \in Byte : m[b] = IF b \in Span(s.addr, s.size) THEN s.value[b - s.addr] ELSE mem[b]
<1>1. s.size \in Size /\ s.addr \in Addrs(s.size) /\ s.value \in Values(s.size)
  BY DEF StoreEntryOK
<1>2. \A b \in Span(s.addr, s.size) : b - s.addr \in 0 .. s.size - 1
  BY <1>1, AddrsIs
<1>3. \A b \in Span(s.addr, s.size) : s.value[b - s.addr] \in Val
  BY <1>1, <1>2 DEF Values
<1>4. \A b \in Byte : m[b] = IF b \in Span(s.addr, s.size) THEN s.value[b - s.addr] ELSE mem[b]
  BY DEF Written
<1>5. m = [b \in Byte |-> IF b \in Span(s.addr, s.size) THEN s.value[b - s.addr] ELSE mem[b]]
  BY DEF Written
<1> QED
  BY <1>3, <1>4, <1>5

(* A store retires.                                                        *)
LEMMA RetireStoreKeeps ==
  ASSUME IInv, Retire, window[1].kind = "store"
  PROVE  IInv'
<1> DEFINE s == SQ[sq_head]
           q == [s EXCEPT !.valid = FALSE]
<1>1. /\ window # <<>> /\ window' = Tail(window) /\ Head(window) = window[1] /\ ~Marked(window[1])
      /\ TypeOK /\ Len(window) \in Nat \ {0}
      /\ AddrAvail(s) /\ StoreValueAvail(s)
  <2>1. window # <<>> /\ window' = Tail(window) /\ TypeOK
    BY DEF Retire, Complete, IInv
  <2>2. Head(window) = window[1] /\ Len(window) \in Nat \ {0}
    BY <2>1, WindowShrinks
  <2>3. ~Head(window).exception /\ ~Head(window).load_viol
    BY DEF Retire
  <2>4. AddrAvail(s) /\ StoreValueAvail(s)
    BY <2>2 DEF Retire, Complete
  <2> QED
    BY <2>1, <2>2, <2>3, <2>4 DEF Marked
<1>2. commit_store
  BY <1>1 DEF Retire
<1>3. /\ mem' = (IF s.amo /\ load_reservation # s.addr THEN mem
                 ELSE Written(mem, s.addr, s.size, s.value))
      /\ SQ' = [SQ EXCEPT ![sq_head] = q]
      /\ sq_head' = Succ(sq_head, SqSize)
      /\ sq_head_phase' = Phase(sq_head, sq_head_phase, SqSize)
      /\ sq_length' = sq_length - 1
      /\ UNCHANGED <<sq_tail, sq_tail_phase, lq, load_reservation>>
  BY <1>2 DEF commit_store
<1>4. /\ sq_head \in SSlot /\ DOMAIN SQ = SSlot /\ s \in StoreEntry /\ StoreEntryOK(s)
      /\ \A i \in SSlot : SQ[i] \in StoreEntry /\ StoreEntryOK(SQ[i])
      /\ mem \in [Byte -> Val]
  BY DEF IInv, TypeOK
<1>5. q \in StoreEntry /\ SameStore(q, s) /\ ~q.valid /\ StoreEntryOK(q)
  <2> HIDE DEF s
  <2> QED
    BY <1>4, Invalidated
<1> HIDE DEF q
<1>6. /\ DOMAIN SQ' = SSlot /\ SQ'[sq_head] = q
      /\ \A i \in SSlot : i # sq_head => SQ'[i] = SQ[i]
      /\ LQ' = LQ
  BY <1>3, <1>4 DEF lq
<1>7. ValidSlots(SQ') = ValidSlots(SQ) \ {sq_head}
  BY <1>4, <1>5, <1>6 DEF ValidSlots
<1>8. /\ sq_length \in 1 .. SqSize /\ Succ(sq_head, SqSize) \in SSlot
      /\ Phase(sq_head, sq_head_phase, SqSize) \in BOOLEAN
      /\ window[1].at.sq_index = sq_head
      /\ StoreRing'
  BY <1>1, <1>3, <1>7, StoreRingShrinks
<1>9. LoadRing'
  BY <1>1, <1>3, LoadRingShrinks
<1>10. \A i \in SSlot : SameStore(SQ'[i], SQ[i]) /\ StoreEntryOK(SQ'[i])
  <2>1. \A i \in SSlot : i # sq_head => SameStore(SQ'[i], SQ[i]) /\ StoreEntryOK(SQ'[i])
    BY <1>4, <1>6 DEF SameStore
  <2> QED
    BY <1>5, <1>6, <2>1
<1>11. \A i \in LSlot : SameLoad(LQ'[i], LQ[i]) /\ LoadEntryOK(LQ'[i])
  BY <1>6 DEF IInv, SameLoad
<1>12. /\ Written(mem, s.addr, s.size, s.value) \in [Byte -> Val]
       /\ \A b \in Byte : Written(mem, s.addr, s.size, s.value)[b]
                            = IF b \in Span(s.addr, s.size) THEN s.value[b - s.addr] ELSE mem[b]
  <2> HIDE DEF s
  <2> QED
    BY <1>1, <1>4, StoreCommits
<1>13. TypeOK'
  <2>1. SQ' \in [SSlot -> StoreEntry]
    BY <1>1, <1>3, <1>5 DEF TypeOK
  <2>2. sq_length' \in 0 .. SqSize
    BY <1>3, <1>8, Sizes
  <2>3. mem' \in [Byte -> Val]
    BY <1>3, <1>4, <1>12
  <2>4. window' \in Seq(InWindow) /\ Len(window') <= NumActive
    BY <1>1, WindowShrinks
  <2> QED
    BY <1>1, <1>3, <1>8, <2>1, <2>2, <2>3, <2>4 DEF TypeOK, lq
<1>14. ASSUME Len(window) > 1 PROVE \A b \in Byte : ByteMoves(window, SQ, mem, mem', b)
  <2>7. 1 \in 1 .. Len(window) /\ 1 # Len(window)
    BY <1>1, <1>14
  <2>1. LinkAt(window, LQ, SQ, 1) /\ 1 # Len(window)
    BY <2>7 DEF IInv, Links
  <2>2. s.amo = window[1].amo /\ ~window[1].amo
    BY <1>8, <2>1 DEF LinkAt
  <2>3. ~s.amo
    BY <2>2
  <2>4. mem' = Written(mem, s.addr, s.size, s.value)
    BY <1>3, <2>3
  <2>5. SQ[window[1].at.sq_index] = s
    BY <1>8
  <2> HIDE DEF s
  <2>6. \A b \in Byte : mem'[b] = IF b \in Span(s.addr, s.size) THEN s.value[b - s.addr] ELSE mem[b]
    BY <1>12, <2>4
  <2> QED
    BY <1>1, <2>5, <2>6 DEF ByteMoves
<1> QED
  BY <1>1, <1>8, <1>9, <1>10, <1>11, <1>13, <1>14, InstructionLeaves

(* A branch retires.                                                       *)
LEMMA RetireBranchKeeps ==
  ASSUME IInv, Retire, window[1].kind = "branch"
  PROVE  IInv'
<1>1. /\ window # <<>> /\ window' = Tail(window) /\ Head(window) = window[1] /\ ~Marked(window[1])
      /\ TypeOK /\ Len(window) \in Nat \ {0}
  <2>1. window # <<>> /\ window' = Tail(window) /\ TypeOK
    BY DEF Retire, Complete, IInv
  <2>2. Head(window) = window[1] /\ Len(window) \in Nat \ {0}
    BY <2>1, WindowShrinks
  <2>3. ~Head(window).exception /\ ~Head(window).load_viol
    BY DEF Retire
  <2> QED
    BY <2>1, <2>2, <2>3 DEF Marked
<1>2. UNCHANGED <<lq, sq, mem, load_reservation>>
  BY <1>1 DEF Retire
<1>3. LoadRing' /\ StoreRing'
  BY <1>1, <1>2, LoadRingShrinks, StoreRingShrinks
<1>4. TypeOK'
  <2>1. window' \in Seq(InWindow) /\ Len(window') <= NumActive
    BY <1>1, WindowShrinks
  <2> QED
    BY <1>1, <1>2, <2>1 DEF TypeOK, lq, sq
<1>5. LQ' = LQ /\ SQ' = SQ /\ mem' = mem
  BY <1>2 DEF lq, sq
<1>6. /\ \A i \in LSlot : SameLoad(LQ'[i], LQ[i]) /\ LoadEntryOK(LQ'[i])
      /\ \A i \in SSlot : SameStore(SQ'[i], SQ[i]) /\ StoreEntryOK(SQ'[i])
  BY <1>5 DEF IInv, SameLoad, SameStore
<1>7. \A b \in Byte : ByteMoves(window, SQ, mem, mem', b)
  BY <1>1, <1>5 DEF ByteMoves
<1> QED
  BY <1>1, <1>3, <1>4, <1>6, <1>7, InstructionLeaves

(* Retire keeps the invariant.                                             *)
LEMMA RetireKeeps ==
  ASSUME IInv, Retire
  PROVE  IInv'
<1>1. window # <<>> /\ TypeOK
  BY DEF Retire, Complete, IInv
<1>2. Len(window) \in Nat \ {0}
  <2>1. window \in Seq(InWindow)
    BY <1>1 DEF TypeOK
  <2> QED
    BY <1>1, <2>1
<1>3. window[1].kind \in {"load", "store", "branch"}
  BY <1>1, <1>2, WindowType
<1> QED
  BY <1>3, RetireLoadKeeps, RetireStoreKeeps, RetireBranchKeeps

(* An empty window and queues without a valid entry.                       *)
LEMMA EmptyKeeps ==
  ASSUME TypeOK', window' = <<>>,
         \A i \in LSlot : ~LQ'[i].valid /\ LoadEntryOK(LQ'[i]),
         \A i \in SSlot : ~SQ'[i].valid /\ StoreEntryOK(SQ'[i]),
         lq_head' = 0, lq_tail' = 0, lq_length' = 0, ~lq_head_phase', ~lq_tail_phase',
         sq_head' = 0, sq_tail' = 0, sq_length' = 0, ~sq_head_phase', ~sq_tail_phase'
  PROVE  IInv'
<1>1. lq_head_phase' = FALSE /\ lq_tail_phase' = FALSE /\ sq_head_phase' = FALSE /\ sq_tail_phase' = FALSE
  OBVIOUS
<1>2. /\ \A i \in 0 .. LqSize - 1 : i \notin ValidSlots(LQ')
      /\ \A i \in 0 .. SqSize - 1 : i \notin ValidSlots(SQ')
  BY Sizes DEF ValidSlots
<1>3. Len(window') = 0
  OBVIOUS
<1>4. /\ Ring(window', "load", LqIndex(window'), LqPhase(window'), ValidSlots(LQ'),
              0, FALSE, 0, FALSE, 0, LqSize)
      /\ Ring(window', "store", SqIndex(window'), SqPhase(window'), ValidSlots(SQ'),
              0, FALSE, 0, FALSE, 0, SqSize)
  BY <1>2, <1>3, Sizes, RingEmpty
<1>5. LoadRing'
  BY <1>1, <1>4 DEF LoadRing
<1>6. StoreRing'
  BY <1>1, <1>4 DEF StoreRing
<1>7. Links(window, LQ, SQ)' /\ ValuesRight(window, LQ, SQ, mem)'
  BY <1>3 DEF Links, ValuesRight
<1> QED
  BY <1>5, <1>6, <1>7 DEF IInv

(* RetireSquash keeps the invariant.                                       *)
LEMMA RetireSquashKeeps ==
  ASSUME IInv, RetireSquash
  PROVE  IInv'
<1>1. /\ lq_head' = 0 /\ lq_tail' = 0 /\ lq_length' = 0 /\ ~lq_head_phase' /\ ~lq_tail_phase'
      /\ sq_head' = 0 /\ sq_tail' = 0 /\ sq_length' = 0 /\ ~sq_head_phase' /\ ~sq_tail_phase'
      /\ lq_head_phase' \in BOOLEAN /\ lq_tail_phase' \in BOOLEAN
      /\ sq_head_phase' \in BOOLEAN /\ sq_tail_phase' \in BOOLEAN
      /\ LQ' = [i \in LSlot |-> [LQ[i] EXCEPT !.valid = FALSE]]
      /\ SQ' = [i \in SSlot |-> [SQ[i] EXCEPT !.valid = FALSE]]
      /\ window' = <<>> /\ UNCHANGED <<mem, load_reservation>>
  BY DEF RetireSquash, flush
<1>2. /\ \A i \in LSlot : LQ[i] \in LoadEntry /\ LoadEntryOK(LQ[i])
      /\ \A i \in SSlot : SQ[i] \in StoreEntry /\ StoreEntryOK(SQ[i])
  BY DEF IInv, TypeOK
<1>3. ASSUME NEW i \in LSlot
      PROVE  LQ'[i] \in LoadEntry /\ ~LQ'[i].valid /\ LoadEntryOK(LQ'[i])
  <2> DEFINE x == LQ[i]
             q == [x EXCEPT !.valid = FALSE]
  <2>1. x \in LoadEntry /\ LoadEntryOK(x) /\ LQ'[i] = q
    BY <1>1, <1>2
  <2> HIDE DEF x
  <2>2. q \in LoadEntry /\ ~q.valid /\ LoadEntryOK(q)
    BY <2>1, Invalidated
  <2> HIDE DEF q
  <2> QED
    BY <2>1, <2>2
<1>4. ASSUME NEW i \in SSlot
      PROVE  SQ'[i] \in StoreEntry /\ ~SQ'[i].valid /\ StoreEntryOK(SQ'[i])
  <2> DEFINE x == SQ[i]
             q == [x EXCEPT !.valid = FALSE]
  <2>1. x \in StoreEntry /\ StoreEntryOK(x) /\ SQ'[i] = q
    BY <1>1, <1>2
  <2> HIDE DEF x
  <2>2. q \in StoreEntry /\ ~q.valid /\ StoreEntryOK(q)
    BY <2>1, Invalidated
  <2> HIDE DEF q
  <2> QED
    BY <2>1, <2>2
<1>5. TypeOK'
  <2>1. LQ' \in [LSlot -> LoadEntry] /\ SQ' \in [SSlot -> StoreEntry]
    BY <1>1, <1>3, <1>4
  <2>2. window' \in Seq(InWindow) /\ Len(window') <= NumActive
    BY <1>1, LsuAssumption
  <2>3. 0 \in LSlot /\ 0 \in SSlot /\ 0 \in 0 .. LqSize /\ 0 \in 0 .. SqSize
    BY Sizes
  <2> QED
    BY <1>1, <2>1, <2>2, <2>3 DEF IInv, TypeOK
<1> QED
  BY <1>1, <1>3, <1>4, <1>5, EmptyKeeps

(* The initial state satisfies the invariant.                              *)
LEMMA InitHolds ==
  ASSUME Init
  PROVE  IInv
<1>1. EmptyLoad \in LoadEntry /\ ~EmptyLoad.valid /\ LoadEntryOK(EmptyLoad)
  BY Sizes DEF EmptyLoad, LoadEntry, QueueValues, LoadEntryOK, AddrAvail
<1>2. EmptyStore \in StoreEntry /\ ~EmptyStore.valid /\ StoreEntryOK(EmptyStore)
  BY DEF EmptyStore, StoreEntry, QueueValues, StoreEntryOK, AddrAvail, StoreValueAvail
<1>3. /\ LQ = [i \in LSlot |-> EmptyLoad] /\ SQ = [i \in SSlot |-> EmptyStore]
      /\ lq_head = 0 /\ lq_tail = 0 /\ lq_length = 0
      /\ lq_head_phase = FALSE /\ lq_tail_phase = FALSE
      /\ sq_head = 0 /\ sq_tail = 0 /\ sq_length = 0
      /\ sq_head_phase = FALSE /\ sq_tail_phase = FALSE
      /\ window = <<>> /\ mem = [b \in Byte |-> Zero] /\ load_reservation = None
  BY DEF Init
<1>4. /\ \A i \in LSlot : LQ[i] = EmptyLoad
      /\ \A i \in SSlot : SQ[i] = EmptyStore
  BY <1>3
<1>5. /\ \A i \in LSlot : LQ[i] \in LoadEntry /\ ~LQ[i].valid /\ LoadEntryOK(LQ[i])
      /\ \A i \in SSlot : SQ[i] \in StoreEntry /\ ~SQ[i].valid /\ StoreEntryOK(SQ[i])
  BY <1>1, <1>2, <1>4
<1>6. TypeOK
  <2>1. LQ \in [LSlot -> LoadEntry] /\ SQ \in [SSlot -> StoreEntry]
    BY <1>1, <1>2, <1>3
  <2>2. window \in Seq(InWindow) /\ Len(window) <= NumActive
    BY <1>3, LsuAssumption
  <2>3. 0 \in LSlot /\ 0 \in SSlot /\ 0 \in 0 .. LqSize /\ 0 \in 0 .. SqSize
    BY Sizes
  <2>4. mem \in [Byte -> Val] /\ load_reservation \in Byte \cup {None}
    BY <1>3, LsuAssumption
  <2> QED
    BY <1>3, <2>1, <2>2, <2>3, <2>4 DEF TypeOK
<1>7. /\ \A i \in 0 .. LqSize - 1 : i \notin ValidSlots(LQ)
      /\ \A i \in 0 .. SqSize - 1 : i \notin ValidSlots(SQ)
  BY <1>5, Sizes DEF ValidSlots
<1>8. Len(window) = 0
  BY <1>3
<1>9. /\ Ring(window, "load", LqIndex(window), LqPhase(window), ValidSlots(LQ),
              0, FALSE, 0, FALSE, 0, LqSize)
      /\ Ring(window, "store", SqIndex(window), SqPhase(window), ValidSlots(SQ),
              0, FALSE, 0, FALSE, 0, SqSize)
  BY <1>7, <1>8, Sizes, RingEmpty
<1>10. LoadRing /\ StoreRing
  BY <1>3, <1>9 DEF LoadRing, StoreRing
<1>11. Links(window, LQ, SQ) /\ ValuesRight(window, LQ, SQ, mem)
  BY <1>8 DEF Links, ValuesRight
<1> QED
  BY <1>5, <1>6, <1>10, <1>11 DEF IInv

-----------------------------------------------------------------------------
(* The theorems.                                                           *)

(* A step that changes nothing keeps the invariant.                        *)
LEMMA StutterKeeps ==
  ASSUME IInv, UNCHANGED vars
  PROVE  IInv'
<1>1. UNCHANGED <<LQ, lq_head, lq_tail, lq_head_phase, lq_tail_phase, lq_length,
                  SQ, sq_head, sq_tail, sq_head_phase, sq_tail_phase, sq_length,
                  window, mem, load_reservation>>
  BY DEF vars, lq, sq
<1>2. TypeOK'
  BY <1>1 DEF IInv, TypeOK
<1>3. LoadRing' /\ StoreRing'
  BY <1>1 DEF IInv, LoadRing, StoreRing
<1>4. Links(window, LQ, SQ)' /\ ValuesRight(window, LQ, SQ, mem)'
  BY <1>1 DEF IInv
<1>5. (\A i \in LSlot : LoadEntryOK(LQ[i]))' /\ (\A i \in SSlot : StoreEntryOK(SQ[i]))'
  BY <1>1 DEF IInv
<1> QED
  BY <1>2, <1>3, <1>4, <1>5 DEF IInv

(* Every step keeps the invariant.                                         *)
LEMMA StepKeeps ==
  ASSUME IInv, [Next]_vars
  PROVE  IInv'
<1>1. CASE \E n \in Size, amo \in AmoKinds, mdp_stall \in BOOLEAN :
             DispatchLoad(n, amo, mdp_stall)
  BY <1>1, DispatchLoadKeeps
<1>2. CASE \E n \in Size, amo \in AmoKinds : DispatchStore(n, amo)
  BY <1>2, DispatchStoreKeeps
<1>3. CASE DispatchBranch
  BY <1>3, DispatchBranchKeeps
<1>4. CASE ExecuteLoad
  BY <1>4, LoadAddrKeeps DEF ExecuteLoad
<1>5. CASE ResolveMiss
  BY <1>5, MissResolvedKeeps DEF ResolveMiss
<1>6. CASE LoadReplay
  BY <1>6, LoadReplayKeeps
<1>7. CASE ExecuteStore
  BY <1>7, StoreAddrKeeps DEF ExecuteStore
<1>8. CASE ReceiveValue
  BY <1>8, StoreValueKeeps DEF ReceiveValue
<1>9. CASE Resolve
  BY <1>9, ResolveCorrectKeeps, ResolveMispredictKeeps DEF Resolve
<1>10. CASE Retire
  BY <1>10, RetireKeeps
<1>11. CASE RetireSquash
  BY <1>11, RetireSquashKeeps
<1>12. CASE UNCHANGED vars
  BY <1>12, StutterKeeps
<1> QED
  BY <1>1, <1>2, <1>3, <1>4, <1>5, <1>6, <1>7, <1>8, <1>9, <1>10, <1>11, <1>12 DEF Next

(* The invariant holds in every reachable state, whatever the sizes of the *)
(* queues, of memory and of the window are: dispatch, execution, replay,   *)
(* partial squashes, commits and flushes all keep it.                      *)
THEOREM Invariance ==
  Spec => []IInv
<1>1. Init => IInv
  BY InitHolds
<1>2. IInv /\ [Next]_vars => IInv'
  BY StepKeeps
<1> QED
  BY <1>1, <1>2, PTL DEF Spec

(* The two rings are what the model's property says of the queues.         *)
LEMMA QueuesAreExact ==
  IInv => QueuesInOrder
<1> SUFFICES ASSUME IInv PROVE QueuesInOrder
  OBVIOUS
<1> DEFINE L == Len(window)
<1>0. /\ TypeOK /\ LoadRing /\ StoreRing /\ L \in Nat /\ DOMAIN window = 1 .. L
      /\ DOMAIN LQ = LSlot /\ DOMAIN SQ = SSlot
  BY WindowType DEF IInv, TypeOK
<1>1. /\ lq_length = NumOf(window, "load", L)
      /\ StandsAt(lq_tail, lq_tail_phase, lq_head, lq_head_phase, lq_length, LqSize)
      /\ \A i \in LSlot : i \in ValidSlots(LQ) <=> Within(i, lq_head, lq_length, LqSize)
  BY <1>0, Sizes DEF LoadRing, Ring
<1>2. /\ sq_length = NumOf(window, "store", L)
      /\ StandsAt(sq_tail, sq_tail_phase, sq_head, sq_head_phase, sq_length, SqSize)
      /\ \A i \in SSlot : i \in ValidSlots(SQ) <=> Within(i, sq_head, sq_length, SqSize)
  BY <1>0, Sizes DEF StoreRing, Ring
<1>3. lq_length = Number("load", L) /\ sq_length = Number("store", L)
  BY <1>0, <1>1, <1>2, NumberIs
<1>4. /\ \A i \in LSlot : LQ[i].valid <=> Within(i, lq_head, lq_length, LqSize)
      /\ \A i \in SSlot : SQ[i].valid <=> Within(i, sq_head, sq_length, SqSize)
  BY <1>0, <1>1, <1>2 DEF ValidSlots
<1>5. ASSUME NEW k \in DOMAIN window
      PROVE  LET at == window[k].at
             IN /\ StandsAt(at.lq_index, at.lq_phase, lq_head, lq_head_phase,
                            Number("load", k - 1), LqSize)
                /\ StandsAt(at.sq_index, at.sq_phase, sq_head, sq_head_phase,
                            Number("store", k - 1), SqSize)
                /\ window[k].kind = "load" =>
                      /\ LQ[at.lq_index].sq_index = at.sq_index
                      /\ LQ[at.lq_index].sq_index_phase = at.sq_phase
  <2>1. k \in 1 .. L /\ k - 1 \in Nat
    BY <1>0
  <2>2. /\ StandsAt(window[k].at.lq_index, window[k].at.lq_phase, lq_head, lq_head_phase,
                    NumOf(window, "load", k - 1), LqSize)
        /\ StandsAt(window[k].at.sq_index, window[k].at.sq_phase, sq_head, sq_head_phase,
                    NumOf(window, "store", k - 1), SqSize)
    BY <1>0, <2>1, LqPlaces, SqPlaces
  <2>3. /\ Number("load", k - 1) = NumOf(window, "load", k - 1)
        /\ Number("store", k - 1) = NumOf(window, "store", k - 1)
    BY <2>1, NumberIs
  <2>4. LinkAt(window, LQ, SQ, k)
    BY <2>1 DEF IInv, Links
  <2> QED
    BY <2>2, <2>3, <2>4 DEF LinkAt
<1> QED
  BY <1>0, <1>1, <1>2, <1>3, <1>4, <1>5 DEF QueuesInOrder, QueuesExact

(* However dispatch, commit, partial squashes and flushes interleave, both *)
(* queues hold the loads and the stores of the window in program order,    *)
(* and each instruction still points at its place in them.                 *)
THEOREM QueuesStayInOrder ==
  Spec => []QueuesInOrder
BY Invariance, QueuesAreExact, PTL

(* Once the addresses of the older stores are known, a value that the      *)
(* invariant calls right is the one of the youngest store to the byte.     *)
LEMMA ViolationsAreCaught ==
  IInv => ViolationsCaught
<1> SUFFICES ASSUME IInv, NEW k \in DOMAIN window,
                    window[k].kind = "load", LQ[window[k].at.lq_index].value_avail,
                    \A j \in 1 .. k : ~Marked(window[j]),
                    \A j \in 1 .. k - 1 : window[j].kind = "store"
                      => AddrAvail(SQ[window[j].at.sq_index]),
                    NEW b \in Span(LQ[window[k].at.lq_index].addr, LQ[window[k].at.lq_index].size)
             PROVE  HasProgramValue(b, k, LQ[window[k].at.lq_index].value[b - LQ[window[k].at.lq_index].addr])
  BY DEF ViolationsCaught
<1> DEFINE l == LQ[window[k].at.lq_index]
           x == l.value[b - l.addr]
           S == StoresTo(b, k)
<1>0. k \in 1 .. Len(window) /\ Len(window) \in Nat
  BY WindowType DEF IInv
<1>1. RightValue(window, SQ, mem, b, k, x)
  <2>1. ValueAt(window, LQ, SQ, mem, k)
    BY <1>0 DEF IInv, ValuesRight
  <2>2. HasValue(window, LQ, k) /\ Unmarked(window, k)
    BY DEF HasValue, Unmarked
  <2> QED
    BY <2>1, <2>2 DEF ValueAt, LoadRight
<1>2. \A j \in 1 .. k - 1 : j \in S <=> Writes(window, SQ, b, k, j)
  BY DEF StoresTo, Writes
<1>3. S \subseteq 1 .. k - 1
  BY DEF StoresTo
<1> HIDE DEF x, S
<1>4. CASE S = {}
  <2>1. x = mem[b]
    BY <1>1, <1>2, <1>4 DEF RightValue
  <2> QED
    BY <1>4, <2>1 DEF HasProgramValue, S, x
<1>5. CASE S # {}
  <2> DEFINE j == CHOOSE p \in S : \A y \in S : y <= p
  <2>1. S \in SUBSET Int /\ IsFiniteSet(S)
    <3>1. IsFiniteSet(1 .. k - 1)
      <4>1. k - 1 \in Int
        BY <1>0
      <4> QED
        BY <4>1, FS_Interval
    <3>2. IsFiniteSet(S)
      BY <1>3, <3>1, FS_Subset
    <3> QED
      BY <1>0, <1>3, <3>2
  <2>2. \E p \in S : \A y \in S : y <= p
    BY <1>5, <2>1, GreatestExists
  <2>3. j \in S /\ \A y \in S : y <= j
    BY <2>2
  <2> HIDE DEF j
  <2>4. j \in 1 .. k - 1 /\ \A i \in j + 1 .. k - 1 : i \in 1 .. k - 1 /\ ~(i <= j)
    BY <1>0, <1>3, <2>3
  <2>5. WritesLast(window, SQ, b, k, j)
    BY <1>2, <2>3, <2>4 DEF WritesLast
  <2>6. /\ StoreValueAvail(SQ[window[j].at.sq_index])
        /\ x = SQ[window[j].at.sq_index].value[b - SQ[window[j].at.sq_index].addr]
    BY <1>1, <2>4, <2>5 DEF RightValue
  <2> QED
    BY <1>5, <2>6 DEF HasProgramValue, S, x, j
<1> QED
  BY <1>4, <1>5

(* No load that ran too early goes unseen: once all older addresses are    *)
(* known, a load whose value is not the one of program order is marked, or *)
(* an older instruction is.                                                *)
THEOREM EarlyLoadsAreCaught ==
  Spec => []ViolationsCaught
BY Invariance, ViolationsAreCaught, PTL

(* A load that retires has nothing in front of it but memory.              *)
LEMMA RetiringLoad ==
  ASSUME IInv, Retire, Head(window).kind = "load"
  PROVE  LQ[lq_head].value = Read(mem, LQ[lq_head].addr, LQ[lq_head].size)
<1> DEFINE l == LQ[lq_head]
<1>1. /\ window # <<>> /\ window' = Tail(window) /\ TypeOK
      /\ ~Head(window).exception /\ ~Head(window).load_viol
      /\ l.value_avail
  BY DEF Retire, Complete, IInv
<1>2. Head(window) = window[1] /\ Len(window) \in Nat \ {0} /\ 1 \in 1 .. Len(window)
  <2>1. Head(window) = window[1] /\ Len(window) \in Nat \ {0}
    BY <1>1, WindowShrinks
  <2> QED
    BY <2>1
<1>3. window[1].at.lq_index = lq_head
  BY <1>1, <1>2, LoadRingShrinks
<1>4. LoadRight(window, l, SQ, mem, 1)
  <2>1. ValueAt(window, LQ, SQ, mem, 1)
    BY <1>2 DEF IInv, ValuesRight
  <2>2. HasValue(window, LQ, 1)
    BY <1>1, <1>2, <1>3 DEF HasValue
  <2>3. Unmarked(window, 1)
    <3>1. \A j \in 1 .. 1 : j = 1
      OBVIOUS
    <3> QED
      BY <1>1, <1>2, <3>1 DEF Unmarked, Marked
  <2> QED
    BY <1>3, <2>1, <2>2, <2>3 DEF ValueAt
<1>5. l.size \in Size /\ l.addr \in Addrs(l.size)
  <2>1. LoadEntryOK(l)
    BY <1>1 DEF IInv, TypeOK
  <2> QED
    BY <1>1, <2>1 DEF LoadEntryOK
<1> HIDE DEF l
<1>6. /\ l.size \in {1, 2, 4, 8} /\ l.addr \in Nat
      /\ \A d \in 0 .. l.size - 1 : l.addr + d \in Span(l.addr, l.size)
  BY <1>5, AddrsIs
<1>7. \A d \in 0 .. l.size - 1 : l.value[d] = mem[l.addr + d]
  <2> SUFFICES ASSUME NEW d \in 0 .. l.size - 1 PROVE l.value[d] = mem[l.addr + d]
    OBVIOUS
  <2> DEFINE b == l.addr + d
  <2>1. b \in Span(l.addr, l.size) /\ b - l.addr = d
    BY <1>6
  <2> HIDE DEF b
  <2>2. RightValue(window, SQ, mem, b, 1, l.value[b - l.addr])
    BY <1>4, <2>1 DEF LoadRight
  <2>3. \A j \in 1 .. 1 - 1 : ~Writes(window, SQ, b, 1, j)
    OBVIOUS
  <2>4. l.value[d] = mem[b]
    BY <2>1, <2>2, <2>3 DEF RightValue
  <2> QED
    BY <2>4 DEF b
<1>8. l.value \in [0 .. l.size - 1 -> Val]
  BY <1>4 DEF LoadRight, Values
<1>9. l.value = Read(mem, l.addr, l.size)
  BY <1>7, <1>8 DEF Read
<1> QED
  BY <1>9 DEF l

(* Out-of-order execution is not seen: every load retires with what memory *)
(* holds at that moment, into which all older stores have been written.    *)
THEOREM LoadsRetireInOrder ==
  Spec => LoadsInOrder
<1>1. IInv /\ [Next]_vars => [Retire /\ Head(window).kind = "load"
        => LET l == LQ[lq_head] IN l.value = Read(mem, l.addr, l.size)]_vars
  BY RetiringLoad
<1> QED
  BY <1>1, Invariance, PTL DEF Spec, LoadsInOrder
=============================================================================
