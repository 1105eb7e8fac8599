---------------------------- MODULE RenamerProofs ----------------------------
(***************************************************************************)
(* For every number of registers, checkpoints and active list entries and  *)
(* every bundle width: registers, maps, masks and ready bits are exact,    *)
(* and the renamer implements the in-order renamer.                        *)
(*                                                                         *)
(* First come the instructions in flight as a value: what the properties   *)
(* say of them, as predicates of a window w, of the lists, of the maps and *)
(* of the checkpoints, and lemmas on what becomes of these predicates when *)
(* an instruction enters the window, is resolved, leaves it at its head or *)
(* is cut off its tail. Then they are applied to each action.              *)
(***************************************************************************)
EXTENDS Renamer, SequenceTheorems, Counting

(* Pointers into a circular list: the slots reached from a pointer are     *)
(* different, and moves add up.                                            *)
LEMMA PointerType ==
  ASSUME NEW n \in Nat \ {0}, NEW p \in Pointer(n), NEW k \in 0 .. n
  PROVE  SlotAt(p, k, n) \in 0 .. n - 1 /\ Advance(p, k, n) \in Pointer(n)
<1>1. p.pos \in 0 .. n - 1 /\ p.phase \in BOOLEAN
  BY DEF Pointer
<1>2. SlotAt(p, k, n) \in 0 .. n - 1
  BY <1>1 DEF SlotAt
<1> QED
  BY <1>1, <1>2 DEF Pointer, Advance

(* Different distances below n lead to different slots.                    *)
LEMMA SlotInjective ==
  ASSUME NEW n \in Nat \ {0}, NEW p \in Pointer(n), NEW j \in 0 .. n - 1, NEW k \in 0 .. n - 1,
         SlotAt(p, j, n) = SlotAt(p, k, n)
  PROVE  j = k
BY DEF Pointer, SlotAt

(* Every slot is at some distance below n.                                 *)
LEMMA SlotSurjective ==
  ASSUME NEW n \in Nat \ {0}, NEW p \in Pointer(n), NEW x \in 0 .. n - 1
  PROVE  \E k \in 0 .. n - 1 : SlotAt(p, k, n) = x
<1>1. p.pos \in 0 .. n - 1
  BY DEF Pointer
<1>2. CASE x >= p.pos
  <2>1. x - p.pos \in 0 .. n - 1 /\ SlotAt(p, x - p.pos, n) = x
    BY <1>1, <1>2 DEF SlotAt
  <2> QED
    BY <2>1
<1>3. CASE x < p.pos
  <2>1. x - p.pos + n \in 0 .. n - 1 /\ SlotAt(p, x - p.pos + n, n) = x
    BY <1>1, <1>3 DEF SlotAt
  <2> QED
    BY <2>1
<1> QED
  BY <1>1, <1>2, <1>3

(* Two moves that together go at most once around are one move.            *)
LEMMA AdvanceAdvance ==
  ASSUME NEW n \in Nat \ {0}, NEW p \in Pointer(n), NEW j \in 0 .. n, NEW k \in 0 .. n, j + k <= n
  PROVE  /\ SlotAt(Advance(p, j, n), k, n) = SlotAt(p, j + k, n)
         /\ Advance(Advance(p, j, n), k, n) = Advance(p, j + k, n)
<1>1. p.pos \in 0 .. n - 1 /\ p.phase \in BOOLEAN
  BY DEF Pointer
<1> DEFINE q == Advance(p, j, n)
<1>2. q.pos = SlotAt(p, j, n) /\ q.phase = IF p.pos + j < n THEN p.phase ELSE ~p.phase
  BY DEF Advance
<1>3. SlotAt(q, k, n) = SlotAt(p, j + k, n)
  BY <1>1, <1>2 DEF SlotAt
<1>4. (IF q.pos + k < n THEN q.phase ELSE ~q.phase) = (IF p.pos + (j + k) < n THEN p.phase ELSE ~p.phase)
  <2>1. CASE p.pos + j < n
    BY <2>1, <1>1, <1>2 DEF SlotAt
  <2>2. CASE ~(p.pos + j < n)
    <3>1. q.pos = p.pos + j - n /\ q.pos + k < n /\ ~(p.pos + (j + k) < n)
      BY <2>2, <1>1, <1>2 DEF SlotAt
    <3>2. q.phase = ~p.phase
      BY <2>2, <1>2
    <3> QED
      BY <3>1, <3>2
  <2> QED
    BY <2>1, <2>2
<1> QED
  BY <1>3, <1>4 DEF Advance

(* Distance 0 is the pointer itself.                                       *)
LEMMA AdvanceNone ==
  ASSUME NEW n \in Nat \ {0}, NEW p \in Pointer(n)
  PROVE  Advance(p, 0, n) = p /\ SlotAt(p, 0, n) = p.pos
<1>1. p = [pos |-> p.pos, phase |-> p.phase] /\ p.pos \in 0 .. n - 1
  BY DEF Pointer
<1> QED
  BY <1>1 DEF Advance, SlotAt

-----------------------------------------------------------------------------
(* The head of the free list when d registers behind it are in flight: a   *)
(* full round ahead of the tail, less the registers it still has.          *)
HeadAfter(tail, d) == Advance([tail EXCEPT !.phase = ~@], d, FLSize)

(* The free list has a slot, and its indices are those of a list.          *)
LEMMA Sizes ==
  FLSize \in Nat \ {0} /\ FLIndex = 0 .. FLSize - 1
BY RenamerAssumption DEF FLSize, FLIndex

(* Where that head is, and its phase.                                      *)
LEMMA HeadAfterType ==
  ASSUME NEW tail \in Pointer(FLSize), NEW d \in 0 .. FLSize
  PROVE  /\ HeadAfter(tail, d) \in Pointer(FLSize)
         /\ HeadAfter(tail, d) = [pos |-> SlotAt(tail, d, FLSize),
                                  phase |-> IF tail.pos + d < FLSize THEN ~tail.phase ELSE tail.phase]
<1> DEFINE t == [tail EXCEPT !.phase = ~@]
<1>1. t \in Pointer(FLSize) /\ t.pos = tail.pos /\ t.phase = ~tail.phase
  BY DEF Pointer
<1>2. tail.phase \in BOOLEAN
  BY DEF Pointer
<1> HIDE DEF t
<1>3. Advance(t, d, FLSize) \in Pointer(FLSize)
  BY <1>1, Sizes, PointerType
<1>4. SlotAt(t, d, FLSize) = SlotAt(tail, d, FLSize)
  BY <1>1 DEF SlotAt
<1>5. (IF t.pos + d < FLSize THEN t.phase ELSE ~t.phase) =
      (IF tail.pos + d < FLSize THEN ~tail.phase ELSE tail.phase)
  BY <1>1, <1>2
<1>6. HeadAfter(tail, d) = Advance(t, d, FLSize)
  BY DEF HeadAfter, t
<1> QED
  BY <1>3, <1>4, <1>5, <1>6 DEF Advance

(* Renaming one more destination moves the head by one; a commit moves the *)
(* tail by one and leaves one destination fewer in flight.                 *)
LEMMA HeadAfterStep ==
  ASSUME NEW tail \in Pointer(FLSize), NEW d \in 0 .. FLSize - 1
  PROVE  /\ Advance(HeadAfter(tail, d), 1, FLSize) = HeadAfter(tail, d + 1)
         /\ HeadAfter(Advance(tail, 1, FLSize), d) = HeadAfter(tail, d + 1)
         /\ SlotAt(HeadAfter(tail, d), 0, FLSize) = SlotAt(tail, d, FLSize)
<1> DEFINE t == [tail EXCEPT !.phase = ~@]
           u == Advance(tail, 1, FLSize)
           v == [u EXCEPT !.phase = ~@]
<1>0. FLSize \in Nat \ {0} /\ tail.pos \in 0 .. FLSize - 1 /\ tail.phase \in BOOLEAN
  BY Sizes DEF Pointer
<1>1. t \in Pointer(FLSize) /\ t.pos = tail.pos /\ t.phase = ~tail.phase
  BY DEF Pointer
<1>2. u \in Pointer(FLSize)
  BY <1>0, PointerType
<1>3. v = Advance(t, 1, FLSize)
  <2>1. v = [pos |-> u.pos, phase |-> ~u.phase]
    BY <1>2 DEF Pointer
  <2>2. u.pos = SlotAt(t, 1, FLSize)
    BY <1>1 DEF Advance, SlotAt
  <2>3. (~u.phase) = IF t.pos + 1 < FLSize THEN t.phase ELSE ~t.phase
    <3>1. u.phase = IF tail.pos + 1 < FLSize THEN tail.phase ELSE ~tail.phase
      BY DEF Advance
    <3> QED
      BY <1>0, <1>1, <3>1
  <2> QED
    BY <2>1, <2>2, <2>3 DEF Advance
<1>4. HeadAfter(tail, d) = Advance(t, d, FLSize) /\ HeadAfter(tail, d + 1) = Advance(t, d + 1, FLSize)
      /\ HeadAfter(u, d) = Advance(v, d, FLSize)
  BY DEF HeadAfter
<1> HIDE DEF t, u, v
<1>5. Advance(Advance(t, d, FLSize), 1, FLSize) = Advance(t, d + 1, FLSize)
  BY <1>0, <1>1, AdvanceAdvance
<1>6. Advance(Advance(t, 1, FLSize), d, FLSize) = Advance(t, 1 + d, FLSize)
  BY <1>0, <1>1, AdvanceAdvance
<1>7. SlotAt(Advance(t, d, FLSize), 0, FLSize) = SlotAt(tail, d, FLSize)
  <2>1. SlotAt(Advance(t, d, FLSize), 0, FLSize) = SlotAt(t, d + 0, FLSize)
    BY <1>0, <1>1, AdvanceAdvance
  <2>2. d + 0 = d /\ SlotAt(t, d, FLSize) = SlotAt(tail, d, FLSize)
    BY <1>1 DEF SlotAt
  <2> QED
    BY <2>1, <2>2
<1>8. 1 + d = d + 1
  OBVIOUS
<1>9. HeadAfter(Advance(tail, 1, FLSize), d) = HeadAfter(tail, d + 1)
  <2>1. Advance(tail, 1, FLSize) = u
    BY DEF u
  <2> QED
    BY <2>1, <1>3, <1>4, <1>6, <1>8
<1> QED
  BY <1>4, <1>5, <1>7, <1>9

(* The walk in resolve() finds the free registers a saved head leaves.     *)
LEMMA FL_lengthExact ==
  ASSUME NEW tail \in Pointer(FLSize), NEW d \in 0 .. FLSize
  PROVE  FL_length(HeadAfter(tail, d), tail) = FLSize - d
<1> DEFINE h == HeadAfter(tail, d)
<1>0. FLSize \in Nat \ {0} /\ tail.pos \in 0 .. FLSize - 1 /\ tail.phase \in BOOLEAN
  BY Sizes DEF Pointer
<1>1. h.pos = SlotAt(tail, d, FLSize)
  BY HeadAfterType
<1>2. h.phase = IF tail.pos + d < FLSize THEN ~tail.phase ELSE tail.phase
  BY HeadAfterType
<1> HIDE DEF h
<1>3. FL_length(h, tail) = FLSize - d
  <2>1. CASE tail.pos + d < FLSize
    <3>1. h.pos = tail.pos + d /\ h.phase # tail.phase
      BY <1>0, <1>1, <1>2, <2>1 DEF SlotAt
    <3> QED
      BY <3>1, <1>0, <2>1 DEF FL_length
  <2>2. CASE ~(tail.pos + d < FLSize)
    <3>1. h.pos = tail.pos + d - FLSize /\ h.phase = tail.phase
      BY <1>0, <1>1, <1>2, <2>2 DEF SlotAt
    <3>2. h.pos = tail.pos <=> d = FLSize
      BY <3>1, <1>0
    <3>3. tail.pos >= h.pos /\ tail.pos - h.pos = FLSize - d
      BY <3>1, <1>0, <2>2
    <3> QED
      BY <3>1, <3>2, <3>3, <1>0 DEF FL_length
  <2> QED
    BY <2>1, <2>2
<1> QED
  BY <1>3 DEF h

-----------------------------------------------------------------------------
(* Destinations among the first k instructions of the window w, its live   *)
(* branches, their IDs, and the map after the first k instructions.        *)
Window == Seq(Renamed)

DstSet(w)   == {j \in Nat : w[j].dst # None}
D(w, k)     == Count(DstSet(w), k)
LiveIn(w, k) == w[k].checkpoint /\ ~w[k].completed
IDs(w, k)   == {w[j].branch_ID : j \in {l \in 1 .. k : LiveIn(w, l)}}
Writers(w, k, r) == {j \in 1 .. k : w[j].dst = r}
MapIn(w, amt, k) ==
  [r \in LogReg |->
     IF Writers(w, k, r) = {} THEN amt[r]
     ELSE w[CHOOSE j \in Writers(w, k, r) : \A i \in Writers(w, k, r) : i <= j].phys_reg]

(* Two windows of which the first k instructions have the same registers,  *)
(* and the second window at most the live branches of the first.           *)
Agree(v, w, k) ==
  \A j \in 1 .. k : /\ v[j].dst = w[j].dst /\ v[j].phys_reg = w[j].phys_reg
                    /\ v[j].branch_ID = w[j].branch_ID
                    /\ LiveIn(v, j) => LiveIn(w, j)

(* Counting destinations starts at none and counts at most all.            *)
LEMMA DType ==
  ASSUME NEW w, NEW k \in Nat
  PROVE  D(w, k) \in 0 .. k /\ D(w, 0) = 0
BY CountType DEF D

(* One more instruction counts if it has a destination.                    *)
LEMMA DStep ==
  ASSUME NEW w, NEW k \in Nat
  PROVE  D(w, k + 1) = D(w, k) + (IF w[k + 1].dst # None THEN 1 ELSE 0)
<1>1. k + 1 \in DstSet(w) <=> w[k + 1].dst # None
  BY DEF DstSet
<1> QED
  BY <1>1, CountStep DEF D

(* A destination has its own place in the order.                           *)
LEMMA DPlace ==
  ASSUME NEW w, NEW k \in Nat \ {0}, NEW l \in Nat, k <= l
  PROVE  /\ D(w, k) <= D(w, l)
         /\ w[k].dst # None => D(w, k) >= 1
         /\ w[k].dst # None => \A j \in 0 .. k - 1 : D(w, j) < D(w, k)
<1>1. D(w, k) <= D(w, l)
  BY CountMono DEF D
<1>2. D(w, k - 1) \in Nat /\ D(w, k) \in Nat /\ k - 1 \in Nat /\ (k - 1) + 1 = k
  BY DType
<1>3. w[k].dst # None => D(w, k) = D(w, k - 1) + 1
  BY <1>2, DStep
<1>4. \A j \in 0 .. k - 1 : D(w, j) \in Nat /\ D(w, j) <= D(w, k - 1)
  BY <1>2, CountMono, DType DEF D
<1> QED
  BY <1>1, <1>2, <1>3, <1>4

(* The count depends only on the destinations of the first k.              *)
LEMMA DAgree ==
  ASSUME NEW v, NEW w, NEW k \in Nat, \A j \in 1 .. k : v[j].dst = w[j].dst
  PROVE  D(v, k) = D(w, k)
<1>1. \A j \in 1 .. k : j \in DstSet(v) <=> j \in DstSet(w)
  BY DEF DstSet
<1> QED
  BY <1>1, CountAgree DEF D

(* Without the oldest instruction the count is less by its own.            *)
LEMMA DShift ==
  ASSUME NEW v, NEW w, NEW k \in Nat, \A j \in 1 .. k : v[j].dst = w[j + 1].dst
  PROVE  D(v, k) = D(w, k + 1) - (IF w[1].dst # None THEN 1 ELSE 0)
<1>1. \A j \in 1 .. k : j \in DstSet(v) <=> j + 1 \in DstSet(w)
  BY DEF DstSet
<1>2. 1 \in DstSet(w) <=> w[1].dst # None
  BY DEF DstSet
<1> QED
  BY <1>1, <1>2, CountShift DEF D

-----------------------------------------------------------------------------
(* The map after k instructions is that of the last writer, if any.        *)
LEMMA MapInLast ==
  ASSUME NEW w, NEW amt, NEW k \in Nat, NEW r \in LogReg
  PROVE  /\ Writers(w, k, r) = {} => MapIn(w, amt, k)[r] = amt[r]
         /\ \A j \in Writers(w, k, r) : (\A i \in Writers(w, k, r) : i <= j)
              => MapIn(w, amt, k)[r] = w[j].phys_reg
         /\ Writers(w, k, r) # {} =>
              \E j \in Writers(w, k, r) : \A i \in Writers(w, k, r) : i <= j
<1> DEFINE W == Writers(w, k, r)
           Last(j) == \A i \in W : i <= j
<1>1. W \subseteq 1 .. k /\ W \subseteq Int
  BY DEF Writers
<1>2. IsFiniteSet(W)
  BY <1>1, FS_Interval, FS_Subset
<1>3. W # {} => \E j \in W : Last(j)
  BY <1>1, <1>2, GreatestExists
<1>4. \A j \in W : Last(j) => (CHOOSE i \in W : Last(i)) = j
  <2> SUFFICES ASSUME NEW j \in W, Last(j) PROVE (CHOOSE i \in W : Last(i)) = j
    OBVIOUS
  <2> DEFINE c == CHOOSE i \in W : Last(i)
  <2>1. c \in W /\ Last(c)
    OBVIOUS
  <2>2. c <= j /\ j <= c /\ c \in Int /\ j \in Int
    BY <2>1, <1>1
  <2> QED
    BY <2>2
<1>5. MapIn(w, amt, k)[r] = IF W = {} THEN amt[r] ELSE w[CHOOSE j \in W : Last(j)].phys_reg
  BY DEF MapIn
<1> QED
  BY <1>3, <1>4, <1>5

(* A map over a window is a map; over nothing it is the map below.         *)
LEMMA MapInType ==
  ASSUME NEW w \in Window, NEW amt \in [LogReg -> PhysReg], NEW k \in 0 .. Len(w)
  PROVE  /\ MapIn(w, amt, k) \in [LogReg -> PhysReg]
         /\ MapIn(w, amt, 0) = amt
<1>1. \A r \in LogReg : MapIn(w, amt, k)[r] \in PhysReg
  <2> SUFFICES ASSUME NEW r \in LogReg PROVE MapIn(w, amt, k)[r] \in PhysReg
    OBVIOUS
  <2>0. k \in Nat
    BY DEF Window
  <2>1. CASE Writers(w, k, r) = {}
    BY <2>0, <2>1, MapInLast
  <2>2. CASE Writers(w, k, r) # {}
    <3>1. PICK j \in Writers(w, k, r) : \A i \in Writers(w, k, r) : i <= j
      BY <2>0, <2>2, MapInLast
    <3>2. MapIn(w, amt, k)[r] = w[j].phys_reg
      BY <2>0, <3>1, MapInLast
    <3>3. w[j] \in Renamed
      BY DEF Writers, Window
    <3> QED
      BY <3>2, <3>3 DEF Renamed
  <2> QED
    BY <2>1, <2>2
<1>2. \A r \in LogReg : MapIn(w, amt, 0)[r] = amt[r]
  <2>1. \A r \in LogReg : Writers(w, 0, r) = {}
    BY DEF Writers
  <2> QED
    BY <2>1, MapInLast
<1>3. \A l : MapIn(w, amt, l) = [r \in LogReg |-> MapIn(w, amt, l)[r]]
  BY DEF MapIn
<1> QED
  BY <1>1, <1>2, <1>3

(* The map depends only on destinations and registers of the first k.      *)
LEMMA MapInAgree ==
  ASSUME NEW v, NEW w, NEW amt, NEW k \in Nat,
         \A j \in 1 .. k : v[j].dst = w[j].dst /\ v[j].phys_reg = w[j].phys_reg
  PROVE  MapIn(v, amt, k) = MapIn(w, amt, k)
<1>1. \A r \in LogReg : MapIn(v, amt, k)[r] = MapIn(w, amt, k)[r]
  <2> SUFFICES ASSUME NEW r \in LogReg PROVE MapIn(v, amt, k)[r] = MapIn(w, amt, k)[r]
    OBVIOUS
  <2>1. Writers(v, k, r) = Writers(w, k, r)
    BY DEF Writers
  <2>2. CASE Writers(w, k, r) = {}
    BY <2>1, <2>2, MapInLast
  <2>3. CASE Writers(w, k, r) # {}
    <3>1. PICK j \in Writers(w, k, r) : \A i \in Writers(w, k, r) : i <= j
      BY <2>3, MapInLast
    <3>2. MapIn(w, amt, k)[r] = w[j].phys_reg /\ MapIn(v, amt, k)[r] = v[j].phys_reg
      BY <2>1, <3>1, MapInLast
    <3> QED
      BY <3>2 DEF Writers
  <2> QED
    BY <2>2, <2>3
<1> QED
  BY <1>1 DEF MapIn

(* One more instruction renames its destination.                           *)
LEMMA MapInStep ==
  ASSUME NEW w, NEW amt, NEW k \in Nat
  PROVE  MapIn(w, amt, k + 1) =
           IF w[k + 1].dst # None THEN [MapIn(w, amt, k) EXCEPT ![w[k + 1].dst] = w[k + 1].phys_reg]
                                  ELSE MapIn(w, amt, k)
<1> DEFINE e == w[k + 1]
           rhs == IF e.dst # None THEN [MapIn(w, amt, k) EXCEPT ![e.dst] = e.phys_reg]
                                  ELSE MapIn(w, amt, k)
<1>1. \A r \in LogReg : MapIn(w, amt, k + 1)[r] = IF r = e.dst THEN e.phys_reg ELSE MapIn(w, amt, k)[r]
  <2> SUFFICES ASSUME NEW r \in LogReg
               PROVE MapIn(w, amt, k + 1)[r] = IF r = e.dst THEN e.phys_reg ELSE MapIn(w, amt, k)[r]
    OBVIOUS
  <2>0. k + 1 \in Nat
    OBVIOUS
  <2>1. CASE r = e.dst
    <3>1. k + 1 \in Writers(w, k + 1, r) /\ \A i \in Writers(w, k + 1, r) : i <= k + 1
      BY <2>1 DEF Writers
    <3> QED
      BY <2>0, <2>1, <3>1, MapInLast
  <2>2. CASE r # e.dst
    <3>1. Writers(w, k + 1, r) = Writers(w, k, r)
      BY <2>2 DEF Writers
    <3>2. CASE Writers(w, k, r) = {}
      BY <2>0, <2>2, <3>1, <3>2, MapInLast
    <3>3. CASE Writers(w, k, r) # {}
      <4>1. PICK j \in Writers(w, k, r) : \A i \in Writers(w, k, r) : i <= j
        BY <3>3, MapInLast
      <4> QED
        BY <2>0, <2>2, <3>1, <4>1, MapInLast
    <3> QED
      BY <3>2, <3>3
  <2> QED
    BY <2>1, <2>2
<1>2. None \notin LogReg
  BY RenamerAssumption DEF None, LogReg
<1>3. \A r \in LogReg : MapIn(w, amt, k + 1)[r] = rhs[r]
  BY <1>1, <1>2, ZenonT(30) DEF MapIn
<1>4. MapIn(w, amt, k + 1) = [r \in LogReg |-> MapIn(w, amt, k + 1)[r]]
  BY DEF MapIn
<1>5. rhs = [r \in LogReg |-> rhs[r]]
  <2>1. \A m, a, b : m = [r \in LogReg |-> m[r]] =>
          [m EXCEPT ![a] = b] = [r \in LogReg |-> [m EXCEPT ![a] = b][r]]
    OBVIOUS
  <2>2. MapIn(w, amt, k) = [r \in LogReg |-> MapIn(w, amt, k)[r]]
    BY DEF MapIn
  <2> QED
    BY <2>1, <2>2
<1> HIDE DEF rhs
<1>6. MapIn(w, amt, k + 1) = rhs
  BY <1>3, <1>4, <1>5
<1> QED
  BY <1>6 DEF rhs

(* The architectural map with the oldest instruction committed, under the  *)
(* others, is the map under all of them.                                   *)
Committed(amt, w) == IF w[1].dst # None THEN [amt EXCEPT ![w[1].dst] = w[1].phys_reg] ELSE amt
RegsShifted(v, w, k) ==
  \A j \in 1 .. k : v[j].dst = w[j + 1].dst /\ v[j].phys_reg = w[j + 1].phys_reg

(* A commit moves a writer from the window into the map below it: the map  *)
(* of the whole does not change.                                           *)
LEMMA MapInShift ==
  ASSUME NEW v, NEW w, NEW amt \in [LogReg -> PhysReg], NEW k \in Nat, RegsShifted(v, w, k)
  PROVE  MapIn(v, Committed(amt, w), k) = MapIn(w, amt, k + 1)
<1> DEFINE bmt == Committed(amt, w)
<1>0. \A r \in LogReg : bmt[r] = IF r = w[1].dst THEN w[1].phys_reg ELSE amt[r]
  <2>1. None \notin LogReg
    BY RenamerAssumption DEF None, LogReg
  <2> QED
    BY <2>1 DEF Committed
<1> HIDE DEF bmt
<1>1. \A r \in LogReg : MapIn(v, bmt, k)[r] = MapIn(w, amt, k + 1)[r]
  <2> SUFFICES ASSUME NEW r \in LogReg PROVE MapIn(v, bmt, k)[r] = MapIn(w, amt, k + 1)[r]
    OBVIOUS
  <2> DEFINE V == Writers(v, k, r)
             W == Writers(w, k + 1, r)
  <2>0. k + 1 \in Nat
    OBVIOUS
  <2>1. \A j \in V : j \in 1 .. k /\ j + 1 \in W
    BY DEF Writers, RegsShifted
  <2>2. \A i \in W : i \in 1 .. k + 1 /\ (i # 1 => i - 1 \in V)
    BY DEF Writers, RegsShifted
  <2>3. CASE V = {}
    <3>1. MapIn(v, bmt, k)[r] = bmt[r]
      BY <2>3, MapInLast
    <3>2. CASE r = w[1].dst
      <4>1. 1 \in W /\ \A i \in W : i <= 1
        BY <2>2, <2>3, <3>2 DEF Writers
      <4>2. MapIn(w, amt, k + 1)[r] = w[1].phys_reg
        BY <2>0, <4>1, MapInLast
      <4> QED
        BY <1>0, <3>1, <3>2, <4>2
    <3>3. CASE r # w[1].dst
      <4>1. W = {}
        BY <2>2, <2>3, <3>3 DEF Writers
      <4>2. MapIn(w, amt, k + 1)[r] = amt[r]
        BY <2>0, <4>1, MapInLast
      <4> QED
        BY <1>0, <3>1, <3>3, <4>2
    <3> QED
      BY <3>2, <3>3
  <2>4. CASE V # {}
    <3>1. PICK j \in V : \A i \in V : i <= j
      BY <2>4, MapInLast
    <3>2. MapIn(v, bmt, k)[r] = v[j].phys_reg
      BY <3>1, MapInLast
    <3>3. j + 1 \in W /\ \A i \in W : i <= j + 1
      BY <2>1, <2>2, <3>1
    <3>4. MapIn(w, amt, k + 1)[r] = w[j + 1].phys_reg
      BY <2>0, <3>3, MapInLast
    <3> QED
      BY <2>1, <3>2, <3>4 DEF RegsShifted
  <2> QED
    BY <2>3, <2>4
<1>2. MapIn(v, bmt, k) = MapIn(w, amt, k + 1)
  BY <1>1 DEF MapIn
<1> QED
  BY <1>2 DEF bmt

-----------------------------------------------------------------------------
(* RegistersConserved and FreeListInOrder of a window.                     *)
Conserved(amt, fl) ==
  /\ \A r, s \in LogReg : amt[r] = amt[s] => r = s
  /\ \A k, l \in FLIndex : fl[k] = fl[l] => k = l
  /\ \A r \in LogReg, k \in FLIndex : amt[r] # fl[k]

Taken(w, fl, tail) ==
  \A k \in 1 .. Len(w) :
    w[k].dst # None => w[k].phys_reg = fl[SlotAt(tail, D(w, k) - 1, FLSize)]

HeadsSaved(w, tail, cp) ==
  \A k \in 1 .. Len(w) :
    LiveIn(w, k) => cp[w[k].branch_ID].FL_head = HeadAfter(tail, D(w, k))

Order(w, fl, head, tail, count, cp) ==
  /\ head = HeadAfter(tail, D(w, Len(w)))
  /\ count = FLSize - D(w, Len(w))
  /\ count \in 0 .. FLSize
  /\ Taken(w, fl, tail)
  /\ HeadsSaved(w, tail, cp)

(* The checkpoints cp and cq have the same field for the live branches.    *)
SavedAlike(w, cp, cq) ==
  \A k \in 1 .. Len(w) : LiveIn(w, k) =>
    /\ cp[w[k].branch_ID].FL_head = cq[w[k].branch_ID].FL_head
    /\ cp[w[k].branch_ID].shadow_RMT = cq[w[k].branch_ID].shadow_RMT

(* v is w with one more instruction, v is w without its oldest.            *)
Grown(v, w)  == Len(v) = Len(w) + 1 /\ \A k \in 1 .. Len(w) : v[k] = w[k]
Shifted(v, w) == Len(w) = Len(v) + 1 /\ \A k \in 1 .. Len(v) : v[k] = w[k + 1]

(* What a window is made of.                                               *)
LEMMA WindowType ==
  ASSUME NEW w \in Window
  PROVE  Len(w) \in Nat /\ DOMAIN w = 1 .. Len(w) /\ \A k \in 1 .. Len(w) : w[k] \in Renamed
BY DEF Window

(* No more destinations are in flight than the free list has slots.        *)
LEMMA OrderFits ==
  ASSUME NEW w \in Window, NEW fl, NEW head, NEW tail, NEW count, NEW cp,
         Order(w, fl, head, tail, count, cp)
  PROVE  D(w, Len(w)) \in 0 .. FLSize
BY WindowType, DType, Sizes DEF Order

(* The slots of the destinations in flight.                                *)
LEMMA DstSlot ==
  ASSUME NEW w \in Window, NEW tail \in Pointer(FLSize), D(w, Len(w)) <= FLSize,
         NEW k \in 1 .. Len(w)
  PROVE  /\ D(w, k) \in 0 .. FLSize
         /\ w[k].dst # None => /\ D(w, k) - 1 \in 0 .. FLSize - 1
                               /\ SlotAt(tail, D(w, k) - 1, FLSize) \in FLIndex
<1>1. Len(w) \in Nat /\ k \in Nat \ {0} /\ k <= Len(w)
  BY WindowType
<1>2. D(w, k) \in Nat /\ D(w, k) <= D(w, Len(w)) /\ (w[k].dst # None => D(w, k) >= 1) /\ D(w, Len(w)) \in Nat
  BY <1>1, DPlace, DType
<1>3. D(w, k) \in 0 .. FLSize /\ (w[k].dst # None => D(w, k) - 1 \in 0 .. FLSize - 1)
  BY <1>2, Sizes
<1> QED
  BY <1>3, Sizes, PointerType

(* Two instructions in flight never share a register, nor does one have a  *)
(* committed or a free register.                                           *)
LEMMA TakenDistinct ==
  ASSUME NEW w \in Window, NEW amt, NEW fl, NEW tail \in Pointer(FLSize),
         D(w, Len(w)) <= FLSize, Conserved(amt, fl), Taken(w, fl, tail),
         NEW k \in 1 .. Len(w), w[k].dst # None
  PROVE  /\ \A j \in 1 .. Len(w) : w[j].dst # None /\ w[j].phys_reg = w[k].phys_reg => j = k
         /\ \A r \in LogReg : amt[r] # w[k].phys_reg
         /\ D(w, Len(w)) < FLSize => w[k].phys_reg # fl[SlotAt(tail, D(w, Len(w)), FLSize)]
<1>0. Len(w) \in Nat
  BY WindowType
<1>1. \A j \in 1 .. Len(w) : w[j].dst # None =>
         /\ D(w, j) - 1 \in 0 .. FLSize - 1 /\ SlotAt(tail, D(w, j) - 1, FLSize) \in FLIndex
         /\ w[j].phys_reg = fl[SlotAt(tail, D(w, j) - 1, FLSize)]
  BY DstSlot DEF Taken
<1>2. ASSUME NEW j \in 1 .. Len(w), w[j].dst # None, w[j].phys_reg = w[k].phys_reg
      PROVE  j = k
  <2>1. SlotAt(tail, D(w, j) - 1, FLSize) = SlotAt(tail, D(w, k) - 1, FLSize)
    BY <1>1, <1>2 DEF Conserved
  <2>2. D(w, j) - 1 = D(w, k) - 1
    BY <1>1, <1>2, <2>1, Sizes, SlotInjective
  <2>3. D(w, j) \in Nat /\ D(w, k) \in Nat
    BY <1>0, DType
  <2>4. j < k => D(w, j) < D(w, k)
    <3>1. k \in Nat \ {0} /\ k <= k
      BY <1>0
    <3>2. \A i \in 0 .. k - 1 : D(w, i) < D(w, k)
      BY <3>1, DPlace
    <3> QED
      BY <3>2
  <2>5. k < j => D(w, k) < D(w, j)
    <3>1. j \in Nat \ {0} /\ j <= j
      BY <1>0
    <3>2. \A i \in 0 .. j - 1 : D(w, i) < D(w, j)
      BY <1>2, <3>1, DPlace
    <3> QED
      BY <3>2
  <2> QED
    BY <2>2, <2>3, <2>4, <2>5, <1>0
<1>3. \A r \in LogReg : amt[r] # w[k].phys_reg
  BY <1>1 DEF Conserved
<1>4. ASSUME D(w, Len(w)) < FLSize PROVE w[k].phys_reg # fl[SlotAt(tail, D(w, Len(w)), FLSize)]
  <2>1. D(w, Len(w)) \in 0 .. FLSize - 1
    BY <1>0, <1>4, DType, Sizes
  <2>2. SlotAt(tail, D(w, Len(w)), FLSize) \in FLIndex
    BY <2>1, Sizes, PointerType
  <2>3. k \in Nat \ {0} /\ k <= Len(w)
    BY <1>0
  <2>4. D(w, k) <= D(w, Len(w)) /\ D(w, k) \in Nat
    BY <1>0, <2>3, DPlace, DType
  <2>5. D(w, k) - 1 # D(w, Len(w))
    BY <2>1, <2>4
  <2>6. SlotAt(tail, D(w, k) - 1, FLSize) # SlotAt(tail, D(w, Len(w)), FLSize)
    BY <1>1, <2>1, <2>5, Sizes, SlotInjective
  <2> QED
    BY <1>1, <2>2, <2>6 DEF Conserved
<1> QED
  BY <1>2, <1>3, <1>4

(* Renaming takes the register at the head of the free list.               *)
LEMMA OrderAppend ==
  ASSUME NEW w \in Window, NEW v \in Window, Grown(v, w),
         NEW fl, NEW head, NEW tail \in Pointer(FLSize), NEW count, NEW cp, NEW cq,
         Order(w, fl, head, tail, count, cp), SavedAlike(w, cp, cq),
         NEW e, e = v[Len(v)],
         e.dst # None => count > 0 /\ e.phys_reg = fl[SlotAt(head, 0, FLSize)],
         NEW head2, head2 = IF e.dst # None THEN Advance(head, 1, FLSize) ELSE head,
         LiveIn(v, Len(v)) => cq[e.branch_ID].FL_head = head2,
         NEW count2, count2 = IF e.dst # None THEN count - 1 ELSE count
  PROVE  Order(v, fl, head2, tail, count2, cq)
<1> DEFINE n == Len(w)
           d == D(w, n)
<1>1. n \in Nat /\ Len(v) = n + 1 /\ (\A k \in 1 .. n : v[k] = w[k]) /\ e = v[n + 1]
  BY WindowType DEF Grown
<1>2. \A k \in 1 .. n : D(v, k) = D(w, k)
  BY <1>1, DAgree
<1>3. D(v, n) = d
  BY <1>1, DAgree
<1>4. D(v, n + 1) = d + (IF e.dst # None THEN 1 ELSE 0)
  BY <1>1, <1>3, DStep
<1>5. head = HeadAfter(tail, d) /\ count = FLSize - d /\ count \in 0 .. FLSize /\ d \in Nat
  BY <1>1, DType DEF Order
<1>6. e.dst # None => /\ d \in 0 .. FLSize - 1 /\ head2 = HeadAfter(tail, d + 1)
                      /\ SlotAt(head, 0, FLSize) = SlotAt(tail, d, FLSize)
  <2> SUFFICES ASSUME e.dst # None
               PROVE  /\ d \in 0 .. FLSize - 1 /\ head2 = HeadAfter(tail, d + 1)
                      /\ SlotAt(head, 0, FLSize) = SlotAt(tail, d, FLSize)
    OBVIOUS
  <2>1. d \in 0 .. FLSize - 1
    BY <1>5, Sizes
  <2> QED
    BY <2>1, <1>5, HeadAfterStep
<1>7. head2 = HeadAfter(tail, D(v, n + 1))
  BY <1>4, <1>5, <1>6
<1>8. Taken(v, fl, tail)
  <2>1. ASSUME NEW k \in 1 .. n, v[k].dst # None
        PROVE  v[k].phys_reg = fl[SlotAt(tail, D(v, k) - 1, FLSize)]
    BY <2>1, <1>1, <1>2 DEF Order, Taken
  <2>2. e.dst # None => e.phys_reg = fl[SlotAt(tail, D(v, n + 1) - 1, FLSize)]
    BY <1>4, <1>5, <1>6
  <2>3. \A k \in 1 .. n + 1 : k \in 1 .. n \/ k = n + 1
    BY <1>1
  <2> QED
    BY <2>1, <2>2, <2>3, <1>1 DEF Taken
<1>9. HeadsSaved(v, tail, cq)
  <2>1. ASSUME NEW k \in 1 .. n, LiveIn(v, k)
        PROVE  cq[v[k].branch_ID].FL_head = HeadAfter(tail, D(v, k))
    BY <2>1, <1>1, <1>2, SMTT(30) DEF Order, HeadsSaved, SavedAlike, LiveIn
  <2>2. LiveIn(v, n + 1) => cq[v[n + 1].branch_ID].FL_head = HeadAfter(tail, D(v, n + 1))
    BY <1>1, <1>7
  <2>3. \A k \in 1 .. n + 1 : k \in 1 .. n \/ k = n + 1
    BY <1>1
  <2> QED
    BY <2>1, <2>2, <2>3, <1>1 DEF HeadsSaved
<1>10. count2 = FLSize - D(v, n + 1) /\ count2 \in 0 .. FLSize
  BY <1>4, <1>5, <1>6, Sizes
<1> QED
  BY <1>1, <1>7, <1>8, <1>9, <1>10 DEF Order

(* The first instructions of a window keep their places, whether the       *)
(* others stay or go.                                                      *)
LEMMA OrderKeep ==
  ASSUME NEW w \in Window, NEW v \in Window, Len(v) <= Len(w), Agree(v, w, Len(v)),
         NEW fl, NEW head, NEW tail \in Pointer(FLSize), NEW count, NEW cp, NEW cq,
         Order(w, fl, head, tail, count, cp), SavedAlike(w, cp, cq)
  PROVE  /\ D(v, Len(v)) = D(w, Len(v))
         /\ D(w, Len(v)) \in 0 .. FLSize
         /\ Order(v, fl, HeadAfter(tail, D(w, Len(v))), tail, FLSize - D(w, Len(v)), cq)
<1>1. Len(v) \in Nat /\ Len(w) \in Nat
  BY WindowType
<1>2. \A k \in 0 .. Len(v) : D(v, k) = D(w, k)
  BY <1>1, DAgree DEF Agree
<1>3. Taken(v, fl, tail) /\ HeadsSaved(v, tail, cq)
  BY <1>1, <1>2, SMTT(30) DEF Order, Taken, HeadsSaved, SavedAlike, Agree
<1>4. D(w, Len(v)) \in 0 .. FLSize
  <2>1. D(w, Len(w)) <= FLSize /\ D(w, Len(w)) \in Nat
    BY <1>1, DType, Sizes DEF Order
  <2>2. D(w, Len(v)) \in Nat /\ D(w, Len(v)) <= D(w, Len(w))
    BY <1>1, DType, CountMono DEF D
  <2> QED
    BY <2>1, <2>2, Sizes
<1>5. D(v, Len(v)) = D(w, Len(v))
  BY <1>1, <1>2
<1>6. FLSize - D(w, Len(v)) \in 0 .. FLSize
  BY <1>4, Sizes
<1> QED
  BY <1>3, <1>4, <1>5, <1>6 DEF Order

(* Committing the oldest instruction moves the tail over the register it   *)
(* took, whatever is put there.                                            *)
LEMMA OrderShift ==
  ASSUME NEW w \in Window, NEW v \in Window, Shifted(v, w),
         NEW fl \in [FLIndex -> PhysReg], NEW head, NEW tail \in Pointer(FLSize), NEW count, NEW cp,
         Order(w, fl, head, tail, count, cp), NEW p
  PROVE  IF w[1].dst # None
           THEN Order(v, [fl EXCEPT ![tail.pos] = p], head, Advance(tail, 1, FLSize), count + 1, cp)
           ELSE Order(v, fl, head, tail, count, cp)
<1> DEFINE n == Len(v)
           one == IF w[1].dst # None THEN 1 ELSE 0
           fl2 == IF w[1].dst # None THEN [fl EXCEPT ![tail.pos] = p] ELSE fl
           tail2 == IF w[1].dst # None THEN Advance(tail, 1, FLSize) ELSE tail
<1>1. n \in Nat /\ Len(w) = n + 1 /\ \A k \in 1 .. n : v[k] = w[k + 1]
  BY WindowType DEF Shifted
<1>2. \A k \in 0 .. n : D(v, k) = D(w, k + 1) - one /\ D(v, k) \in Nat
  BY <1>1, DShift, DType, SMTT(30)
<1>3. D(w, n + 1) \in 0 .. FLSize /\ count = FLSize - D(w, n + 1)
  <2>1. D(w, n + 1) \in Nat /\ D(w, n + 1) <= FLSize
    BY <1>1, DType, Sizes DEF Order
  <2> QED
    BY <2>1, <1>1, Sizes DEF Order
<1>4. \A k \in 0 .. n : D(w, k + 1) \in 0 .. FLSize
  <2>1. \A k \in 0 .. n : k + 1 \in Nat /\ D(w, k + 1) \in Nat /\ D(w, k + 1) <= D(w, n + 1)
    BY <1>1, DType, CountMono DEF D
  <2> QED
    BY <2>1, <1>3, Sizes
<1>5. \A k \in 0 .. n : HeadAfter(tail2, D(v, k)) = HeadAfter(tail, D(w, k + 1))
  <2> SUFFICES ASSUME NEW k \in 0 .. n
               PROVE  HeadAfter(tail2, D(v, k)) = HeadAfter(tail, D(w, k + 1))
    OBVIOUS
  <2>1. CASE one = 1
    <3>1. D(v, k) \in 0 .. FLSize - 1 /\ D(w, k + 1) = D(v, k) + 1
      BY <1>2, <1>4, <2>1, Sizes
    <3>2. tail2 = Advance(tail, 1, FLSize)
      BY <2>1
    <3> QED
      BY <3>1, <3>2, HeadAfterStep
  <2>2. CASE one = 0
    <3>1. D(v, k) = D(w, k + 1) /\ tail2 = tail
      BY <1>2, <1>4, <2>2
    <3> QED
      BY <3>1
  <2> QED
    BY <2>1, <2>2
<1>6. Taken(v, fl2, tail2)
  <2> SUFFICES ASSUME NEW k \in 1 .. n, v[k].dst # None
               PROVE  v[k].phys_reg = fl2[SlotAt(tail2, D(v, k) - 1, FLSize)]
    BY <1>1 DEF Taken
  <2>1. w[k + 1].phys_reg = fl[SlotAt(tail, D(w, k + 1) - 1, FLSize)] /\ v[k] = w[k + 1]
    BY <1>1 DEF Order, Taken
  <2>2. CASE one = 0
    <3>1. D(v, k) = D(w, k + 1) /\ fl2 = fl /\ tail2 = tail
      BY <1>1, <1>2, <1>4, <2>2
    <3> QED
      BY <2>1, <3>1
  <2>3. CASE one = 1
    <3>1. D(v, k) >= 1 /\ D(v, k) - 1 \in 0 .. FLSize - 1 /\ D(w, k + 1) - 1 = D(v, k) /\ D(v, k) \in 0 .. FLSize - 1
      <4>1. D(v, k) >= 1
        BY <1>1, DPlace
      <4> QED
        BY <4>1, <1>1, <1>2, <1>4, <2>3, Sizes, SMTT(30)
    <3>2. SlotAt(tail2, D(v, k) - 1, FLSize) = SlotAt(tail, D(v, k), FLSize)
      <4>1. SlotAt(Advance(tail, 1, FLSize), D(v, k) - 1, FLSize) = SlotAt(tail, 1 + (D(v, k) - 1), FLSize)
        <5>1. 1 \in 0 .. FLSize /\ D(v, k) - 1 \in 0 .. FLSize /\ 1 + (D(v, k) - 1) <= FLSize
          BY <3>1, Sizes
        <5> QED
          BY <5>1, Sizes, AdvanceAdvance
      <4>2. 1 + (D(v, k) - 1) = D(v, k)
        BY <3>1
      <4>3. tail2 = Advance(tail, 1, FLSize)
        BY <2>3
      <4> QED
        BY <4>1, <4>2, <4>3
    <3>3. SlotAt(tail, D(v, k), FLSize) \in FLIndex /\ SlotAt(tail, D(v, k), FLSize) # tail.pos
      <4>1. SlotAt(tail, D(v, k), FLSize) # SlotAt(tail, 0, FLSize)
        BY <3>1, Sizes, SlotInjective
      <4>2. SlotAt(tail, 0, FLSize) = tail.pos
        BY Sizes, AdvanceNone
      <4>3. D(v, k) \in 0 .. FLSize
        BY <3>1, Sizes
      <4> QED
        BY <4>1, <4>2, <4>3, Sizes, PointerType
    <3>4. fl2[SlotAt(tail, D(v, k), FLSize)] = fl[SlotAt(tail, D(v, k), FLSize)]
      BY <3>3
    <3> QED
      BY <2>1, <3>1, <3>2, <3>4
  <2> QED
    BY <2>2, <2>3
<1>7. HeadsSaved(v, tail2, cp)
  <2> SUFFICES ASSUME NEW k \in 1 .. n, LiveIn(v, k)
               PROVE  cp[v[k].branch_ID].FL_head = HeadAfter(tail2, D(v, k))
    BY <1>1 DEF HeadsSaved
  <2>1. v[k] = w[k + 1] /\ LiveIn(w, k + 1) /\ k + 1 \in 1 .. Len(w)
    BY <1>1 DEF LiveIn
  <2>2. cp[w[k + 1].branch_ID].FL_head = HeadAfter(tail, D(w, k + 1))
    BY <2>1 DEF Order, HeadsSaved
  <2> QED
    BY <2>1, <2>2, <1>5
<1>8. head = HeadAfter(tail2, D(v, n))
  <2>1. head = HeadAfter(tail, D(w, n + 1))
    BY <1>1 DEF Order
  <2> QED
    BY <2>1, <1>1, <1>5
<1>9. count + one = FLSize - D(v, n) /\ count + one \in 0 .. FLSize
  BY <1>1, <1>2, <1>3, Sizes
<1>10. Order(v, fl2, head, tail2, count + one, cp)
  BY <1>6, <1>7, <1>8, <1>9 DEF Order
<1>11. CASE w[1].dst # None
  <2>1. fl2 = [fl EXCEPT ![tail.pos] = p] /\ tail2 = Advance(tail, 1, FLSize) /\ one = 1
    BY <1>11
  <2> QED
    BY <2>1, <1>10, <1>11
<1>12. CASE ~(w[1].dst # None)
  <2>1. fl2 = fl /\ tail2 = tail /\ count + one = count
    BY <1>12, <1>3, Sizes
  <2> QED
    BY <2>1, <1>10, <1>12
<1> QED
  BY <1>11, <1>12

(* An empty window and a full free list.                                   *)
LEMMA OrderEmpty ==
  ASSUME NEW fl, NEW cp
  PROVE  Order(<< >>, fl, Start, [pos |-> 0, phase |-> TRUE], FLSize, cp)
<1> DEFINE t == [pos |-> 0, phase |-> TRUE]
<1>1. t \in Pointer(FLSize) /\ [t EXCEPT !.phase = ~@] = Start /\ Start \in Pointer(FLSize)
  <2>1. 0 \in 0 .. FLSize - 1
    BY Sizes
  <2>2. t \in Pointer(FLSize) /\ Start \in Pointer(FLSize)
    BY <2>1 DEF Pointer, Start
  <2>3. [t EXCEPT !.phase = ~@] = [pos |-> 0, phase |-> ~TRUE]
    OBVIOUS
  <2>4. (~TRUE) = FALSE
    OBVIOUS
  <2> QED
    BY <2>2, <2>3, <2>4 DEF Start
<1>2. D(<< >>, 0) = 0 /\ Len(<< >>) = 0
  BY DType
<1>3. HeadAfter(t, 0) = Start
  BY <1>1, Sizes, AdvanceNone DEF HeadAfter
<1>4. FLSize - 0 = FLSize /\ FLSize \in 0 .. FLSize
  BY Sizes
<1> HIDE DEF t
<1>5. Taken(<< >>, fl, t) /\ HeadsSaved(<< >>, t, cp)
  BY <1>2 DEF Taken, HeadsSaved
<1>6. Order(<< >>, fl, Start, t, FLSize, cp)
  BY <1>2, <1>3, <1>4, <1>5 DEF Order
<1> QED
  BY <1>6 DEF t

(* The register that the oldest destination took is at the tail; a commit  *)
(* exchanges it with the register it replaces.                             *)
LEMMA OldestTaken ==
  ASSUME NEW w \in Window, Len(w) > 0, w[1].dst # None,
         NEW fl, NEW tail \in Pointer(FLSize), Taken(w, fl, tail)
  PROVE  w[1].phys_reg = fl[tail.pos]
<1>1. 1 \in 1 .. Len(w)
  BY WindowType
<1>2. D(w, 0) = 0 /\ D(w, 0 + 1) = D(w, 0) + 1
  BY DType, DStep
<1>3. D(w, 1) - 1 = 0
  BY <1>2
<1> QED
  BY <1>1, <1>3, Sizes, AdvanceNone DEF Taken

(* Exchanging a mapped register with a listed one conserves both.          *)
LEMMA ConservedSwap ==
  ASSUME NEW amt \in [LogReg -> PhysReg], NEW fl \in [FLIndex -> PhysReg], Conserved(amt, fl),
         NEW r \in LogReg, NEW k \in FLIndex
  PROVE  Conserved([amt EXCEPT ![r] = fl[k]], [fl EXCEPT ![k] = amt[r]])
BY DEF Conserved

(* What the squash puts on the free list: each register that is not        *)
(* committed, once.                                                        *)
Refill(amt, fl) ==
  LET free == PhysReg \ {amt[r] : r \in LogReg}
  IN  [k \in FLIndex |->
         IF k < Cardinality(free)
           THEN CHOOSE p \in free : Cardinality({q \in free : q < p}) = k
           ELSE fl[k]]

(* The refilled list conserves the registers: there are exactly as many    *)
(* unmapped registers as the list has slots, and the k-th smallest of them *)
(* goes to slot k.                                                         *)
LEMMA ConservedRefill ==
  ASSUME NEW amt \in [LogReg -> PhysReg], NEW fl,
         \A r, s \in LogReg : amt[r] = amt[s] => r = s
  PROVE  /\ Cardinality(PhysReg \ {amt[r] : r \in LogReg}) = FLSize
         /\ Refill(amt, fl) \in [FLIndex -> PhysReg]
         /\ Conserved(amt, Refill(amt, fl))
<1> DEFINE used == {amt[r] : r \in LogReg}
           free == PhysReg \ used
           fl2  == Refill(amt, fl)
<1>1. IsFiniteSet(LogReg) /\ Cardinality(LogReg) = NumLogRegs
  BY RenamerAssumption, FS_Interval DEF LogReg
<1>2. IsFiniteSet(PhysReg) /\ Cardinality(PhysReg) = NumPhysRegs
  BY RenamerAssumption, FS_Interval DEF PhysReg
<1>3. Cardinality(used) = NumLogRegs
  <2>1. amt \in Bijection(LogReg, used)
    BY DEF Bijection, Injection, Surjection, IsInjective
  <2> QED
    BY <1>1, <2>1, FS_Bijection DEF ExistsBijection
<1>4. PhysReg \cap used = used
  OBVIOUS
<1>5. Cardinality(free) = FLSize /\ IsFiniteSet(free)
  BY <1>2, <1>3, <1>4, FS_Difference, ZenonT(30) DEF FLSize
<1>6. free \in SUBSET Int
  BY DEF PhysReg
<1> HIDE DEF free, used
<1>7. \A k \in FLIndex : \E p \in free : Rank(free, p) = k
  BY <1>5, <1>6, RankExists, Sizes
<1>8. \A k \in FLIndex : fl2[k] = CHOOSE p \in free : Rank(free, p) = k
  <2>1. \A k \in FLIndex : k < FLSize
    BY Sizes
  <2> QED
    BY <2>1, <1>5 DEF Refill, Rank, free, used
<1>9. \A k \in FLIndex : fl2[k] \in free /\ Rank(free, fl2[k]) = k
  <2> SUFFICES ASSUME NEW k \in FLIndex PROVE fl2[k] \in free /\ Rank(free, fl2[k]) = k
    OBVIOUS
  <2>1. fl2[k] = CHOOSE p \in free : Rank(free, p) = k
    BY <1>8
  <2>2. \E p \in free : Rank(free, p) = k
    BY <1>7
  <2> HIDE DEF fl2
  <2> QED
    BY <2>1, <2>2
<1>10. fl2 = [k \in FLIndex |-> fl2[k]]
  BY DEF Refill
<1> HIDE DEF fl2
<1>11. fl2 \in [FLIndex -> PhysReg]
  BY <1>9, <1>10 DEF free
<1>12. Conserved(amt, fl2)
  <2>1. \A k, l \in FLIndex : fl2[k] = fl2[l] => k = l
    BY <1>9
  <2>2. \A r \in LogReg, k \in FLIndex : amt[r] # fl2[k]
    BY <1>9 DEF free, used
  <2> QED
    BY <2>1, <2>2 DEF Conserved
<1> QED
  BY <1>5, <1>11, <1>12 DEF fl2, free, used

-----------------------------------------------------------------------------
(* MapsExact of a window, and what becomes of it.                          *)
MapsSaved(w, amt, cp) ==
  \A k \in 1 .. Len(w) :
    LiveIn(w, k) => cp[w[k].branch_ID].shadow_RMT = MapIn(w, amt, k)

Maps(w, amt, rmt, cp) == rmt = MapIn(w, amt, Len(w)) /\ MapsSaved(w, amt, cp)

(* One more instruction renames its destination, a branch saves the map.   *)
LEMMA MapsAppend ==
  ASSUME NEW w \in Window, NEW v \in Window, Grown(v, w),
         NEW amt, NEW rmt, NEW cp, NEW cq, Maps(w, amt, rmt, cp), SavedAlike(w, cp, cq),
         NEW e, e = v[Len(v)],
         NEW rmt2, rmt2 = IF e.dst # None THEN [rmt EXCEPT ![e.dst] = e.phys_reg] ELSE rmt,
         LiveIn(v, Len(v)) => cq[e.branch_ID].shadow_RMT = rmt2
  PROVE  Maps(v, amt, rmt2, cq)
<1> DEFINE n == Len(w)
<1>1. n \in Nat /\ Len(v) = n + 1 /\ (\A k \in 1 .. n : v[k] = w[k]) /\ e = v[n + 1]
  BY WindowType DEF Grown
<1>2. \A k \in 0 .. n : MapIn(v, amt, k) = MapIn(w, amt, k)
  BY <1>1, MapInAgree
<1>3. rmt2 = MapIn(v, amt, n + 1)
  <2>1. MapIn(v, amt, n) = rmt
    BY <1>1, <1>2 DEF Maps
  <2> QED
    BY <1>1, <2>1, MapInStep
<1>4. ASSUME NEW k \in 1 .. n, LiveIn(v, k)
      PROVE  cq[v[k].branch_ID].shadow_RMT = MapIn(v, amt, k)
  BY <1>1, <1>2, <1>4 DEF Maps, MapsSaved, SavedAlike, LiveIn
<1>5. LiveIn(v, n + 1) => cq[v[n + 1].branch_ID].shadow_RMT = MapIn(v, amt, n + 1)
  BY <1>1, <1>3
<1>6. \A k \in 1 .. n + 1 : k \in 1 .. n \/ k = n + 1
  BY <1>1
<1> QED
  BY <1>1, <1>3, <1>4, <1>5, <1>6 DEF Maps, MapsSaved

(* The first instructions of a window have the map saved at the last of    *)
(* them.                                                                   *)
LEMMA MapsKeep ==
  ASSUME NEW w \in Window, NEW v \in Window, Len(v) <= Len(w), Agree(v, w, Len(v)),
         NEW amt, NEW rmt, NEW cp, NEW cq, Maps(w, amt, rmt, cp), SavedAlike(w, cp, cq)
  PROVE  /\ MapIn(v, amt, Len(v)) = MapIn(w, amt, Len(v))
         /\ Maps(v, amt, MapIn(w, amt, Len(v)), cq)
<1>1. Len(v) \in Nat /\ Len(w) \in Nat
  BY WindowType
<1>2. \A k \in 0 .. Len(v) : MapIn(v, amt, k) = MapIn(w, amt, k)
  BY <1>1, MapInAgree DEF Agree
<1>3. MapIn(v, amt, Len(v)) = MapIn(w, amt, Len(v))
  BY <1>1, <1>2
<1>4. MapsSaved(v, amt, cq)
  BY <1>1, <1>2 DEF Maps, MapsSaved, SavedAlike, Agree
<1> QED
  BY <1>3, <1>4 DEF Maps

(* The oldest instruction commits: the saved maps do not change.           *)
LEMMA MapsShift ==
  ASSUME NEW w \in Window, NEW v \in Window, Shifted(v, w),
         NEW amt \in [LogReg -> PhysReg], NEW rmt, NEW cp, Maps(w, amt, rmt, cp)
  PROVE  Maps(v, Committed(amt, w), rmt, cp)
<1> DEFINE n == Len(v)
           bmt == Committed(amt, w)
<1>1. n \in Nat /\ Len(w) = n + 1 /\ \A k \in 1 .. n : v[k] = w[k + 1]
  BY WindowType DEF Shifted
<1>3. \A k \in 0 .. n : MapIn(v, bmt, k) = MapIn(w, amt, k + 1)
  <2> SUFFICES ASSUME NEW k \in 0 .. n PROVE MapIn(v, bmt, k) = MapIn(w, amt, k + 1)
    OBVIOUS
  <2>1. k \in Nat /\ RegsShifted(v, w, k)
    BY <1>1 DEF RegsShifted
  <2> QED
    BY <2>1, MapInShift
<1>4. rmt = MapIn(v, bmt, n)
  BY <1>1, <1>3 DEF Maps
<1>5. MapsSaved(v, bmt, cp)
  <2> SUFFICES ASSUME NEW k \in 1 .. n, LiveIn(v, k)
               PROVE  cp[v[k].branch_ID].shadow_RMT = MapIn(v, bmt, k)
    BY <1>1 DEF MapsSaved
  <2>1. v[k] = w[k + 1] /\ LiveIn(w, k + 1) /\ k + 1 \in 1 .. Len(w)
    BY <1>1 DEF LiveIn
  <2> QED
    BY <2>1, <1>3 DEF Maps, MapsSaved
<1> QED
  BY <1>4, <1>5 DEF Maps

(* With nothing in flight the rename map is the architectural one.         *)
LEMMA MapsEmpty ==
  ASSUME NEW amt \in [LogReg -> PhysReg], NEW cp
  PROVE  Maps(<< >>, amt, amt, cp)
<1>1. << >> \in Window /\ Len(<< >>) = 0
  BY DEF Window
<1>2. MapIn(<< >>, amt, 0) = amt
  BY <1>1, MapInType
<1> QED
  BY <1>1, <1>2 DEF Maps, MapsSaved

-----------------------------------------------------------------------------
(* BranchMasksExact of a window in which no two live branches share an ID. *)
Distinct(w) ==
  \A j, k \in 1 .. Len(w) :
    LiveIn(w, j) /\ LiveIn(w, k) /\ w[j].branch_ID = w[k].branch_ID => j = k

MaskAt(w, k, cp) ==
  /\ ~w[k].completed => w[k].branch_mask = IDs(w, k - 1)
  /\ LiveIn(w, k) => cp[w[k].branch_ID].GBM = IDs(w, k)

Masks(w, gbm, cc, cp) ==
  /\ Distinct(w)
  /\ gbm = IDs(w, Len(w))
  /\ cc = Cardinality(gbm)
  /\ \A k \in 1 .. Len(w) : MaskAt(w, k, cp)

(* Live IDs are branch IDs, at most as many as there are.                  *)
LEMMA IDsType ==
  ASSUME NEW w \in Window, NEW k \in 0 .. Len(w)
  PROVE  /\ IDs(w, k) \subseteq BranchID
         /\ IsFiniteSet(IDs(w, k)) /\ Cardinality(IDs(w, k)) \in 0 .. NumBranches
         /\ IDs(w, 0) = {}
<1>1. IDs(w, k) \subseteq BranchID
  BY WindowType DEF IDs, Renamed
<1>2. IsFiniteSet(BranchID) /\ Cardinality(BranchID) = NumBranches
  BY RenamerAssumption, FS_Interval DEF BranchID
<1>3. IsFiniteSet(IDs(w, k)) /\ Cardinality(IDs(w, k)) <= NumBranches
  BY <1>1, <1>2, FS_Subset
<1>4. Cardinality(IDs(w, k)) \in Nat
  BY <1>3, FS_CardinalityType
<1>5. IDs(w, 0) = {}
  BY DEF IDs
<1> QED
  BY <1>1, <1>3, <1>4, <1>5, RenamerAssumption

(* Different IDs: as many IDs as live branches.                            *)
LEMMA IDsCount ==
  ASSUME NEW w \in Window, Distinct(w)
  PROVE  Cardinality(IDs(w, Len(w))) = Cardinality({j \in 1 .. Len(w) : LiveIn(w, j)})
<1> DEFINE L == {j \in 1 .. Len(w) : LiveIn(w, j)}
           f == [j \in L |-> w[j].branch_ID]
<1>1. IsFiniteSet(L)
  <2>1. IsFiniteSet(1 .. Len(w))
    BY WindowType, FS_Interval
  <2> QED
    BY <2>1, FS_Subset
<1>2. f \in Bijection(L, IDs(w, Len(w)))
  <2>1. f \in [L -> IDs(w, Len(w))]
    BY DEF IDs
  <2>2. \A i, j \in L : f[i] = f[j] => i = j
    BY DEF Distinct
  <2>3. \A b \in IDs(w, Len(w)) : \E j \in L : f[j] = b
    BY DEF IDs
  <2> QED
    BY <2>1, <2>2, <2>3 DEF Bijection, Injection, Surjection, IsInjective
<1> QED
  BY <1>1, <1>2, FS_Bijection DEF ExistsBijection

MasksAlike(w, cp, cq) ==
  \A k \in 1 .. Len(w) : LiveIn(w, k) => cq[w[k].branch_ID].GBM = cp[w[k].branch_ID].GBM

Forked(e, gbm, gbm2, cc, cc2) ==
  IF e.checkpoint THEN e.branch_ID \notin gbm /\ gbm2 = gbm \cup {e.branch_ID} /\ cc2 = cc + 1
                  ELSE gbm2 = gbm /\ cc2 = cc

(* One more instruction has the mask of the live branches; a branch takes  *)
(* an ID that none of them has and adds it.                                *)
LEMMA MasksAppend ==
  ASSUME NEW w \in Window, NEW v \in Window, Grown(v, w),
         NEW gbm, NEW cc, NEW cp, NEW cq, Masks(w, gbm, cc, cp),
         NEW e, e = v[Len(v)], ~e.completed, e.branch_mask = gbm,
         MasksAlike(w, cp, cq),
         NEW gbm2, NEW cc2, Forked(e, gbm, gbm2, cc, cc2),
         e.checkpoint => cq[e.branch_ID].GBM = gbm2
  PROVE  Masks(v, gbm2, cc2, cq)
<1> DEFINE n == Len(w)
<1>1. n \in Nat /\ Len(v) = n + 1 /\ (\A k \in 1 .. n : v[k] = w[k]) /\ e = v[n + 1]
  BY WindowType DEF Grown
<1>2. \A k \in 0 .. n : IDs(v, k) = IDs(w, k)
  BY <1>1 DEF IDs, LiveIn
<1>3. LiveIn(v, n + 1) <=> e.checkpoint
  BY <1>1, WindowType DEF LiveIn, Renamed
<1>4. gbm = IDs(w, n) /\ cc = Cardinality(gbm)
  BY DEF Masks
<1>5. IDs(v, n + 1) = gbm2
  <2>1. IDs(v, n + 1) = IDs(v, n) \cup (IF LiveIn(v, n + 1) THEN {v[n + 1].branch_ID} ELSE {})
    <3>1. {l \in 1 .. n + 1 : LiveIn(v, l)} =
          {l \in 1 .. n : LiveIn(v, l)} \cup (IF LiveIn(v, n + 1) THEN {n + 1} ELSE {})
      BY <1>1
    <3> QED
      BY <3>1 DEF IDs
  <2>2. IDs(v, n) = gbm
    BY <1>1, <1>2, <1>4
  <2> QED
    BY <1>1, <1>3, <2>1, <2>2 DEF Forked
<1>6. Distinct(v)
  <2>1. \A j \in 1 .. n : LiveIn(v, j) => LiveIn(w, j) /\ v[j] = w[j] /\ w[j].branch_ID \in gbm
    BY <1>1, <1>4 DEF LiveIn, IDs
  <2>2. \A j \in 1 .. n : LiveIn(v, j) /\ LiveIn(v, n + 1) => v[j].branch_ID # v[n + 1].branch_ID
    BY <1>1, <1>3, <2>1 DEF Forked
  <2>3. \A j, k \in 1 .. n : LiveIn(v, j) /\ LiveIn(v, k) /\ v[j].branch_ID = v[k].branch_ID => j = k
    BY <2>1 DEF Masks, Distinct
  <2>4. \A k \in 1 .. n + 1 : k \in 1 .. n \/ k = n + 1
    BY <1>1
  <2> QED
    BY <1>1, <2>2, <2>3, <2>4 DEF Distinct
<1>7. ASSUME NEW k \in 1 .. n PROVE MaskAt(v, k, cq)
  <2>1. MaskAt(w, k, cp) /\ v[k] = w[k] /\ (LiveIn(v, k) <=> LiveIn(w, k))
    BY <1>1 DEF Masks, LiveIn
  <2>2. IDs(v, k) = IDs(w, k) /\ IDs(v, k - 1) = IDs(w, k - 1)
    BY <1>1, <1>2
  <2> QED
    BY <2>1, <2>2 DEF MaskAt, MasksAlike
<1>8. MaskAt(v, n + 1, cq)
  <2>1. (n + 1) - 1 = n /\ IDs(v, n) = gbm
    BY <1>1, <1>2, <1>4
  <2> QED
    BY <1>1, <1>3, <1>5, <2>1 DEF MaskAt
<1>9. cc2 = Cardinality(gbm2)
  <2>1. IsFiniteSet(gbm)
    BY <1>1, <1>4, IDsType
  <2>2. e.checkpoint => Cardinality(gbm \cup {e.branch_ID}) = Cardinality(gbm) + 1
    BY <2>1, FS_AddElement DEF Forked
  <2> QED
    BY <2>2, <1>4 DEF Forked
<1>10. \A k \in 1 .. n + 1 : k \in 1 .. n \/ k = n + 1
  BY <1>1
<1> QED
  BY <1>1, <1>5, <1>6, <1>7, <1>8, <1>9, <1>10 DEF Masks

(* What changes neither masks nor live branches keeps the masks exact.     *)
LEMMA MasksKeep ==
  ASSUME NEW w \in Window, NEW v \in Window, Len(v) = Len(w),
         \A k \in 1 .. Len(w) : /\ LiveIn(v, k) <=> LiveIn(w, k)
                                /\ v[k].branch_ID = w[k].branch_ID
                                /\ v[k].branch_mask = w[k].branch_mask
                                /\ ~v[k].completed => ~w[k].completed,
         NEW gbm, NEW cc, NEW cp, Masks(w, gbm, cc, cp)
  PROVE  Masks(v, gbm, cc, cp)
<1>1. Len(w) \in Nat
  BY WindowType
<1>2. \A k \in 0 .. Len(w) : IDs(v, k) = IDs(w, k)
  BY <1>1 DEF IDs
<1>3. Distinct(v)
  BY DEF Masks, Distinct
<1>4. \A k \in 1 .. Len(w) : MaskAt(v, k, cp)
  <2> SUFFICES ASSUME NEW k \in 1 .. Len(w) PROVE MaskAt(v, k, cp)
    OBVIOUS
  <2>1. MaskAt(w, k, cp)
    BY DEF Masks
  <2>2. IDs(v, k) = IDs(w, k) /\ IDs(v, k - 1) = IDs(w, k - 1)
    BY <1>1, <1>2
  <2> QED
    BY <2>1, <2>2 DEF MaskAt
<1> QED
  BY <1>1, <1>2, <1>3, <1>4 DEF Masks

(* A branch that resolves correctly: its bit goes, everywhere.             *)
ResolvedIn(v, w, x, b) ==
  \A k \in 1 .. Len(w) : /\ LiveIn(v, k) <=> LiveIn(w, k) /\ k # x
                         /\ v[k].branch_ID = w[k].branch_ID
                         /\ v[k].branch_mask = w[k].branch_mask \ {b}
                         /\ v[k].completed <=> w[k].completed \/ k = x
Unmarked(w, cp, cq, b) ==
  \A k \in 1 .. Len(w) : cq[w[k].branch_ID].GBM = cp[w[k].branch_ID].GBM \ {b}

(* With the bit of a resolved branch cleared everywhere, the masks are     *)
(* exact without it.                                                       *)
LEMMA MasksResolve ==
  ASSUME NEW w \in Window, NEW v \in Window, Len(v) = Len(w),
         NEW x \in 1 .. Len(w), LiveIn(w, x), NEW b, b = w[x].branch_ID,
         ResolvedIn(v, w, x, b),
         NEW gbm, NEW cc, NEW cp, Masks(w, gbm, cc, cp), NEW cq, Unmarked(w, cp, cq, b)
  PROVE  Masks(v, gbm \ {b}, cc - 1, cq)
<1> USE DEF ResolvedIn, Unmarked
<1>1. Len(w) \in Nat
  BY WindowType
<1>2. \A k \in 0 .. Len(w) : IDs(v, k) = IDs(w, k) \ {b}
  <2> SUFFICES ASSUME NEW k \in 0 .. Len(w) PROVE IDs(v, k) = IDs(w, k) \ {b}
    OBVIOUS
  <2>1. IDs(v, k) \subseteq IDs(w, k) \ {b}
    <3> SUFFICES ASSUME NEW j \in 1 .. k, LiveIn(v, j) PROVE v[j].branch_ID \in IDs(w, k) \ {b}
      BY DEF IDs
    <3>1. j \in 1 .. Len(w) /\ LiveIn(w, j) /\ j # x /\ v[j].branch_ID = w[j].branch_ID
      BY <1>1
    <3>2. w[j].branch_ID # b
      BY <3>1 DEF Masks, Distinct
    <3> QED
      BY <3>1, <3>2 DEF IDs
  <2>2. IDs(w, k) \ {b} \subseteq IDs(v, k)
    <3> SUFFICES ASSUME NEW j \in 1 .. k, LiveIn(w, j), w[j].branch_ID # b
                 PROVE  w[j].branch_ID \in IDs(v, k)
      BY DEF IDs
    <3>1. j \in 1 .. Len(w) /\ j # x
      BY <1>1
    <3> QED
      BY <3>1 DEF IDs
  <2> QED
    BY <2>1, <2>2
<1>3. Distinct(v)
  BY DEF Masks, Distinct
<1>4. \A k \in 1 .. Len(w) : MaskAt(v, k, cq)
  <2> SUFFICES ASSUME NEW k \in 1 .. Len(w) PROVE MaskAt(v, k, cq)
    OBVIOUS
  <2>1. MaskAt(w, k, cp)
    BY DEF Masks
  <2>2. IDs(v, k) = IDs(w, k) \ {b} /\ IDs(v, k - 1) = IDs(w, k - 1) \ {b}
    BY <1>1, <1>2
  <2> QED
    BY <2>1, <2>2 DEF MaskAt
<1>5. gbm \ {b} = IDs(v, Len(v))
  BY <1>1, <1>2 DEF Masks
<1>6. cc - 1 = Cardinality(gbm \ {b})
  <2>1. gbm = IDs(w, Len(w)) /\ cc = Cardinality(gbm) /\ b \in gbm
    BY DEF Masks, IDs
  <2>2. IsFiniteSet(gbm)
    BY <2>1, <1>1, IDsType
  <2> QED
    BY <2>1, <2>2, FS_RemoveElement
<1> QED
  BY <1>3, <1>4, <1>5, <1>6 DEF Masks

(* A branch that was mispredicted: it stays, completed, at the end of the  *)
(* window, and the mask saved in its checkpoint comes back without it.     *)
LEMMA MasksPrefix ==
  ASSUME NEW w \in Window, NEW v \in Window, NEW x \in 1 .. Len(w), Len(v) = x,
         LiveIn(w, x), v[x].completed, v[x].branch_ID = w[x].branch_ID,
         \A k \in 1 .. x - 1 : v[k] = w[k],
         NEW gbm, NEW cc, NEW cp, Masks(w, gbm, cc, cp),
         NEW gbm2, gbm2 = cp[w[x].branch_ID].GBM \ {w[x].branch_ID}
  PROVE  Masks(v, gbm2, Cardinality(gbm2), cp)
<1> DEFINE b == w[x].branch_ID
<1>1. Len(w) \in Nat /\ x \in Nat
  BY WindowType
<1>2. \A k \in 0 .. x - 1 : IDs(v, k) = IDs(w, k)
  BY <1>1 DEF IDs, LiveIn
<1>3. IDs(v, x) = IDs(v, x - 1)
  <2>1. ~LiveIn(v, x)
    BY DEF LiveIn
  <2>2. {l \in 1 .. x : LiveIn(v, l)} = {l \in 1 .. x - 1 : LiveIn(v, l)}
    BY <1>1, <2>1
  <2> QED
    BY <2>2 DEF IDs
<1>4. IDs(w, x) = IDs(w, x - 1) \cup {b}
  <2>1. {l \in 1 .. x : LiveIn(w, l)} = {l \in 1 .. x - 1 : LiveIn(w, l)} \cup {x}
    BY <1>1
  <2> QED
    BY <2>1 DEF IDs
<1>5. b \notin IDs(w, x - 1)
  <2> SUFFICES ASSUME NEW j \in 1 .. x - 1, LiveIn(w, j), w[j].branch_ID = b PROVE FALSE
    BY DEF IDs
  <2>1. j \in 1 .. Len(w) /\ j # x
    BY <1>1
  <2> QED
    BY <2>1 DEF Masks, Distinct
<1>6. gbm2 = IDs(v, Len(v))
  <2>1. cp[b].GBM = IDs(w, x)
    BY DEF Masks, MaskAt
  <2>2. x - 1 \in 0 .. x - 1
    BY <1>1
  <2> QED
    BY <2>1, <2>2, <1>2, <1>3, <1>4, <1>5
<1>7. Distinct(v)
  <2>1. \A k \in 1 .. x : LiveIn(v, k) => k \in 1 .. x - 1 /\ k \in 1 .. Len(w) /\ LiveIn(w, k) /\ v[k] = w[k]
    BY <1>1 DEF LiveIn
  <2> QED
    BY <2>1 DEF Masks, Distinct
<1>8. ASSUME NEW k \in 1 .. x PROVE MaskAt(v, k, cp)
  <2>1. CASE k = x
    BY <2>1 DEF MaskAt, LiveIn
  <2>2. CASE k # x
    <3>1. k \in 1 .. x - 1 /\ k \in 0 .. x - 1 /\ k - 1 \in 0 .. x - 1 /\ k \in 1 .. Len(w)
      BY <1>1, <2>2
    <3>2. MaskAt(w, k, cp) /\ v[k] = w[k]
      BY <3>1 DEF Masks
    <3>3. IDs(v, k) = IDs(w, k) /\ IDs(v, k - 1) = IDs(w, k - 1)
      BY <3>1, <1>2
    <3> QED
      BY <3>2, <3>3 DEF MaskAt, LiveIn
  <2> QED
    BY <2>1, <2>2
<1> QED
  BY <1>6, <1>7, <1>8 DEF Masks

(* The oldest instruction, which has completed, leaves.                    *)
LEMMA MasksShift ==
  ASSUME NEW w \in Window, NEW v \in Window, Shifted(v, w), w[1].completed,
         NEW gbm, NEW cc, NEW cp, Masks(w, gbm, cc, cp)
  PROVE  Masks(v, gbm, cc, cp)
<1> DEFINE n == Len(v)
<1>1. n \in Nat /\ Len(w) = n + 1 /\ \A k \in 1 .. n : v[k] = w[k + 1]
  BY WindowType DEF Shifted
<1>2. ~LiveIn(w, 1)
  BY DEF LiveIn
<1>3. \A k \in 1 .. n : LiveIn(v, k) <=> LiveIn(w, k + 1)
  BY <1>1 DEF LiveIn
<1>4. \A k \in 0 .. n : IDs(v, k) = IDs(w, k + 1)
  <2> SUFFICES ASSUME NEW k \in 0 .. n PROVE IDs(v, k) = IDs(w, k + 1)
    OBVIOUS
  <2>1. \A j \in 1 .. k : LiveIn(v, j) => /\ j + 1 \in 1 .. k + 1 /\ LiveIn(w, j + 1)
                                          /\ v[j].branch_ID = w[j + 1].branch_ID
    BY <1>1, <1>3
  <2>2. \A j \in 1 .. k + 1 : LiveIn(w, j) => /\ j - 1 \in 1 .. k /\ LiveIn(v, j - 1)
                                              /\ v[j - 1].branch_ID = w[j].branch_ID
    <3> SUFFICES ASSUME NEW j \in 1 .. k + 1, LiveIn(w, j)
                 PROVE  /\ j - 1 \in 1 .. k /\ LiveIn(v, j - 1)
                        /\ v[j - 1].branch_ID = w[j].branch_ID
      OBVIOUS
    <3>1. j # 1 /\ j - 1 \in 1 .. k /\ j - 1 \in 1 .. n /\ (j - 1) + 1 = j
      BY <1>1, <1>2
    <3> QED
      BY <3>1, <1>1, <1>3
  <2> QED
    BY <2>1, <2>2 DEF IDs
<1>5. gbm = IDs(v, Len(v)) /\ cc = Cardinality(gbm)
  BY <1>1, <1>4 DEF Masks
<1>6. Distinct(v)
  <2> SUFFICES ASSUME NEW j \in 1 .. n, NEW k \in 1 .. n, LiveIn(v, j), LiveIn(v, k),
                      v[j].branch_ID = v[k].branch_ID
               PROVE  j = k
    BY DEF Distinct
  <2>1. j + 1 \in 1 .. Len(w) /\ k + 1 \in 1 .. Len(w) /\ w[j + 1].branch_ID = w[k + 1].branch_ID
        /\ LiveIn(w, j + 1) /\ LiveIn(w, k + 1)
    BY <1>1, <1>3
  <2>2. j + 1 = k + 1
    BY <2>1 DEF Masks, Distinct
  <2> QED
    BY <2>2
<1>7. ASSUME NEW k \in 1 .. n PROVE MaskAt(v, k, cp)
  <2>1. k + 1 \in 1 .. Len(w) /\ v[k] = w[k + 1] /\ (LiveIn(v, k) <=> LiveIn(w, k + 1))
    BY <1>1, <1>3
  <2>2. MaskAt(w, k + 1, cp)
    BY <2>1 DEF Masks
  <2>3. IDs(v, k) = IDs(w, k + 1)
    BY <1>1, <1>4
  <2>4. IDs(v, k - 1) = IDs(w, (k + 1) - 1)
    <3>1. k - 1 \in 0 .. n /\ (k - 1) + 1 = (k + 1) - 1
      BY <1>1
    <3> QED
      BY <3>1, <1>4
  <2> QED
    BY <2>1, <2>2, <2>3, <2>4 DEF MaskAt
<1> QED
  BY <1>5, <1>6, <1>7 DEF Masks

(* With nothing in flight no branch is live.                               *)
LEMMA MasksEmpty ==
  ASSUME NEW cp
  PROVE  Masks(<< >>, {}, 0, cp)
<1>1. << >> \in Window /\ Len(<< >>) = 0 /\ 1 .. 0 = {}
  BY DEF Window
<1>2. IDs(<< >>, 0) = {}
  BY DEF IDs
<1> QED
  BY <1>1, <1>2, FS_EmptySet DEF Masks, Distinct

-----------------------------------------------------------------------------
(* The instructions in flight, of an active list and of DISPATCH.          *)
Flight(al, head, n, disp) ==
  [k \in 1 .. n |-> al[SlotAt(head, k - 1, NumActive)]] \o disp

(* InFlight in these terms, before and after a step.                       *)
LEMMA InFlightIs ==
  /\ InFlight = Flight(AL, AL_head, AL_count, DISPATCH)
  /\ InFlight' = Flight(AL', AL_head', AL_count', DISPATCH')
BY DEF InFlight, ActiveList, Flight

(* The active list has an entry, and its indices are those of a list.      *)
LEMMA ALSizes ==
  NumActive \in Nat \ {0} /\ ALIndex = 0 .. NumActive - 1
BY RenamerAssumption DEF ALIndex

(* Its length and its entries: first those of the active list, then those  *)
(* of DISPATCH.                                                            *)
LEMMA FlightType ==
  ASSUME NEW al \in [ALIndex -> Renamed], NEW head \in Pointer(NumActive),
         NEW n \in 0 .. NumActive, NEW disp \in Seq(Renamed)
  PROVE  /\ Flight(al, head, n, disp) \in Window
         /\ Len(Flight(al, head, n, disp)) = n + Len(disp)
         /\ Len(disp) \in Nat
         /\ \A k \in 1 .. n : /\ SlotAt(head, k - 1, NumActive) \in ALIndex
                              /\ Flight(al, head, n, disp)[k] = al[SlotAt(head, k - 1, NumActive)]
         /\ \A k \in 1 .. Len(disp) : Flight(al, head, n, disp)[n + k] = disp[k]
<1> DEFINE a == [k \in 1 .. n |-> al[SlotAt(head, k - 1, NumActive)]]
<1>1. \A k \in 1 .. n : SlotAt(head, k - 1, NumActive) \in ALIndex
  <2> SUFFICES ASSUME NEW k \in 1 .. n PROVE SlotAt(head, k - 1, NumActive) \in ALIndex
    OBVIOUS
  <2>1. k - 1 \in 0 .. NumActive
    BY ALSizes
  <2> QED
    BY <2>1, ALSizes, PointerType
<1>2. n \in Nat /\ Len(disp) \in Nat
  BY ALSizes
<1>3. a \in [1 .. n -> Renamed]
  BY <1>1
<1>4. a \in Seq(Renamed) /\ Len(a) = n
  BY <1>2, <1>3, SeqDef
<1>5. \A k \in 1 .. n : a[k] = al[SlotAt(head, k - 1, NumActive)]
  OBVIOUS
<1>6. Flight(al, head, n, disp) = a \o disp
  BY DEF Flight
<1> HIDE DEF a
<1>7. /\ a \o disp \in Seq(Renamed)
      /\ Len(a \o disp) = n + Len(disp)
      /\ \A i \in 1 .. n + Len(disp) : (a \o disp)[i] = IF i <= n THEN a[i] ELSE disp[i - n]
  BY <1>4, ConcatProperties
<1>8. \A k \in 1 .. n : (a \o disp)[k] = a[k]
  BY <1>2, <1>7
<1>9. \A k \in 1 .. Len(disp) : (a \o disp)[n + k] = disp[k]
  <2> SUFFICES ASSUME NEW k \in 1 .. Len(disp) PROVE (a \o disp)[n + k] = disp[k]
    OBVIOUS
  <2>1. n + k \in 1 .. n + Len(disp) /\ ~(n + k <= n) /\ (n + k) - n = k
    BY <1>2
  <2> QED
    BY <2>1, <1>7
<1> QED
  BY <1>1, <1>2, <1>5, <1>6, <1>7, <1>8, <1>9 DEF Window

(* The same with nothing in DISPATCH.                                      *)
LEMMA FlightAlone ==
  ASSUME NEW al \in [ALIndex -> Renamed], NEW head \in Pointer(NumActive), NEW n \in 0 .. NumActive
  PROVE  /\ Flight(al, head, n, << >>) \in Window
         /\ Len(Flight(al, head, n, << >>)) = n
         /\ \A k \in 1 .. n : Flight(al, head, n, << >>)[k] = al[SlotAt(head, k - 1, NumActive)]
<1> DEFINE d == << >>
<1>1. d \in Seq(Renamed) /\ Len(d) = 0
  OBVIOUS
<1>2. n + 0 = n
  BY ALSizes
<1> HIDE DEF d
<1>3. /\ Flight(al, head, n, d) \in Window
      /\ Len(Flight(al, head, n, d)) = n
      /\ \A k \in 1 .. n : Flight(al, head, n, d)[k] = al[SlotAt(head, k - 1, NumActive)]
  BY <1>1, <1>2, FlightType, ZenonT(30)
<1> QED
  BY <1>3 DEF d

(* A position in flight is in the active list or in DISPATCH.              *)
LEMMA FlightPlace ==
  ASSUME NEW n \in Nat, NEW m \in Nat, NEW k \in 1 .. n + m
  PROVE  k \in 1 .. n \/ (k - n \in 1 .. m /\ n + (k - n) = k)
OBVIOUS

(* One entry of the active list changes.                                   *)
EntrySet(bl, al, x, e) == \A y \in ALIndex : bl[y] = IF y = x THEN e ELSE al[y]
Replaced(v, w, k, e)   == \A j \in 1 .. Len(w) : v[j] = IF j = k THEN e ELSE w[j]

(* Only the instruction in that slot changes, because no other is in it.   *)
LEMMA FlightUpdate ==
  ASSUME NEW al \in [ALIndex -> Renamed], NEW head \in Pointer(NumActive),
         NEW n \in 0 .. NumActive, NEW disp \in Seq(Renamed), NEW k \in 1 .. n, NEW e \in Renamed,
         NEW x, x = SlotAt(head, k - 1, NumActive),
         NEW bl \in [ALIndex -> Renamed], EntrySet(bl, al, x, e)
  PROVE  Replaced(Flight(bl, head, n, disp), Flight(al, head, n, disp), k, e)
<1>2. n \in Nat /\ Len(disp) \in Nat
  BY ALSizes
<1>3. SlotAt(head, k - 1, NumActive) \in ALIndex
  BY FlightType
<1>4. ASSUME NEW j \in 1 .. n
      PROVE  Flight(bl, head, n, disp)[j] = IF j = k THEN e ELSE Flight(al, head, n, disp)[j]
  <2>1. Flight(bl, head, n, disp)[j] = bl[SlotAt(head, j - 1, NumActive)]
    BY FlightType
  <2>2. Flight(al, head, n, disp)[j] = al[SlotAt(head, j - 1, NumActive)]
        /\ SlotAt(head, j - 1, NumActive) \in ALIndex
    BY FlightType
  <2>3. j # k => SlotAt(head, j - 1, NumActive) # SlotAt(head, k - 1, NumActive)
    <3>1. j - 1 \in 0 .. NumActive - 1 /\ k - 1 \in 0 .. NumActive - 1 /\ (j - 1 = k - 1 => j = k)
      BY ALSizes
    <3> QED
      BY <3>1, ALSizes, SlotInjective
  <2> QED
    BY <1>3, <2>1, <2>2, <2>3 DEF EntrySet
<1>5. ASSUME NEW j \in 1 .. Len(disp)
      PROVE  Flight(bl, head, n, disp)[n + j] = IF n + j = k THEN e ELSE Flight(al, head, n, disp)[n + j]
  <2>1. n + j # k
    BY <1>2
  <2> QED
    BY <2>1, FlightType
<1>6. ASSUME NEW j \in 1 .. n + Len(disp)
      PROVE  Flight(bl, head, n, disp)[j] = IF j = k THEN e ELSE Flight(al, head, n, disp)[j]
  <2>1. j \in 1 .. n \/ (j - n \in 1 .. Len(disp) /\ n + (j - n) = j)
    BY <1>2, FlightPlace
  <2> QED
    BY <2>1, <1>4, <1>5
<1>7. Len(Flight(al, head, n, disp)) = n + Len(disp)
  BY FlightType
<1> QED
  BY <1>6, <1>7 DEF Replaced

(* The bundle in DISPATCH enters the active list.                          *)
Entering(al, tail, disp) ==
  [x \in ALIndex |->
     IF \E k \in 1 .. Len(disp) : x = SlotAt(tail, k - 1, NumActive)
       THEN disp[CHOOSE k \in 1 .. Len(disp) : x = SlotAt(tail, k - 1, NumActive)]
       ELSE al[x]]

(* The window is the same when DISPATCH fits into the active list.         *)
LEMMA FlightDispatch ==
  ASSUME NEW al \in [ALIndex -> Renamed], NEW head \in Pointer(NumActive),
         NEW n \in 0 .. NumActive, NEW disp \in Seq(Renamed), n + Len(disp) <= NumActive,
         NEW tail, tail = Advance(head, n, NumActive),
         NEW bl, bl = Entering(al, tail, disp)
  PROVE  /\ bl \in [ALIndex -> Renamed]
         /\ Flight(bl, head, n + Len(disp), << >>) = Flight(al, head, n, disp)
<1> DEFINE m == Len(disp)
           At(k) == SlotAt(head, k - 1, NumActive)
<1>1. n \in Nat /\ m \in Nat /\ n + m \in 0 .. NumActive
  BY ALSizes
<1>2. \A k \in 1 .. m : SlotAt(tail, k - 1, NumActive) = At(n + k)
  <2> SUFFICES ASSUME NEW k \in 1 .. m PROVE SlotAt(tail, k - 1, NumActive) = At(n + k)
    OBVIOUS
  <2>1. k - 1 \in 0 .. NumActive /\ n + (k - 1) <= NumActive /\ n + (k - 1) = (n + k) - 1
    BY <1>1, ALSizes
  <2> QED
    BY <2>1, ALSizes, AdvanceAdvance
<1>3. \A j, k \in 1 .. n + m : At(j) = At(k) => j = k
  <2> SUFFICES ASSUME NEW j \in 1 .. n + m, NEW k \in 1 .. n + m, At(j) = At(k) PROVE j = k
    OBVIOUS
  <2>1. j - 1 \in 0 .. NumActive - 1 /\ k - 1 \in 0 .. NumActive - 1
    BY <1>1, ALSizes
  <2>2. j - 1 = k - 1
    BY <2>1, ALSizes, SlotInjective
  <2> QED
    BY <2>2
<1>4. \A k \in 1 .. n + m : At(k) \in ALIndex
  <2> SUFFICES ASSUME NEW k \in 1 .. n + m PROVE At(k) \in ALIndex
    OBVIOUS
  <2>1. k - 1 \in 0 .. NumActive
    BY <1>1, ALSizes
  <2> QED
    BY <2>1, ALSizes, PointerType
<1> HIDE DEF At
<1>5. bl \in [ALIndex -> Renamed]
  <2>1. \A k \in 1 .. m : disp[k] \in Renamed
    BY ElementOfSeq
  <2>2. ASSUME NEW x \in ALIndex, \E k \in 1 .. m : x = SlotAt(tail, k - 1, NumActive)
        PROVE  disp[CHOOSE k \in 1 .. m : x = SlotAt(tail, k - 1, NumActive)] \in Renamed
    <3> DEFINE c == CHOOSE k \in 1 .. m : x = SlotAt(tail, k - 1, NumActive)
    <3>1. c \in 1 .. m
      BY <2>2
    <3> QED
      BY <2>1, <3>1
  <2> QED
    BY <2>2 DEF Entering
<1>6. \A k \in 1 .. m : bl[At(n + k)] = disp[k]
  <2> SUFFICES ASSUME NEW k \in 1 .. m PROVE bl[At(n + k)] = disp[k]
    OBVIOUS
  <2> DEFINE c == CHOOSE i \in 1 .. m : At(n + k) = SlotAt(tail, i - 1, NumActive)
  <2>1. At(n + k) \in ALIndex /\ At(n + k) = SlotAt(tail, k - 1, NumActive)
    BY <1>1, <1>2, <1>4
  <2>2. c \in 1 .. m /\ At(n + k) = SlotAt(tail, c - 1, NumActive)
    BY <2>1
  <2>3. At(n + k) = At(n + c)
    BY <2>2, <1>2
  <2>4. c = k
    <3>1. n + k \in 1 .. n + m /\ n + c \in 1 .. n + m
      BY <1>1, <2>2
    <3>2. n + k = n + c
      BY <2>3, <3>1, <1>3
    <3> QED
      BY <1>1, <2>2, <3>2
  <2>5. bl[At(n + k)] = disp[c]
    BY <2>1 DEF Entering
  <2> QED
    BY <2>4, <2>5
<1>7. \A k \in 1 .. n : bl[At(k)] = al[At(k)]
  <2> SUFFICES ASSUME NEW k \in 1 .. n PROVE bl[At(k)] = al[At(k)]
    OBVIOUS
  <2>1. \A i \in 1 .. m : At(k) # SlotAt(tail, i - 1, NumActive)
    <3> SUFFICES ASSUME NEW i \in 1 .. m, At(k) = At(n + i) PROVE FALSE
      BY <1>2
    <3>1. k \in 1 .. n + m /\ n + i \in 1 .. n + m /\ k # n + i
      BY <1>1
    <3> QED
      BY <3>1, <1>3
  <2>2. At(k) \in ALIndex
    BY <1>1, <1>4
  <2> QED
    BY <2>1, <2>2 DEF Entering
<1> DEFINE v == Flight(bl, head, n + m, << >>)
           w == Flight(al, head, n, disp)
<1>9. v \in Window /\ Len(v) = n + m /\ \A k \in 1 .. n + m : v[k] = bl[At(k)]
  BY <1>1, <1>5, FlightAlone DEF At
<1>10. w \in Window /\ Len(w) = n + m /\ (\A k \in 1 .. n : w[k] = al[At(k)])
       /\ \A k \in 1 .. m : w[n + k] = disp[k]
  BY FlightType DEF At
<1> HIDE DEF v, w
<1>11. \A k \in 1 .. n + m : v[k] = w[k]
  <2> SUFFICES ASSUME NEW k \in 1 .. n + m PROVE v[k] = w[k]
    OBVIOUS
  <2>1. CASE k \in 1 .. n
    BY <2>1, <1>7, <1>9, <1>10
  <2>2. CASE k - n \in 1 .. m /\ n + (k - n) = k
    BY <2>2, <1>6, <1>9, <1>10
  <2> QED
    BY <1>1, <2>1, <2>2, FlightPlace
<1>12. v = w
  BY <1>9, <1>10, <1>11, SeqEqual DEF Window
<1> QED
  BY <1>5, <1>12 DEF v, w

(* The oldest instruction leaves the active list.                          *)
LEMMA FlightShift ==
  ASSUME NEW al \in [ALIndex -> Renamed], NEW head \in Pointer(NumActive),
         NEW n \in 1 .. NumActive, NEW disp \in Seq(Renamed)
  PROVE  /\ Advance(head, 1, NumActive) \in Pointer(NumActive) /\ n - 1 \in 0 .. NumActive
         /\ Shifted(Flight(al, Advance(head, 1, NumActive), n - 1, disp), Flight(al, head, n, disp))
         /\ Flight(al, head, n, disp)[1] = al[head.pos]
<1> DEFINE h == Advance(head, 1, NumActive)
           v == Flight(al, h, n - 1, disp)
           w == Flight(al, head, n, disp)
           m == Len(disp)
<1>1. n \in Nat /\ m \in Nat /\ n - 1 \in 0 .. NumActive /\ n \in 0 .. NumActive /\ 1 \in 0 .. NumActive
  BY ALSizes
<1>2. h \in Pointer(NumActive)
  BY <1>1, ALSizes, PointerType
<1>3. Len(v) = (n - 1) + m /\ (\A k \in 1 .. n - 1 : v[k] = al[SlotAt(h, k - 1, NumActive)])
      /\ \A k \in 1 .. m : v[(n - 1) + k] = disp[k]
  BY <1>1, <1>2, FlightType, ZenonT(30)
<1>4. Len(w) = n + m /\ (\A k \in 1 .. n : w[k] = al[SlotAt(head, k - 1, NumActive)])
      /\ \A k \in 1 .. m : w[n + k] = disp[k]
  BY <1>1, FlightType
<1>5. ASSUME NEW k \in 1 .. n - 1 PROVE v[k] = w[k + 1]
  <2>1. SlotAt(h, k - 1, NumActive) = SlotAt(head, 1 + (k - 1), NumActive)
    <3>1. k - 1 \in 0 .. NumActive /\ 1 + (k - 1) <= NumActive
      BY <1>1, ALSizes
    <3> QED
      BY <1>1, <3>1, ALSizes, AdvanceAdvance
  <2>2. k + 1 \in 1 .. n /\ 1 + (k - 1) = (k + 1) - 1
    BY <1>1
  <2> QED
    BY <2>1, <2>2, <1>3, <1>4
<1>6. ASSUME NEW k \in 1 .. m PROVE v[(n - 1) + k] = w[((n - 1) + k) + 1]
  <2>1. ((n - 1) + k) + 1 = n + k
    BY <1>1
  <2> QED
    BY <2>1, <1>3, <1>4
<1>7. w[1] = al[head.pos]
  <2>1. 1 \in 1 .. n /\ 1 - 1 = 0
    BY <1>1
  <2> QED
    BY <2>1, <1>4, ALSizes, AdvanceNone
<1>8. \A k \in 1 .. (n - 1) + m : v[k] = w[k + 1]
  <2> SUFFICES ASSUME NEW k \in 1 .. (n - 1) + m PROVE v[k] = w[k + 1]
    OBVIOUS
  <2>1. n - 1 \in Nat
    BY <1>1
  <2>2. k \in 1 .. n - 1 \/ (k - (n - 1) \in 1 .. m /\ (n - 1) + (k - (n - 1)) = k)
    BY <2>1, <1>1, FlightPlace
  <2> HIDE DEF v, w
  <2> QED
    BY <2>2, <1>5, <1>6
<1>9. Len(w) = Len(v) + 1
  BY <1>1, <1>3, <1>4
<1> QED
  BY <1>1, <1>2, <1>3, <1>7, <1>8, <1>9 DEF Shifted

(* An instruction is renamed into DISPATCH.                                *)
LEMMA FlightAppend ==
  ASSUME NEW al \in [ALIndex -> Renamed], NEW head \in Pointer(NumActive),
         NEW n \in 0 .. NumActive, NEW disp \in Seq(Renamed), NEW e \in Renamed
  PROVE  LET w == Flight(al, head, n, disp)
             v == Flight(al, head, n, Append(disp, e))
         IN  v \in Window /\ Grown(v, w) /\ v[Len(v)] = e /\ Append(disp, e) \in Seq(Renamed)
<1> DEFINE w == Flight(al, head, n, disp)
           d == Append(disp, e)
           v == Flight(al, head, n, d)
           m == Len(disp)
<1>1. n \in Nat /\ m \in Nat
  BY ALSizes
<1>2. d \in Seq(Renamed) /\ Len(d) = m + 1 /\ (\A k \in 1 .. m : d[k] = disp[k]) /\ d[m + 1] = e
  BY AppendProperties
<1>3. w \in Window /\ Len(w) = n + m /\ (\A k \in 1 .. n : w[k] = al[SlotAt(head, k - 1, NumActive)])
      /\ \A k \in 1 .. m : w[n + k] = disp[k]
  BY FlightType
<1> HIDE DEF d
<1>4. v \in Window /\ Len(v) = n + Len(d) /\ (\A k \in 1 .. n : v[k] = al[SlotAt(head, k - 1, NumActive)])
      /\ \A k \in 1 .. Len(d) : v[n + k] = d[k]
  BY <1>2, FlightType
<1> HIDE DEF v, w
<1>5. Len(v) = Len(w) + 1 /\ Len(v) = n + (m + 1)
  BY <1>1, <1>2, <1>3, <1>4
<1>6. ASSUME NEW k \in 1 .. n + m PROVE v[k] = w[k]
  <2>1. CASE k \in 1 .. n
    BY <2>1, <1>3, <1>4
  <2>2. CASE k - n \in 1 .. m /\ n + (k - n) = k
    <3>1. k - n \in 1 .. Len(d)
      BY <2>2, <1>1, <1>2
    <3>2. v[n + (k - n)] = d[k - n] /\ w[n + (k - n)] = disp[k - n]
      BY <2>2, <3>1, <1>3, <1>4
    <3> QED
      BY <2>2, <3>2, <1>2
  <2> QED
    BY <1>1, <2>1, <2>2, FlightPlace
<1>7. v[Len(v)] = e
  <2>1. m + 1 \in 1 .. Len(d)
    BY <1>1, <1>2
  <2> QED
    BY <2>1, <1>2, <1>4, <1>5
<1>8. Grown(v, w)
  BY <1>3, <1>5, <1>6 DEF Grown
<1> QED
  BY <1>2, <1>4, <1>7, <1>8 DEF v, w, d

(* resolve() clears a bit in all that is in flight and completes one entry.*)
ClearedAL(al, b, x)    == [y \in ALIndex |-> [clear_bit(al[y], b) EXCEPT !.completed = @ \/ y = x]]
ClearedDispatch(ds, b) == [j \in DOMAIN ds |-> clear_bit(ds[j], b)]
ClearedEntry(e, b, c)  == [clear_bit(e, b) EXCEPT !.completed = @ \/ c]
Cleared(v, w, k, b)    == \A j \in 1 .. Len(w) : v[j] = ClearedEntry(w[j], b, j = k)

(* And so each instruction in flight changes by itself.                    *)
LEMMA FlightClear ==
  ASSUME NEW al \in [ALIndex -> Renamed], NEW head \in Pointer(NumActive),
         NEW n \in 0 .. NumActive, NEW disp \in Seq(Renamed), NEW k \in 1 .. n,
         NEW b \in BranchID, NEW x, x = SlotAt(head, k - 1, NumActive),
         NEW bl, bl = ClearedAL(al, b, x), NEW d2, d2 = ClearedDispatch(disp, b)
  PROVE  /\ bl \in [ALIndex -> Renamed] /\ d2 \in Seq(Renamed) /\ Len(d2) = Len(disp)
         /\ Cleared(Flight(bl, head, n, d2), Flight(al, head, n, disp), k, b)
<1> DEFINE Clear(e, c) == [clear_bit(e, b) EXCEPT !.completed = @ \/ c]
<1>1. \A e \in Renamed, c \in BOOLEAN : clear_bit(e, b) \in Renamed /\ Clear(e, c) \in Renamed
  BY DEF clear_bit, Renamed
<1>2. \A e \in Renamed : Clear(e, FALSE) = clear_bit(e, b)
  <2> SUFFICES ASSUME NEW e \in Renamed PROVE Clear(e, FALSE) = clear_bit(e, b)
    OBVIOUS
  <2> DEFINE r == clear_bit(e, b)
  <2>1. r \in Renamed
    BY <1>1
  <2> HIDE DEF r
  <2>2. (r.completed \/ FALSE) = r.completed
    BY <2>1 DEF Renamed
  <2>3. [r EXCEPT !.completed = r.completed] = r
    BY <2>1 DEF Renamed
  <2>4. [r EXCEPT !.completed = @ \/ FALSE] = [r EXCEPT !.completed = r.completed]
    BY <2>2
  <2> QED
    BY <2>3, <2>4 DEF r
<1>3. bl \in [ALIndex -> Renamed] /\ \A y \in ALIndex : bl[y] = Clear(al[y], y = x)
  BY <1>1 DEF ClearedAL
<1>4. d2 \in Seq(Renamed) /\ Len(d2) = Len(disp) /\ \A j \in 1 .. Len(disp) : d2[j] = clear_bit(disp[j], b)
  <2>1. Len(disp) \in Nat /\ DOMAIN disp = 1 .. Len(disp) /\ \A j \in 1 .. Len(disp) : disp[j] \in Renamed
    OBVIOUS
  <2>2. d2 = [j \in 1 .. Len(disp) |-> clear_bit(disp[j], b)]
    BY <2>1 DEF ClearedDispatch
  <2>3. d2 \in [1 .. Len(disp) -> Renamed]
    BY <1>1, <2>1, <2>2
  <2>4. d2 \in Seq(Renamed)
    BY <2>1, <2>3, SeqDef
  <2>5. DOMAIN d2 = 1 .. Len(disp)
    BY <2>2
  <2> QED
    BY <2>1, <2>2, <2>4, <2>5, LenProperties
<1> HIDE DEF Clear
<1>5. n \in Nat /\ Len(disp) \in Nat
  BY ALSizes
<1>6. ASSUME NEW j \in 1 .. n
      PROVE  Flight(bl, head, n, d2)[j] = Clear(Flight(al, head, n, disp)[j], j = k)
  <2>1. Flight(bl, head, n, d2)[j] = bl[SlotAt(head, j - 1, NumActive)]
    <3>1. \A cl \in [ALIndex -> Renamed], s \in Seq(Renamed) :
            Flight(cl, head, n, s)[j] = cl[SlotAt(head, j - 1, NumActive)]
      BY FlightType
    <3> QED
      BY <3>1, <1>3, <1>4
  <2>2. Flight(al, head, n, disp)[j] = al[SlotAt(head, j - 1, NumActive)]
        /\ SlotAt(head, j - 1, NumActive) \in ALIndex
    BY FlightType
  <2>3. (SlotAt(head, j - 1, NumActive) = x) = (j = k)
    <3>1. j - 1 \in 0 .. NumActive - 1 /\ k - 1 \in 0 .. NumActive - 1 /\ (j - 1 = k - 1 <=> j = k)
      BY ALSizes
    <3> QED
      BY <3>1, ALSizes, SlotInjective
  <2> QED
    BY <1>3, <2>1, <2>2, <2>3
<1>7. ASSUME NEW j \in 1 .. Len(disp)
      PROVE  Flight(bl, head, n, d2)[n + j] = Clear(Flight(al, head, n, disp)[n + j], n + j = k)
  <2>1. (n + j = k) = FALSE
    BY <1>5
  <2>2. Flight(al, head, n, disp)[n + j] = disp[j] /\ disp[j] \in Renamed
    BY FlightType
  <2>3. Flight(bl, head, n, d2)[n + j] = d2[j]
    <3>1. \A cl \in [ALIndex -> Renamed], s \in Seq(Renamed) :
            j \in 1 .. Len(s) => Flight(cl, head, n, s)[n + j] = s[j]
      BY FlightType
    <3> QED
      BY <3>1, <1>3, <1>4
  <2> QED
    BY <1>2, <1>4, <2>1, <2>2, <2>3
<1>8. ASSUME NEW j \in 1 .. n + Len(disp)
      PROVE  Flight(bl, head, n, d2)[j] = Clear(Flight(al, head, n, disp)[j], j = k)
  <2>1. j \in 1 .. n \/ (j - n \in 1 .. Len(disp) /\ n + (j - n) = j)
    BY <1>5, FlightPlace
  <2> QED
    BY <2>1, <1>6, <1>7
<1>9. Len(Flight(al, head, n, disp)) = n + Len(disp)
  BY FlightType
<1> QED
  BY <1>3, <1>4, <1>8, <1>9 DEF Clear, Cleared, ClearedEntry

-----------------------------------------------------------------------------
(* What a bundle still needs, and one instruction less of it.              *)
LEMMA BundleNeeds ==
  ASSUME NEW b \in Seq(Insn)
  PROVE  /\ bundle_dst(b) \in Nat /\ bundle_branch(b) \in Nat
         /\ bundle_dst(<< >>) = 0 /\ bundle_branch(<< >>) = 0
         /\ b # << >> =>
              /\ Tail(b) \in Seq(Insn)
              /\ bundle_dst(Tail(b)) = bundle_dst(b) - (IF Head(b).dst # None THEN 1 ELSE 0)
              /\ bundle_branch(Tail(b)) = bundle_branch(b) - (IF Head(b).checkpoint THEN 1 ELSE 0)
<1> DEFINE Needs(s) == {k \in Nat : s[k].dst # None}
           Forks(s) == {k \in Nat : s[k].checkpoint}
<1>1. ASSUME NEW s \in Seq(Insn)
      PROVE  /\ bundle_dst(s) = Count(Needs(s), Len(s)) /\ bundle_branch(s) = Count(Forks(s), Len(s))
             /\ bundle_dst(s) \in Nat /\ bundle_branch(s) \in Nat /\ Len(s) \in Nat
  <2>1. Len(s) \in Nat /\ DOMAIN s = 1 .. Len(s)
    OBVIOUS
  <2>2. {k \in DOMAIN s : s[k].dst # None} = {k \in 1 .. Len(s) : k \in Needs(s)}
    BY <2>1
  <2>3. {k \in DOMAIN s : s[k].checkpoint} = {k \in 1 .. Len(s) : k \in Forks(s)}
    BY <2>1
  <2>4. bundle_dst(s) = Count(Needs(s), Len(s)) /\ bundle_branch(s) = Count(Forks(s), Len(s))
    BY <2>2, <2>3 DEF bundle_dst, bundle_branch, Count
  <2>5. Count(Needs(s), Len(s)) \in 0 .. Len(s) /\ Count(Forks(s), Len(s)) \in 0 .. Len(s)
    BY <2>1, CountType
  <2> QED
    BY <2>1, <2>4, <2>5
<1>2. bundle_dst(<< >>) = 0 /\ bundle_branch(<< >>) = 0
  <2>1. {k \in DOMAIN << >> : << >>[k].dst # None} = {} /\ {k \in DOMAIN << >> : << >>[k].checkpoint} = {}
    OBVIOUS
  <2> QED
    BY <2>1, FS_EmptySet DEF bundle_dst, bundle_branch
<1>3. ASSUME b # << >>
      PROVE  /\ Tail(b) \in Seq(Insn)
             /\ bundle_dst(Tail(b)) = bundle_dst(b) - (IF Head(b).dst # None THEN 1 ELSE 0)
             /\ bundle_branch(Tail(b)) = bundle_branch(b) - (IF Head(b).checkpoint THEN 1 ELSE 0)
  <2> DEFINE t == Tail(b)
  <2>1. t \in Seq(Insn) /\ Len(t) \in Nat /\ Len(b) = Len(t) + 1 /\ (\A k \in 1 .. Len(t) : t[k] = b[k + 1])
        /\ Head(b) = b[1]
    BY <1>3, HeadTailProperties
  <2> HIDE DEF t
  <2>2. \A k \in 1 .. Len(t) : k \in Needs(t) <=> k + 1 \in Needs(b)
    BY <2>1
  <2>3. \A k \in 1 .. Len(t) : k \in Forks(t) <=> k + 1 \in Forks(b)
    BY <2>1
  <2>4. (1 \in Needs(b) <=> b[1].dst # None) /\ (1 \in Forks(b) <=> b[1].checkpoint)
    OBVIOUS
  <2>5. bundle_dst(t) = Count(Needs(t), Len(t)) /\ bundle_branch(t) = Count(Forks(t), Len(t))
        /\ bundle_dst(b) = Count(Needs(b), Len(t) + 1) /\ bundle_branch(b) = Count(Forks(b), Len(t) + 1)
    BY <1>1, <2>1
  <2> HIDE DEF Needs, Forks
  <2>6. Count(Needs(t), Len(t)) = Count(Needs(b), Len(t) + 1) - (IF 1 \in Needs(b) THEN 1 ELSE 0)
    BY <2>1, <2>2, CountShift
  <2>7. Count(Forks(t), Len(t)) = Count(Forks(b), Len(t) + 1) - (IF 1 \in Forks(b) THEN 1 ELSE 0)
    BY <2>1, <2>3, CountShift
  <2> QED
    BY <2>1, <2>4, <2>5, <2>6, <2>7 DEF t
<1> QED
  BY <1>1, <1>2, <1>3

-----------------------------------------------------------------------------
(* A bundle is renamed only when all it needs is free.                     *)
BundleFits ==
  /\ bundle_dst(rename_bundle) <= FL_count
  /\ bundle_branch(rename_bundle) <= NumBranches - checkpoint_count

(* The entries in flight, the first n of them in the active list: a value  *)
(* is predicted for a destination, and who completes has written it.       *)
Entries(w, n) ==
  \A k \in 1 .. Len(w) :
    /\ w[k].vp_pred => w[k].dst # None
    /\ w[k].completed /\ w[k].dst # None => w[k].woken \/ w[k].at_retire
    /\ k > n => ~w[k].woken /\ ~w[k].completed

(* ReadyExact of a window.                                                 *)
Ready(w, n, amt, prf) ==
  /\ \A r \in LogReg : prf[amt[r]]
  /\ \A k \in 1 .. Len(w) : w[k].dst # None =>
       (prf[w[k].phys_reg] <=> w[k].woken \/ (w[k].vp_pred /\ k <= n))

(* The inductive invariant: the properties of Renamer, as predicates of    *)
(* the window, with what a bundle was promised, what an entry may be and   *)
(* (in Masks) that no two live branches share a checkpoint.                *)
IInv ==
  /\ TypeOK
  /\ AL_tail = Advance(AL_head, AL_count, NumActive)
  /\ Conserved(AMT, FL)
  /\ Order(InFlight, FL, FL_head, FL_tail, FL_count, checkpoints)
  /\ Maps(InFlight, AMT, RMT, checkpoints)
  /\ Masks(InFlight, GBM, checkpoint_count, checkpoints)
  /\ BundleFits
  /\ Entries(InFlight, AL_count)
  /\ Ready(InFlight, AL_count, AMT, PRF_ready)

(* The instructions in flight of a well-typed state.                       *)
LEMMA InFlightType ==
  ASSUME TypeOK
  PROVE  /\ InFlight \in Window /\ Len(InFlight) = AL_count + Len(DISPATCH)
         /\ AL_count \in Nat /\ Len(DISPATCH) \in Nat
         /\ \A k \in 1 .. AL_count : /\ AL_index(k) \in ALIndex
                                     /\ InFlight[k] = AL[AL_index(k)]
                                     /\ k \in 1 .. Len(InFlight)
         /\ \A k \in 1 .. Len(DISPATCH) : InFlight[AL_count + k] = DISPATCH[k]
<1>1. AL_count \in Nat
  BY ALSizes DEF TypeOK
<1>2. \A k : AL_index(k) = SlotAt(AL_head, k - 1, NumActive)
  BY DEF AL_index
<1>3. /\ AL \in [ALIndex -> Renamed] /\ AL_head \in Pointer(NumActive)
      /\ AL_count \in 0 .. NumActive /\ DISPATCH \in Seq(Renamed)
  BY DEF TypeOK
<1> DEFINE w == Flight(AL, AL_head, AL_count, DISPATCH)
<1>4. /\ w \in Window /\ Len(w) = AL_count + Len(DISPATCH) /\ Len(DISPATCH) \in Nat
      /\ \A k \in 1 .. AL_count : /\ SlotAt(AL_head, k - 1, NumActive) \in ALIndex
                                  /\ w[k] = AL[SlotAt(AL_head, k - 1, NumActive)]
      /\ \A k \in 1 .. Len(DISPATCH) : w[AL_count + k] = DISPATCH[k]
  BY <1>3, FlightType
<1>5. InFlight = w
  BY InFlightIs
<1> HIDE DEF w
<1>6. \A k \in 1 .. AL_count : k \in 1 .. Len(w)
  BY <1>1, <1>4
<1> QED
  BY <1>1, <1>2, <1>4, <1>5, <1>6

(* Nothing in flight, all free: at the start and after a squash.           *)
Empty ==
  /\ TypeOK /\ AL_tail = AL_head /\ AL_count = 0 /\ DISPATCH = << >> /\ rename_bundle = << >>
  /\ Conserved(AMT, FL) /\ FL_head = Start /\ FL_tail = [pos |-> 0, phase |-> TRUE]
  /\ FL_count = FLSize /\ RMT = AMT /\ GBM = {} /\ checkpoint_count = 0
  /\ \A p \in PhysReg : PRF_ready[p]

(* Such a state satisfies the invariant.                                   *)
LEMMA EmptyInv ==
  Empty => IInv
<1> SUFFICES ASSUME Empty PROVE IInv
  OBVIOUS
<1> USE DEF Empty
<1>1. InFlight = << >>
  <2>1. InFlight \in Window /\ Len(InFlight) = AL_count + Len(DISPATCH)
    BY InFlightType
  <2>2. Len(InFlight) = 0
    BY <2>1
  <2> QED
    BY <2>1, <2>2 DEF Window
<1>2. AL_tail = Advance(AL_head, AL_count, NumActive)
  BY ALSizes, AdvanceNone DEF TypeOK
<1>3. Order(InFlight, FL, FL_head, FL_tail, FL_count, checkpoints)
  BY <1>1, OrderEmpty
<1>4. Maps(InFlight, AMT, RMT, checkpoints)
  BY <1>1, MapsEmpty DEF TypeOK
<1>5. Masks(InFlight, GBM, checkpoint_count, checkpoints)
  BY <1>1, MasksEmpty
<1>6. BundleFits
  <2>1. << >> \in Seq(Insn) /\ FLSize \in Nat /\ NumBranches \in Nat
    BY Sizes, RenamerAssumption
  <2>2. bundle_dst(rename_bundle) = 0 /\ bundle_branch(rename_bundle) = 0
    BY <2>1, BundleNeeds
  <2> QED
    BY <2>1, <2>2 DEF BundleFits
<1>7. Entries(InFlight, AL_count) /\ Ready(InFlight, AL_count, AMT, PRF_ready)
  BY <1>1 DEF Entries, Ready, TypeOK
<1> QED
  BY <1>2, <1>3, <1>4, <1>5, <1>6, <1>7 DEF IInv

(* The initial state is such a state.                                      *)
LEMMA InitInv ==
  Init => IInv
<1> SUFFICES ASSUME Init PROVE IInv
  OBVIOUS
<1>1. Start \in Pointer(FLSize) /\ Start \in Pointer(NumActive)
      /\ [pos |-> 0, phase |-> TRUE] \in Pointer(FLSize)
  BY Sizes, ALSizes DEF Start, Pointer
<1>2. EmptyEntry \in Renamed
  BY RenamerAssumption DEF EmptyEntry, Renamed, PhysReg, BranchID, None, Flags
<1>3. TypeOK
  <2>1. RMT \in [LogReg -> PhysReg] /\ AMT \in [LogReg -> PhysReg]
    BY RenamerAssumption DEF Init, LogReg, PhysReg
  <2>2. FL \in [FLIndex -> PhysReg]
    BY RenamerAssumption DEF Init, FLIndex, FLSize, PhysReg
  <2>3. checkpoints \in [BranchID -> Checkpoints]
    BY <1>1, <2>1 DEF Init, Checkpoints
  <2>4. FL_count \in 0 .. FLSize /\ AL_count \in 0 .. NumActive /\ checkpoint_count \in 0 .. NumBranches
    BY Sizes, ALSizes, RenamerAssumption DEF Init
  <2>5. AL \in [ALIndex -> Renamed] /\ PRF_ready \in [PhysReg -> BOOLEAN]
    BY <1>2 DEF Init
  <2>6. rename_bundle \in Seq(Insn) /\ DISPATCH \in Seq(Renamed) /\ GBM \in SUBSET BranchID
    BY DEF Init
  <2>7. FL_head \in Pointer(FLSize) /\ FL_tail \in Pointer(FLSize)
        /\ AL_head \in Pointer(NumActive) /\ AL_tail \in Pointer(NumActive)
    BY <1>1 DEF Init
  <2> QED
    BY <2>1, <2>2, <2>3, <2>4, <2>5, <2>6, <2>7 DEF TypeOK
<1>4. Conserved(AMT, FL)
  BY RenamerAssumption DEF Init, Conserved, LogReg, FLIndex, FLSize
<1> QED
  BY <1>3, <1>4, EmptyInv DEF Init, Empty

(* A bundle let into rename2 fits; nothing else changes.                   *)
LEMMA Rename2Inv ==
  ASSUME IInv, NEW b \in Bundles, Rename2(b)
  PROVE  IInv'
<1>1. b \in Seq(Insn)
  <2>1. PICK n \in 1 .. DispatchWidth : b \in [1 .. n -> Insns]
    BY DEF Bundles
  <2>2. n \in Nat /\ b \in [1 .. n -> Insn]
    BY <2>1, RenamerAssumption
  <2> QED
    BY <2>2, SeqDef
<1>2. InFlight' = InFlight
  BY DEF Rename2, InFlight, ActiveList, al_vars
<1>3. BundleFits'
  <2>1. bundle_dst(b) \in Nat /\ bundle_branch(b) \in Nat
    BY <1>1, BundleNeeds
  <2>2. FL_count \in Int /\ NumBranches - checkpoint_count \in Int
    BY Sizes, RenamerAssumption DEF IInv, TypeOK
  <2> QED
    BY <2>1, <2>2 DEF Rename2, BundleFits, stall_reg, stall_branch, fl_vars, branch_vars
<1>4. TypeOK'
  BY <1>1 DEF IInv, TypeOK, Rename2, map_vars, fl_vars, al_vars, branch_vars
<1> QED
  BY <1>2, <1>3, <1>4 DEF IInv, Rename2, map_vars, fl_vars, al_vars, branch_vars

(* A step that changes neither the registers nor the live branches in      *)
(* flight keeps the lists, maps and masks as they are.                     *)
Quiet(v, w) ==
  /\ Len(v) = Len(w)
  /\ \A k \in 1 .. Len(w) :
       /\ v[k].dst = w[k].dst /\ v[k].phys_reg = w[k].phys_reg
       /\ v[k].branch_ID = w[k].branch_ID /\ v[k].branch_mask = w[k].branch_mask
       /\ LiveIn(v, k) <=> LiveIn(w, k)
       /\ ~v[k].completed => ~w[k].completed

(* Such a step preserves the invariant if it keeps the entries sound and   *)
(* the ready bits exact.                                                   *)
LEMMA QuietInv ==
  ASSUME IInv, TypeOK', UNCHANGED <<map_vars, fl_vars, branch_vars, rename_bundle>>,
         InFlight' \in Window, Quiet(InFlight', InFlight),
         AL_tail' = Advance(AL_head', AL_count', NumActive),
         Entries(InFlight', AL_count'), Ready(InFlight', AL_count', AMT, PRF_ready')
  PROVE  IInv'
<1> DEFINE w == InFlight
           v == InFlight'
<1>1. w \in Window /\ v \in Window /\ Len(v) = Len(w) /\ Len(w) \in Nat
  BY InFlightType, WindowType DEF IInv, Quiet
<1>2. FL_tail \in Pointer(FLSize)
  BY DEF IInv, TypeOK
<1>3. Agree(v, w, Len(v)) /\ SavedAlike(w, checkpoints, checkpoints)
  BY <1>1 DEF Quiet, Agree, SavedAlike
<1>4. Order(v, FL, FL_head, FL_tail, FL_count, checkpoints)
  <2>1. Order(w, FL, FL_head, FL_tail, FL_count, checkpoints)
    BY DEF IInv
  <2>2. Order(v, FL, HeadAfter(FL_tail, D(w, Len(w))), FL_tail, FLSize - D(w, Len(w)), checkpoints)
    <3>1. Len(v) <= Len(w)
      BY <1>1
    <3> QED
      BY <1>1, <1>2, <1>3, <2>1, <3>1, OrderKeep
  <2> QED
    BY <2>1, <2>2 DEF Order
<1>5. Maps(v, AMT, RMT, checkpoints)
  <2>1. Maps(w, AMT, RMT, checkpoints) /\ Len(v) <= Len(w)
    BY <1>1 DEF IInv
  <2>2. Maps(v, AMT, MapIn(w, AMT, Len(w)), checkpoints)
    BY <1>1, <1>3, <2>1, MapsKeep
  <2> QED
    BY <2>1, <2>2 DEF Maps
<1>6. Masks(v, GBM, checkpoint_count, checkpoints)
  <2>1. Masks(w, GBM, checkpoint_count, checkpoints)
    BY DEF IInv
  <2>2. \A k \in 1 .. Len(w) :
          /\ LiveIn(v, k) <=> LiveIn(w, k)
          /\ v[k].branch_ID = w[k].branch_ID
          /\ v[k].branch_mask = w[k].branch_mask
          /\ ~v[k].completed => ~w[k].completed
    BY DEF Quiet
  <2> HIDE DEF v, w
  <2> QED
    BY <1>1, <2>1, <2>2, MasksKeep
<1> HIDE DEF v, w
<1>7. /\ RMT' = RMT /\ AMT' = AMT /\ FL' = FL /\ FL_head' = FL_head /\ FL_tail' = FL_tail
      /\ FL_count' = FL_count /\ GBM' = GBM /\ checkpoint_count' = checkpoint_count
      /\ checkpoints' = checkpoints /\ rename_bundle' = rename_bundle
  BY DEF map_vars, fl_vars, branch_vars
<1>8. Conserved(AMT, FL)' /\ BundleFits'
  BY <1>7 DEF IInv, BundleFits, Conserved
<1>9. /\ Order(InFlight, FL, FL_head, FL_tail, FL_count, checkpoints)'
      /\ Maps(InFlight, AMT, RMT, checkpoints)'
      /\ Masks(InFlight, GBM, checkpoint_count, checkpoints)'
      /\ Entries(InFlight, AL_count)' /\ Ready(InFlight, AL_count, AMT, PRF_ready)'
  BY <1>4, <1>5, <1>6, <1>7 DEF v
<1> QED
  BY <1>8, <1>9 DEF IInv

(* What a step that changes entry k of the active list to e does to the    *)
(* instructions in flight.                                                 *)
LEMMA EntryStep ==
  ASSUME TypeOK, NEW k \in 1 .. AL_count, NEW e \in Renamed,
         AL' = [AL EXCEPT ![AL_index(k)] = e],
         UNCHANGED <<AL_head, AL_count, DISPATCH>>
  PROVE  /\ AL' \in [ALIndex -> Renamed]
         /\ InFlight' \in Window /\ Len(InFlight') = Len(InFlight)
         /\ Replaced(InFlight', InFlight, k, e)
<1>1. /\ AL \in [ALIndex -> Renamed] /\ AL_head \in Pointer(NumActive)
      /\ AL_count \in 0 .. NumActive /\ DISPATCH \in Seq(Renamed)
  BY DEF TypeOK
<1>2. AL' \in [ALIndex -> Renamed]
  BY <1>1
<1>3. EntrySet(AL', AL, AL_index(k), e) /\ AL_index(k) = SlotAt(AL_head, k - 1, NumActive)
  BY <1>1 DEF AL_index, EntrySet
<1>4. InFlight' = Flight(AL', AL_head, AL_count, DISPATCH) /\ InFlight = Flight(AL, AL_head, AL_count, DISPATCH)
  BY InFlightIs
<1> DEFINE bl == AL'
<1> HIDE DEF bl
<1>5. bl \in [ALIndex -> Renamed] /\ EntrySet(bl, AL, AL_index(k), e)
  BY <1>2, <1>3 DEF bl
<1>6. Replaced(Flight(bl, AL_head, AL_count, DISPATCH), Flight(AL, AL_head, AL_count, DISPATCH), k, e)
  BY <1>1, <1>3, <1>5, FlightUpdate
<1>7. /\ Flight(bl, AL_head, AL_count, DISPATCH) \in Window
      /\ Len(Flight(bl, AL_head, AL_count, DISPATCH)) = AL_count + Len(DISPATCH)
      /\ Len(Flight(AL, AL_head, AL_count, DISPATCH)) = AL_count + Len(DISPATCH)
  BY <1>1, <1>5, FlightType
<1> QED
  BY <1>2, <1>4, <1>6, <1>7 DEF bl

(* A producer wakes its consumers: its ready bit alone changes, because no *)
(* other instruction and no logical register has its register.             *)
LEMMA WakeupInv ==
  ASSUME IInv, NEW k \in 1 .. AL_count, Wakeup(k)
  PROVE  IInv'
<1> DEFINE w == InFlight
           v == InFlight'
           f == [w[k] EXCEPT !.woken = TRUE]
<1>1. TypeOK /\ w \in Window /\ k \in 1 .. Len(w) /\ w[k] = AL[AL_index(k)] /\ AL_index(k) \in ALIndex
  BY InFlightType DEF IInv
<1>2. w[k] \in Renamed /\ f \in Renamed
  <2>1. w[k] \in Renamed
    BY <1>1, WindowType
  <2> QED
    BY <2>1 DEF Renamed
<1>3. w[k].dst # None /\ ~w[k].completed
      /\ PRF_ready' = [PRF_ready EXCEPT ![w[k].phys_reg] = TRUE]
  BY <1>1 DEF Wakeup
<1>4. AL' = [AL EXCEPT ![AL_index(k)] = f]
  BY <1>1 DEF Wakeup
<1>5. UNCHANGED <<AL_head, AL_count, AL_tail, DISPATCH, map_vars, fl_vars, branch_vars, rename_bundle>>
  BY DEF Wakeup, front_vars
<1>6. AL' \in [ALIndex -> Renamed] /\ v \in Window /\ Len(v) = Len(w)
      /\ \A j \in 1 .. Len(w) : v[j] = IF j = k THEN f ELSE w[j]
  BY <1>1, <1>2, <1>4, <1>5, EntryStep DEF Replaced
<1>7. /\ f.dst = w[k].dst /\ f.phys_reg = w[k].phys_reg /\ f.branch_ID = w[k].branch_ID
      /\ f.branch_mask = w[k].branch_mask /\ f.checkpoint = w[k].checkpoint /\ f.woken
      /\ f.completed = w[k].completed /\ f.vp_pred = w[k].vp_pred /\ f.at_retire = w[k].at_retire
  BY <1>2 DEF Renamed
<1>8. TypeOK'
  <2>1. PRF_ready' \in [PhysReg -> BOOLEAN]
    BY <1>3 DEF IInv, TypeOK
  <2> QED
    BY <1>1, <1>5, <1>6, <2>1 DEF TypeOK, map_vars, fl_vars, branch_vars
<1> HIDE DEF f
<1>9. Quiet(v, w)
  BY <1>6, <1>7 DEF Quiet, LiveIn
<1>10. Entries(v, AL_count')
  <2>1. \A j \in 1 .. Len(w) :
          /\ w[j].vp_pred => w[j].dst # None
          /\ w[j].completed /\ w[j].dst # None => w[j].woken \/ w[j].at_retire
          /\ j > AL_count => ~w[j].woken /\ ~w[j].completed
    BY DEF IInv, Entries
  <2>2. AL_count \in Nat /\ AL_count' = AL_count /\ ~(k > AL_count)
    BY <1>1, <1>5, InFlightType
  <2> HIDE DEF v, w
  <2> QED
    BY <1>1, <1>6, <1>7, <2>1, <2>2 DEF Entries
<1>11. Ready(v, AL_count', AMT, PRF_ready')
  <2>1. \A j \in 1 .. Len(w) : w[j].dst # None /\ w[j].phys_reg = w[k].phys_reg => j = k
    <3>0. D(w, Len(w)) <= FLSize
      BY <1>1, OrderFits DEF IInv
    <3>1. Taken(w, FL, FL_tail) /\ Conserved(AMT, FL) /\ FL_tail \in Pointer(FLSize)
      BY DEF IInv, Order, TypeOK
    <3> QED
      BY <1>1, <1>3, <3>0, <3>1, TakenDistinct
  <2>2. AMT \in [LogReg -> PhysReg] /\ PRF_ready \in [PhysReg -> BOOLEAN]
        /\ (\A j \in 1 .. Len(w) : w[j].phys_reg \in PhysReg)
    BY <1>1, WindowType DEF TypeOK, Renamed
  <2>3. \A r \in LogReg : PRF_ready'[AMT[r]]
    BY <1>3, <2>2 DEF IInv, Ready
  <2>4. ASSUME NEW j \in 1 .. Len(w), w[j].dst # None
        PROVE  PRF_ready'[v[j].phys_reg] <=> v[j].woken \/ (v[j].vp_pred /\ j <= AL_count)
    <3>1. CASE j = k
      BY <3>1, <1>3, <1>6, <1>7, <2>2
    <3>2. CASE j # k
      <4>1. v[j] = w[j] /\ w[j].phys_reg # w[k].phys_reg
        BY <3>2, <1>6, <2>1, <2>4
      <4>2. PRF_ready[w[j].phys_reg] <=> w[j].woken \/ (w[j].vp_pred /\ j <= AL_count)
        BY <2>4 DEF IInv, Ready
      <4> QED
        BY <4>1, <4>2, <1>3, <2>2
    <3> QED
      BY <3>1, <3>2
  <2> QED
    BY <1>5, <1>6, <1>7, <2>3, <2>4 DEF Ready
<1>12. AL_tail' = Advance(AL_head', AL_count', NumActive)
  BY <1>5 DEF IInv
<1> QED
  BY <1>5, <1>6, <1>8, <1>9, <1>10, <1>11, <1>12, QuietInv

(* A step that only posts a flag or completes an instruction which is not  *)
(* a branch.                                                               *)
LEMMA MarkInv ==
  ASSUME IInv, NEW k \in 1 .. AL_count, NEW e \in Renamed,
         AL' = [AL EXCEPT ![AL_index(k)] = e],
         UNCHANGED <<map_vars, fl_vars, AL_head, AL_tail, AL_count, PRF_ready, branch_vars, front_vars>>,
         NEW a, a = AL[AL_index(k)],
         e.dst = a.dst, e.phys_reg = a.phys_reg, e.branch_ID = a.branch_ID,
         e.branch_mask = a.branch_mask, e.checkpoint = a.checkpoint, e.vp_pred = a.vp_pred,
         e.at_retire = a.at_retire, e.woken = a.woken,
         e.completed = (a.completed \/ (e.completed /\ ~a.checkpoint /\ (a.dst # None => a.woken \/ a.at_retire)))
  PROVE  IInv'
<1> DEFINE w == InFlight
           v == InFlight'
<1>1. TypeOK /\ w \in Window /\ k \in 1 .. Len(w) /\ w[k] = a /\ AL_count \in Nat
  BY InFlightType DEF IInv
<1>2. UNCHANGED <<AL_head, AL_count, AL_tail, PRF_ready, DISPATCH, map_vars, fl_vars, branch_vars, rename_bundle>>
  BY DEF front_vars
<1>3. AL' \in [ALIndex -> Renamed] /\ v \in Window /\ Len(v) = Len(w)
      /\ \A j \in 1 .. Len(w) : v[j] = IF j = k THEN e ELSE w[j]
  BY <1>1, <1>2, EntryStep DEF Replaced
<1>4. TypeOK'
  BY <1>1, <1>2, <1>3 DEF TypeOK, map_vars, fl_vars, branch_vars
<1>5. a \in Renamed
  BY <1>1, WindowType
<1>6. a.completed \in BOOLEAN /\ e.completed \in BOOLEAN /\ a.checkpoint \in BOOLEAN
  BY <1>5 DEF Renamed
<1>7. (a.completed => e.completed) /\ (a.checkpoint => (e.completed <=> a.completed))
      /\ (e.completed /\ ~a.completed => (a.dst # None => a.woken \/ a.at_retire))
  BY <1>6
<1>8. Quiet(v, w)
  BY <1>1, <1>3, <1>7 DEF Quiet, LiveIn
<1>9. Entries(v, AL_count')
  <2>1. \A j \in 1 .. Len(w) :
          /\ w[j].vp_pred => w[j].dst # None
          /\ w[j].completed /\ w[j].dst # None => w[j].woken \/ w[j].at_retire
          /\ j > AL_count => ~w[j].woken /\ ~w[j].completed
    BY DEF IInv, Entries
  <2>2. AL_count' = AL_count /\ ~(k > AL_count)
    BY <1>1, <1>2
  <2> HIDE DEF v, w
  <2> QED
    BY <1>1, <1>3, <1>7, <2>1, <2>2 DEF Entries
<1>10. Ready(v, AL_count', AMT, PRF_ready')
  <2>1. Ready(w, AL_count, AMT, PRF_ready)
    BY DEF IInv
  <2> HIDE DEF v, w
  <2> QED
    BY <1>1, <1>2, <1>3, <2>1 DEF Ready
<1>11. AL_tail' = Advance(AL_head', AL_count', NumActive)
  BY <1>2 DEF IInv
<1> QED
  BY <1>2, <1>3, <1>4, <1>8, <1>9, <1>10, <1>11, QuietInv

(* Posting a flag changes only the flags of an entry.                      *)
LEMMA PostInv ==
  ASSUME IInv, NEW k \in 1 .. AL_count, NEW flag \in Flags, Post(k, flag)
  PROVE  IInv'
<1> DEFINE a == AL[AL_index(k)]
           e == [a EXCEPT !.flags = @ \cup {flag}]
<1>1. a \in Renamed
  BY InFlightType DEF IInv, TypeOK
<1>2. e \in Renamed /\ e.dst = a.dst /\ e.phys_reg = a.phys_reg /\ e.branch_ID = a.branch_ID
      /\ e.branch_mask = a.branch_mask /\ e.checkpoint = a.checkpoint /\ e.vp_pred = a.vp_pred
      /\ e.at_retire = a.at_retire /\ e.woken = a.woken /\ e.completed = a.completed
  BY <1>1 DEF Renamed
<1>3. AL' = [AL EXCEPT ![AL_index(k)] = e]
      /\ UNCHANGED <<map_vars, fl_vars, AL_head, AL_tail, AL_count, PRF_ready, branch_vars, front_vars>>
  BY DEF Post
<1>4. e.completed = (a.completed \/ (e.completed /\ ~a.checkpoint /\ (a.dst # None => a.woken \/ a.at_retire)))
  BY <1>1, <1>2 DEF Renamed
<1> HIDE DEF a, e
<1>5. a = AL[AL_index(k)]
  BY DEF a
<1> QED
  BY <1>2, <1>3, <1>4, <1>5, MarkInv

(* Completing an instruction that is not a branch changes no mask.         *)
LEMMA WritebackInv ==
  ASSUME IInv, NEW k \in 1 .. AL_count, Writeback(k)
  PROVE  IInv'
<1> DEFINE a == AL[AL_index(k)]
           e == [a EXCEPT !.completed = TRUE]
<1>1. a \in Renamed
  BY InFlightType DEF IInv, TypeOK
<1>2. e \in Renamed /\ e.dst = a.dst /\ e.phys_reg = a.phys_reg /\ e.branch_ID = a.branch_ID
      /\ e.branch_mask = a.branch_mask /\ e.checkpoint = a.checkpoint /\ e.vp_pred = a.vp_pred
      /\ e.at_retire = a.at_retire /\ e.woken = a.woken /\ e.completed
  BY <1>1 DEF Renamed
<1>3. AL' = [AL EXCEPT ![AL_index(k)] = e]
      /\ UNCHANGED <<map_vars, fl_vars, AL_head, AL_tail, AL_count, PRF_ready, branch_vars, front_vars>>
  BY DEF Writeback
<1>4. ~a.checkpoint /\ (a.dst # None => a.woken \/ a.at_retire)
  BY DEF Writeback, Executed
<1>5. e.completed = (a.completed \/ (e.completed /\ ~a.checkpoint /\ (a.dst # None => a.woken \/ a.at_retire)))
  BY <1>1, <1>2, <1>4 DEF Renamed
<1> HIDE DEF a, e
<1>6. a = AL[AL_index(k)]
  BY DEF a
<1> QED
  BY <1>2, <1>3, <1>5, <1>6, MarkInv

(* dispatch: the window is the same, its last entries are in the active    *)
(* list now.                                                               *)
LEMMA DispatchFlight ==
  ASSUME IInv, Dispatch
  PROVE  AL' \in [ALIndex -> Renamed] /\ InFlight' = InFlight
<1> DEFINE w == InFlight
           m == Len(DISPATCH)
           n == AL_count
<1>1. TypeOK /\ w \in Window /\ Len(w) = n + m /\ n \in Nat /\ m \in Nat
      /\ (\A k \in 1 .. m : w[n + k] = DISPATCH[k])
  BY InFlightType DEF IInv
<1>2. /\ AL \in [ALIndex -> Renamed] /\ AL_head \in Pointer(NumActive)
      /\ AL_count \in 0 .. NumActive /\ DISPATCH \in Seq(Renamed)
      /\ AL_tail = Advance(AL_head, AL_count, NumActive)
  BY DEF TypeOK, IInv
<1>3. n + m <= NumActive /\ n + m \in 0 .. NumActive
  BY <1>1, <1>2, ALSizes DEF Dispatch, stall_dispatch
<1>4. /\ AL' = [x \in ALIndex |->
                  IF \E k \in 1 .. m : x = SlotAt(AL_tail, k - 1, NumActive)
                    THEN DISPATCH[CHOOSE k \in 1 .. m : x = SlotAt(AL_tail, k - 1, NumActive)]
                    ELSE AL[x]]
      /\ AL_tail' = Advance(AL_tail, m, NumActive) /\ AL_count' = n + m /\ DISPATCH' = << >>
      /\ UNCHANGED <<map_vars, fl_vars, AL_head, branch_vars, rename_bundle>>
  BY DEF Dispatch
<1> QED
  <2> DEFINE tail == AL_tail
             bl == AL'
  <2>1. /\ tail = Advance(AL_head, n, NumActive)
        /\ bl = Entering(AL, tail, DISPATCH)
    BY <1>2, <1>4 DEF Entering
  <2> HIDE DEF tail, bl
  <2>2. /\ bl \in [ALIndex -> Renamed]
        /\ Flight(bl, AL_head, n + Len(DISPATCH), << >>) = Flight(AL, AL_head, n, DISPATCH)
    BY <1>2, <1>3, <2>1, FlightDispatch
  <2>3. AL' \in [ALIndex -> Renamed]
        /\ Flight(AL', AL_head, n + m, << >>) = Flight(AL, AL_head, n, DISPATCH)
    BY <2>2 DEF bl
  <2> QED
    BY <2>3, <1>4, InFlightIs

(* Their predicted values are in the register file.                        *)
LEMMA DispatchInv ==
  ASSUME IInv, Dispatch
  PROVE  IInv'
<1> DEFINE w == InFlight
           m == Len(DISPATCH)
           n == AL_count
<1>1. TypeOK /\ w \in Window /\ Len(w) = n + m /\ n \in Nat /\ m \in Nat
      /\ (\A k \in 1 .. m : w[n + k] = DISPATCH[k])
  BY InFlightType DEF IInv
<1>2. /\ AL \in [ALIndex -> Renamed] /\ AL_head \in Pointer(NumActive)
      /\ AL_count \in 0 .. NumActive /\ DISPATCH \in Seq(Renamed)
      /\ AL_tail = Advance(AL_head, AL_count, NumActive)
  BY DEF TypeOK, IInv
<1>3. n + m <= NumActive /\ n + m \in 0 .. NumActive
  BY <1>1, <1>2, ALSizes DEF Dispatch, stall_dispatch
<1>4. /\ AL' = [x \in ALIndex |->
                  IF \E k \in 1 .. m : x = SlotAt(AL_tail, k - 1, NumActive)
                    THEN DISPATCH[CHOOSE k \in 1 .. m : x = SlotAt(AL_tail, k - 1, NumActive)]
                    ELSE AL[x]]
      /\ AL_tail' = Advance(AL_tail, m, NumActive) /\ AL_count' = n + m /\ DISPATCH' = << >>
      /\ UNCHANGED <<map_vars, fl_vars, AL_head, branch_vars, rename_bundle>>
  BY DEF Dispatch
<1>5. AL' \in [ALIndex -> Renamed] /\ InFlight' = w
  BY DispatchFlight
<1>6. AL_tail' = Advance(AL_head', AL_count', NumActive)
  <2>1. m \in 0 .. NumActive
    BY <1>1, <1>3, ALSizes
  <2>2. Advance(Advance(AL_head, n, NumActive), m, NumActive) = Advance(AL_head, n + m, NumActive)
    BY <2>1, <1>2, <1>3, ALSizes, AdvanceAdvance
  <2> QED
    BY <2>2, <1>2, <1>4
<1>7. PRF_ready' = [p \in PhysReg |->
                      IF \E k \in 1 .. m : DISPATCH[k].dst # None /\ DISPATCH[k].phys_reg = p
                        THEN \E k \in 1 .. m : DISPATCH[k].phys_reg = p /\ DISPATCH[k].vp_pred
                        ELSE PRF_ready[p]]
  BY DEF Dispatch
<1>8. TypeOK'
  <2>1. AL_tail' \in Pointer(NumActive)
    BY <1>2, <1>3, <1>4, <1>6, ALSizes, PointerType
  <2>2. PRF_ready' \in [PhysReg -> BOOLEAN]
    BY <1>7 DEF IInv, TypeOK
  <2>3. << >> \in Seq(Renamed)
    OBVIOUS
  <2> QED
    BY <1>1, <1>3, <1>4, <1>5, <2>1, <2>2, <2>3 DEF TypeOK, map_vars, fl_vars, branch_vars
<1>9. Quiet(w, w)
  BY DEF Quiet
<1>10. Entries(w, n + m)
  BY <1>1 DEF IInv, Entries
<1>11. Ready(w, n + m, AMT, PRF_ready')
  <2>1. D(w, Len(w)) <= FLSize
    BY <1>1, OrderFits DEF IInv
  <2>2. Taken(w, FL, FL_tail) /\ Conserved(AMT, FL) /\ FL_tail \in Pointer(FLSize)
    BY DEF IInv, Order, TypeOK
  <2>3. /\ AMT \in [LogReg -> PhysReg] /\ PRF_ready \in [PhysReg -> BOOLEAN]
        /\ \A j \in 1 .. Len(w) : w[j] \in Renamed
    BY <1>1, WindowType DEF TypeOK
  <2>4. \A j \in 1 .. Len(w) : w[j].phys_reg \in PhysReg
    BY <2>3 DEF Renamed
  <2> HIDE DEF w, m, n
  <2>5. \A i, j \in 1 .. Len(w) : w[i].dst # None /\ w[j].dst # None /\ w[i].phys_reg = w[j].phys_reg => i = j
    BY <1>1, <2>1, <2>2, TakenDistinct
  <2>6. \A j \in 1 .. Len(w), r \in LogReg : w[j].dst # None => AMT[r] # w[j].phys_reg
    BY <1>1, <2>1, <2>2, TakenDistinct
  <2>7. \A k \in 1 .. m : n + k \in 1 .. Len(w) /\ w[n + k] = DISPATCH[k] /\ n + k > n
    BY <1>1
  <2>8. Ready(w, n, AMT, PRF_ready) /\ Entries(w, n)
    BY DEF IInv, w, n
  <2>9. ASSUME NEW r \in LogReg PROVE PRF_ready'[AMT[r]]
    <3>1. ~\E k \in 1 .. m : DISPATCH[k].dst # None /\ DISPATCH[k].phys_reg = AMT[r]
      BY <2>6, <2>7
    <3>2. PRF_ready[AMT[r]] /\ AMT[r] \in PhysReg
      BY <2>3, <2>8 DEF Ready
    <3> QED
      BY <3>1, <3>2, <1>7
  <2>10. ASSUME NEW j \in 1 .. Len(w), w[j].dst # None
         PROVE  PRF_ready'[w[j].phys_reg] <=> w[j].woken \/ (w[j].vp_pred /\ j <= n + m)
    <3>1. CASE j \in 1 .. n
      <4>1. ~\E k \in 1 .. m : DISPATCH[k].dst # None /\ DISPATCH[k].phys_reg = w[j].phys_reg
        <5> SUFFICES ASSUME NEW k \in 1 .. m, w[n + k].dst # None, w[n + k].phys_reg = w[j].phys_reg PROVE FALSE
          BY <2>7
        <5>1. n + k = j
          BY <2>5, <2>7, <2>10
        <5> QED
          BY <5>1, <3>1, <1>1
      <4>2. PRF_ready'[w[j].phys_reg] = PRF_ready[w[j].phys_reg]
        BY <4>1, <1>7, <2>4
      <4>3. PRF_ready[w[j].phys_reg] <=> w[j].woken \/ w[j].vp_pred
        BY <2>8, <2>10, <3>1, <1>1 DEF Ready
      <4>4. j <= n + m
        BY <3>1, <1>1
      <4> QED
        BY <4>2, <4>3, <4>4
    <3>2. CASE j - n \in 1 .. m /\ n + (j - n) = j
      <4> DEFINE i == j - n
      <4>1. i \in 1 .. m /\ n + i = j /\ w[j] = DISPATCH[i] /\ j > n /\ j <= n + m
        <5>1. w[n + i] = DISPATCH[i]
          BY <3>2, <2>7
        <5> QED
          BY <5>1, <3>2, <1>1
      <4> HIDE DEF i
      <4>2. ~w[j].woken
        BY <4>1, <2>8 DEF Entries
      <4>3. PRF_ready'[w[j].phys_reg] = \E k \in 1 .. m : DISPATCH[k].phys_reg = w[j].phys_reg /\ DISPATCH[k].vp_pred
        <5>1. \E k \in 1 .. m : DISPATCH[k].dst # None /\ DISPATCH[k].phys_reg = w[j].phys_reg
          BY <4>1, <2>10
        <5> QED
          BY <5>1, <1>7, <2>4
      <4>4. (\E k \in 1 .. m : DISPATCH[k].phys_reg = w[j].phys_reg /\ DISPATCH[k].vp_pred) <=> w[j].vp_pred
        <5>1. ASSUME NEW k \in 1 .. m, DISPATCH[k].phys_reg = w[j].phys_reg, DISPATCH[k].vp_pred
              PROVE  w[j].vp_pred
          <6>1. w[n + k].dst # None
            BY <5>1, <2>7, <2>8 DEF Entries
          <6>2. n + k = j
            BY <5>1, <6>1, <2>5, <2>7, <2>10
          <6> QED
            BY <5>1, <6>2, <2>7
        <5> QED
          BY <5>1, <4>1
      <4> QED
        BY <4>1, <4>2, <4>3, <4>4
    <3> QED
      BY <1>1, <3>1, <3>2, FlightPlace
  <2> QED
    BY <2>9, <2>10 DEF Ready
<1> HIDE DEF w, m, n
<1>12. InFlight' \in Window /\ Quiet(InFlight', InFlight)
  BY <1>1, <1>5, <1>9 DEF w
<1>13. Entries(InFlight', AL_count') /\ Ready(InFlight', AL_count', AMT, PRF_ready')
  BY <1>4, <1>5, <1>10, <1>11 DEF w
<1> QED
  BY <1>4, <1>6, <1>8, <1>12, <1>13, QuietInv

(* Renaming one instruction of the bundle: the window grows by it. There   *)
(* is a register and, for a branch, a checkpoint, because the bundle was   *)
(* let in only when all of it fitted.                                      *)
LEMMA RenameInsnInv ==
  ASSUME IInv, RenameInsn
  PROVE  IInv'
<1> DEFINE w    == InFlight
           v    == InFlight'
           i    == Head(rename_bundle)
           id   == CHOOSE b \in BranchID \ GBM : \A c \in BranchID \ GBM : b <= c
           reg  == Free(1)
           dest == i.dst # None
           e    == [dst |-> i.dst, phys_reg |-> IF dest THEN reg ELSE 0,
                    checkpoint |-> i.checkpoint, vp_pred |-> i.vp_pred,
                    at_retire |-> i.at_retire,
                    branch_ID |-> IF i.checkpoint THEN id ELSE 0, branch_mask |-> GBM,
                    woken |-> FALSE, completed |-> FALSE, flags |-> {}]
<1>1. TypeOK /\ w \in Window /\ Len(w) = AL_count + Len(DISPATCH) /\ AL_count \in Nat /\ Len(w) \in Nat
  BY InFlightType, WindowType DEF IInv
<1>2. /\ Order(w, FL, FL_head, FL_tail, FL_count, checkpoints) /\ Maps(w, AMT, RMT, checkpoints)
      /\ Masks(w, GBM, checkpoint_count, checkpoints) /\ Conserved(AMT, FL)
      /\ Entries(w, AL_count) /\ Ready(w, AL_count, AMT, PRF_ready)
      /\ AL_tail = Advance(AL_head, AL_count, NumActive) /\ BundleFits
  BY DEF IInv
<1>3. /\ IF dest THEN /\ RMT' = [RMT EXCEPT ![i.dst] = reg]
                      /\ PRF_ready' = [PRF_ready EXCEPT ![reg] = FALSE]
                      /\ FL_head' = Advance(FL_head, 1, FLSize)
                      /\ FL_count' = FL_count - 1
                 ELSE UNCHANGED <<RMT, PRF_ready, FL_head, FL_count>>
      /\ IF i.checkpoint THEN /\ GBM' = GBM \cup {id}
                              /\ checkpoint_count' = checkpoint_count + 1
                              /\ checkpoints' = [checkpoints EXCEPT ![id] =
                                   [shadow_RMT |-> RMT', FL_head |-> FL_head', GBM |-> GBM']]
                         ELSE UNCHANGED <<GBM, checkpoint_count, checkpoints>>
      /\ DISPATCH' = Append(DISPATCH, e)
      /\ rename_bundle # << >> /\ rename_bundle' = Tail(rename_bundle)
      /\ UNCHANGED <<AMT, FL, FL_tail, AL, AL_head, AL_tail, AL_count>>
  BY DEF RenameInsn, NewCheckpoint, branch_vars, al_vars
<1>4. i \in Insn /\ i.dst \in LogReg \cup {None} /\ i.checkpoint \in BOOLEAN /\ i.vp_pred \in BOOLEAN
      /\ i.at_retire \in BOOLEAN /\ (i.vp_pred => dest)
  <2>1. i \in Insn
    BY <1>1, <1>3, HeadTailProperties DEF TypeOK
  <2> HIDE DEF i
  <2> QED
    BY <2>1 DEF Insn
<1>5. /\ rename_bundle' \in Seq(Insn)
      /\ dest => FL_count > 0
      /\ i.checkpoint => checkpoint_count < NumBranches
      /\ BundleFits'
  <2> DEFINE b == rename_bundle
  <2>1. b \in Seq(Insn) /\ b # << >>
    BY <1>1, <1>3 DEF TypeOK
  <2>2. FL_count \in Int /\ checkpoint_count \in Int /\ NumBranches \in Int
    BY <1>1, Sizes, RenamerAssumption DEF TypeOK
  <2>3. /\ Tail(b) \in Seq(Insn)
        /\ bundle_dst(b) \in Nat /\ bundle_branch(b) \in Nat
        /\ bundle_dst(Tail(b)) = bundle_dst(b) - (IF dest THEN 1 ELSE 0)
        /\ bundle_branch(Tail(b)) = bundle_branch(b) - (IF i.checkpoint THEN 1 ELSE 0)
    BY <2>1, BundleNeeds
  <2>4. bundle_dst(Tail(b)) \in Nat /\ bundle_branch(Tail(b)) \in Nat
    BY <2>3, BundleNeeds
  <2>5. bundle_dst(b) <= FL_count /\ bundle_branch(b) <= NumBranches - checkpoint_count
    BY <1>2 DEF BundleFits
  <2>6. FL_count' = FL_count - (IF dest THEN 1 ELSE 0)
        /\ checkpoint_count' = checkpoint_count + (IF i.checkpoint THEN 1 ELSE 0)
    BY <1>3, <2>2
  <2>7. rename_bundle' = Tail(b)
    BY <1>3
  <2> HIDE DEF b, dest, i
  <2>8. dest => FL_count > 0
    BY <2>2, <2>3, <2>4, <2>5
  <2>9. i.checkpoint => checkpoint_count < NumBranches
    BY <2>2, <2>3, <2>4, <2>5
  <2>10. BundleFits'
    BY <2>2, <2>3, <2>4, <2>5, <2>6, <2>7 DEF BundleFits
  <2> QED
    BY <2>3, <2>7, <2>8, <2>9, <2>10
<1>6. i.checkpoint => id \in BranchID /\ id \notin GBM
  <2> SUFFICES ASSUME i.checkpoint PROVE id \in BranchID \ GBM
    OBVIOUS
  <2> DEFINE S == BranchID \ GBM
  <2>1. GBM \subseteq BranchID /\ checkpoint_count = Cardinality(GBM) /\ checkpoint_count < NumBranches
    BY <1>1, <1>2, <1>5 DEF TypeOK, Masks
  <2>2. IsFiniteSet(BranchID) /\ Cardinality(BranchID) = NumBranches
    <3>1. NumBranches - 1 \in Int /\ 0 <= NumBranches - 1 /\ (NumBranches - 1) - 0 + 1 = NumBranches
      BY RenamerAssumption
    <3> QED
      BY <3>1, FS_Interval DEF BranchID
  <2>3. S # {} /\ IsFiniteSet(S) /\ S \in SUBSET Int
    <3>1. S # {}
      <4> SUFFICES ASSUME S = {} PROVE FALSE
        OBVIOUS
      <4>1. GBM = BranchID
        BY <2>1
      <4> QED
        BY <4>1, <2>1, <2>2, RenamerAssumption
    <3>2. IsFiniteSet(S)
      BY <2>2, FS_Subset
    <3> QED
      BY <3>1, <3>2, RenamerAssumption DEF BranchID
  <2> HIDE DEF S
  <2>4. \E p \in S : \A q \in S : p <= q
    BY <2>3, LeastExists
  <2> QED
    BY <2>4 DEF S
<1>7. SlotAt(FL_head, 0, FLSize) \in FLIndex /\ reg = FL[SlotAt(FL_head, 0, FLSize)] /\ reg \in PhysReg
  <2>1. SlotAt(FL_head, 0, FLSize) \in FLIndex
    BY <1>1, Sizes, PointerType DEF TypeOK
  <2>2. reg = FL[SlotAt(FL_head, 0, FLSize)]
    BY DEF Free
  <2> QED
    BY <1>1, <2>1, <2>2 DEF TypeOK
<1> HIDE DEF i, id, reg, dest
<1>8. /\ e \in Renamed /\ e.dst = i.dst /\ e.phys_reg = (IF dest THEN reg ELSE 0)
      /\ e.checkpoint = i.checkpoint /\ e.branch_ID = (IF i.checkpoint THEN id ELSE 0)
      /\ e.branch_mask = GBM /\ ~e.woken /\ ~e.completed /\ e.vp_pred = i.vp_pred
  <2>1. 0 \in PhysReg /\ 0 \in BranchID
    BY RenamerAssumption DEF PhysReg, BranchID
  <2>2. GBM \subseteq BranchID
    BY <1>1 DEF TypeOK
  <2> QED
    BY <1>4, <1>6, <1>7, <2>1, <2>2 DEF Renamed
<1> HIDE DEF e
<1>9. v \in Window /\ Grown(v, w) /\ e = v[Len(v)] /\ DISPATCH' \in Seq(Renamed)
  <2>1. /\ AL \in [ALIndex -> Renamed] /\ AL_head \in Pointer(NumActive)
        /\ AL_count \in 0 .. NumActive /\ DISPATCH \in Seq(Renamed)
    BY <1>1 DEF TypeOK
  <2>2. w = Flight(AL, AL_head, AL_count, DISPATCH) /\ v = Flight(AL, AL_head, AL_count, Append(DISPATCH, e))
    BY <1>3, InFlightIs
  <2> HIDE DEF v, w
  <2> QED
    BY <1>3, <1>8, <2>1, <2>2, FlightAppend
<1>10. Len(v) = Len(w) + 1 /\ (\A k \in 1 .. Len(w) : v[k] = w[k]) /\ (LiveIn(v, Len(v)) <=> i.checkpoint)
  <2>1. v[Len(v)].checkpoint = i.checkpoint /\ ~v[Len(v)].completed
    BY <1>8, <1>9
  <2> HIDE DEF v, w
  <2> QED
    BY <1>9, <2>1 DEF Grown, LiveIn
<1> HIDE DEF v, w
<1>11. \A k \in 1 .. Len(w) : LiveIn(w, k) => checkpoints'[w[k].branch_ID] = checkpoints[w[k].branch_ID]
  <2> SUFFICES ASSUME NEW k \in 1 .. Len(w), LiveIn(w, k)
               PROVE  checkpoints'[w[k].branch_ID] = checkpoints[w[k].branch_ID]
    OBVIOUS
  <2>1. w[k].branch_ID \in GBM
    BY <1>2 DEF Masks, IDs
  <2>2. w[k].branch_ID \in BranchID /\ checkpoints \in [BranchID -> Checkpoints]
    BY <1>1, <2>1 DEF TypeOK
  <2>3. CASE i.checkpoint
    <3>1. w[k].branch_ID # id
      BY <1>6, <2>1, <2>3
    <3> QED
      BY <1>3, <2>2, <2>3, <3>1
  <2>4. CASE ~i.checkpoint
    BY <1>3, <2>4
  <2> QED
    BY <2>3, <2>4
<1>12. SavedAlike(w, checkpoints, checkpoints')
  BY <1>11 DEF SavedAlike
<1>13. i.checkpoint => checkpoints'[e.branch_ID] = [shadow_RMT |-> RMT', FL_head |-> FL_head', GBM |-> GBM']
  <2> SUFFICES ASSUME i.checkpoint
               PROVE  checkpoints'[e.branch_ID] = [shadow_RMT |-> RMT', FL_head |-> FL_head', GBM |-> GBM']
    OBVIOUS
  <2>1. e.branch_ID = id /\ id \in BranchID /\ checkpoints \in [BranchID -> Checkpoints]
    BY <1>1, <1>6, <1>8 DEF TypeOK
  <2> QED
    BY <1>3, <2>1
<1>14. i.checkpoint => /\ checkpoints'[e.branch_ID].shadow_RMT = RMT'
                       /\ checkpoints'[e.branch_ID].FL_head = FL_head'
                       /\ checkpoints'[e.branch_ID].GBM = GBM'
  BY <1>13
<1>15. Order(v, FL, FL_head', FL_tail, FL_count', checkpoints')
  <2>1. FL_head' = (IF e.dst # None THEN Advance(FL_head, 1, FLSize) ELSE FL_head)
        /\ FL_count' = (IF e.dst # None THEN FL_count - 1 ELSE FL_count)
    BY <1>3, <1>8 DEF dest
  <2>2. e.dst # None => FL_count > 0 /\ e.phys_reg = FL[SlotAt(FL_head, 0, FLSize)]
    BY <1>5, <1>7, <1>8 DEF dest
  <2>3. FL_tail \in Pointer(FLSize)
    BY <1>1 DEF TypeOK
  <2>4. LiveIn(v, Len(v)) => checkpoints'[e.branch_ID].FL_head = FL_head'
    BY <1>10, <1>14
  <2> DEFINE head2 == FL_head'
             cq == checkpoints'
  <2>5. head2 = IF e.dst # None THEN Advance(FL_head, 1, FLSize) ELSE FL_head
    BY <2>1
  <2>6. (LiveIn(v, Len(v)) => cq[e.branch_ID].FL_head = head2) /\ SavedAlike(w, checkpoints, cq)
    BY <1>12, <2>4
  <2> DEFINE count2 == FL_count'
  <2>7. count2 = IF e.dst # None THEN FL_count - 1 ELSE FL_count
    BY <2>1
  <2> HIDE DEF head2, cq, count2
  <2>8. Order(v, FL, head2, FL_tail, count2, cq)
    BY <1>1, <1>2, <1>9, <2>2, <2>3, <2>5, <2>6, <2>7, OrderAppend
  <2> QED
    BY <2>8 DEF head2, cq, count2
<1>16. Maps(v, AMT, RMT', checkpoints')
  <2>1. RMT' = IF e.dst # None THEN [RMT EXCEPT ![e.dst] = e.phys_reg] ELSE RMT
    BY <1>3, <1>8 DEF dest
  <2>2. LiveIn(v, Len(v)) => checkpoints'[e.branch_ID].shadow_RMT = RMT'
    BY <1>10, <1>14
  <2> DEFINE rmt2 == RMT'
             cq == checkpoints'
  <2>3. /\ rmt2 = IF e.dst # None THEN [RMT EXCEPT ![e.dst] = e.phys_reg] ELSE RMT
        /\ LiveIn(v, Len(v)) => cq[e.branch_ID].shadow_RMT = rmt2
        /\ SavedAlike(w, checkpoints, cq)
    BY <1>12, <2>1, <2>2
  <2> HIDE DEF rmt2, cq
  <2>4. Maps(v, AMT, rmt2, cq)
    BY <1>1, <1>2, <1>9, <2>3, MapsAppend
  <2> QED
    BY <2>4 DEF rmt2, cq
<1>17. Masks(v, GBM', checkpoint_count', checkpoints')
  <2>1. e.checkpoint => e.branch_ID \notin GBM /\ checkpoints'[e.branch_ID].GBM = GBM'
    BY <1>6, <1>8, <1>14
  <2>2. GBM' = (IF e.checkpoint THEN GBM \cup {e.branch_ID} ELSE GBM)
        /\ checkpoint_count' = (IF e.checkpoint THEN checkpoint_count + 1 ELSE checkpoint_count)
    BY <1>3, <1>8
  <2> DEFINE gbm2 == GBM'
             cq == checkpoints'
             cc2 == checkpoint_count'
  <2>3. /\ Forked(e, GBM, gbm2, checkpoint_count, cc2)
        /\ e.checkpoint => cq[e.branch_ID].GBM = gbm2
        /\ MasksAlike(w, checkpoints, cq)
    BY <1>11, <2>1, <2>2 DEF MasksAlike, Forked
  <2> HIDE DEF gbm2, cq, cc2
  <2>4. Masks(v, gbm2, cc2, cq)
    BY <1>1, <1>2, <1>8, <1>9, <2>3, MasksAppend
  <2> QED
    BY <2>4 DEF gbm2, cq, cc2
<1>18. Entries(v, AL_count)
  <2>1. ASSUME NEW k \in 1 .. Len(v)
        PROVE  /\ v[k].vp_pred => v[k].dst # None
               /\ v[k].completed /\ v[k].dst # None => v[k].woken \/ v[k].at_retire
               /\ k > AL_count => ~v[k].woken /\ ~v[k].completed
    <3>1. CASE k \in 1 .. Len(w)
      BY <3>1, <1>2, <1>10 DEF Entries
    <3>2. CASE k = Len(v)
      BY <3>2, <1>4, <1>8, <1>9 DEF dest
    <3> QED
      BY <1>1, <1>10, <3>1, <3>2
  <2> QED
    BY <2>1 DEF Entries
<1>19. Ready(v, AL_count, AMT, PRF_ready')
  <2>1. PRF_ready \in [PhysReg -> BOOLEAN] /\ AMT \in [LogReg -> PhysReg] /\ FL_tail \in Pointer(FLSize)
    BY <1>1 DEF TypeOK
  <2>2. ASSUME NEW p \in PhysReg, dest => p # reg
        PROVE  PRF_ready'[p] = PRF_ready[p]
    BY <1>3, <2>1, <2>2
  <2>3. ASSUME NEW r \in LogReg PROVE PRF_ready'[AMT[r]]
    <3>1. AMT[r] # reg
      BY <1>2, <1>7 DEF Conserved
    <3> QED
      BY <1>2, <2>1, <2>2, <3>1 DEF Ready
  <2>4. ASSUME NEW k \in 1 .. Len(w), w[k].dst # None, dest PROVE w[k].phys_reg # reg
    <3>1. /\ D(w, Len(w)) \in 0 .. FLSize /\ FL_head = HeadAfter(FL_tail, D(w, Len(w)))
          /\ FL_count = FLSize - D(w, Len(w)) /\ Taken(w, FL, FL_tail)
      BY <1>1, <1>2, OrderFits DEF Order
    <3>2. D(w, Len(w)) \in 0 .. FLSize - 1 /\ D(w, Len(w)) < FLSize /\ D(w, Len(w)) <= FLSize
      BY <3>1, <2>4, <1>5, Sizes
    <3>3. reg = FL[SlotAt(FL_tail, D(w, Len(w)), FLSize)]
      BY <1>7, <2>1, <3>1, <3>2, HeadAfterStep
    <3> QED
      BY <1>1, <1>2, <2>1, <2>4, <3>1, <3>2, <3>3, TakenDistinct
  <2>5. ASSUME NEW k \in 1 .. Len(v), v[k].dst # None
        PROVE  PRF_ready'[v[k].phys_reg] <=> v[k].woken \/ (v[k].vp_pred /\ k <= AL_count)
    <3>1. CASE k \in 1 .. Len(w)
      <4>1. v[k] = w[k] /\ w[k].phys_reg \in PhysReg
        <5>1. w[k] \in Renamed
          BY <1>1, <3>1, WindowType
        <5> QED
          BY <5>1, <1>10, <3>1 DEF Renamed
      <4>2. dest => w[k].phys_reg # reg
        BY <2>4, <2>5, <3>1, <4>1
      <4> QED
        BY <1>2, <2>2, <2>5, <3>1, <4>1, <4>2 DEF Ready
    <3>2. CASE k = Len(v)
      <4>1. v[k] = e /\ dest /\ e.phys_reg = reg /\ ~(k <= AL_count)
        <5>1. v[k] = e /\ dest
          BY <3>2, <1>8, <1>9, <2>5 DEF dest
        <5>2. Len(DISPATCH) \in Nat
          BY <1>1, InFlightType
        <5> QED
          BY <5>1, <5>2, <3>2, <1>1, <1>8, <1>10
      <4> QED
        BY <1>3, <1>7, <1>8, <2>1, <4>1
    <3> QED
      BY <1>1, <1>10, <3>1, <3>2
  <2> QED
    BY <2>3, <2>5 DEF Ready
<1>20. TypeOK'
  <2>1. RMT' \in [LogReg -> PhysReg] /\ PRF_ready' \in [PhysReg -> BOOLEAN]
    <3>1. RMT \in [LogReg -> PhysReg] /\ PRF_ready \in [PhysReg -> BOOLEAN]
      BY <1>1 DEF TypeOK
    <3> QED
      BY <3>1, <1>3, <1>7
  <2>2. FL_head' \in Pointer(FLSize)
    <3>1. FL_head \in Pointer(FLSize)
      BY <1>1 DEF TypeOK
    <3>2. Advance(FL_head, 1, FLSize) \in Pointer(FLSize)
      BY <3>1, Sizes, PointerType
    <3> QED
      BY <3>1, <3>2, <1>3
  <2>3. FL_count' \in 0 .. FLSize
    BY <1>15 DEF Order
  <2>4. GBM' \subseteq BranchID
    BY <1>1, <1>3, <1>6 DEF TypeOK
  <2>5. checkpoint_count' \in 0 .. NumBranches
    <3>1. checkpoint_count \in 0 .. NumBranches /\ NumBranches \in Nat
      BY <1>1, RenamerAssumption DEF TypeOK
    <3> QED
      BY <1>3, <1>5, <3>1
  <2>6. checkpoints' \in [BranchID -> Checkpoints]
    <3>1. checkpoints \in [BranchID -> Checkpoints]
      BY <1>1 DEF TypeOK
    <3>2. [shadow_RMT |-> RMT', FL_head |-> FL_head', GBM |-> GBM'] \in Checkpoints
      BY <2>1, <2>2, <2>4 DEF Checkpoints
    <3> QED
      BY <3>1, <3>2, <1>3
  <2> QED
    BY <1>1, <1>3, <1>5, <1>9, <2>1, <2>2, <2>3, <2>4, <2>5, <2>6 DEF TypeOK
<1>21. /\ Order(v, FL', FL_head', FL_tail', FL_count', checkpoints')
       /\ Maps(v, AMT', RMT', checkpoints') /\ Conserved(AMT', FL')
       /\ Entries(v, AL_count') /\ Ready(v, AL_count', AMT', PRF_ready')
       /\ AL_tail' = Advance(AL_head', AL_count', NumActive)
  BY <1>2, <1>3, <1>15, <1>16, <1>18, <1>19
<1> QED
  BY <1>5, <1>17, <1>20, <1>21 DEF IInv, v

(* A branch that was predicted correctly: its bit goes, and all else stays *)
(* as it is.                                                               *)
LEMMA ResolveCorrectInv ==
  ASSUME IInv, NEW k \in 1 .. AL_count, ResolveCorrect(k)
  PROVE  IInv'
<1> DEFINE w == InFlight
           v == InFlight'
           x == AL_index(k)
           b == w[k].branch_ID
<1>1. /\ TypeOK /\ w \in Window /\ k \in 1 .. Len(w) /\ w[k] = AL[x] /\ Len(w) \in Nat
      /\ Len(w) = AL_count + Len(DISPATCH)
  BY InFlightType, WindowType DEF IInv
<1>2. /\ Order(w, FL, FL_head, FL_tail, FL_count, checkpoints) /\ Maps(w, AMT, RMT, checkpoints)
      /\ Masks(w, GBM, checkpoint_count, checkpoints) /\ Conserved(AMT, FL)
      /\ Entries(w, AL_count) /\ Ready(w, AL_count, AMT, PRF_ready)
      /\ AL_tail = Advance(AL_head, AL_count, NumActive) /\ BundleFits
  BY DEF IInv
<1>3. \A j \in 1 .. Len(w) : w[j] \in Renamed
  BY <1>1, WindowType
<1>4. w[k] \in Renamed /\ b \in BranchID /\ LiveIn(w, k)
      /\ (w[k].dst # None => w[k].woken \/ w[k].at_retire)
  BY <1>1, <1>3 DEF ResolveCorrect, Executed, LiveIn, Renamed
<1>5. /\ GBM' = GBM \ {b}
      /\ checkpoints' = [c \in BranchID |-> [checkpoints[c] EXCEPT !.GBM = @ \ {b}]]
      /\ checkpoint_count' = checkpoint_count - 1
      /\ AL' = ClearedAL(AL, b, x) /\ DISPATCH' = ClearedDispatch(DISPATCH, b)
      /\ UNCHANGED <<RMT, AMT, FL, FL_head, FL_tail, FL_count, AL_head, AL_tail, AL_count,
                     PRF_ready, rename_bundle>>
  BY <1>1 DEF ResolveCorrect, ClearedAL, ClearedDispatch, map_vars, fl_vars
<1> HIDE DEF b
<1>6. AL' \in [ALIndex -> Renamed] /\ DISPATCH' \in Seq(Renamed) /\ Cleared(v, w, k, b)
      /\ v \in Window /\ Len(v) = Len(w)
  <2> DEFINE bl == AL'
             d2 == DISPATCH'
  <2>1. /\ AL \in [ALIndex -> Renamed] /\ AL_head \in Pointer(NumActive)
        /\ AL_count \in 0 .. NumActive /\ DISPATCH \in Seq(Renamed)
        /\ x = SlotAt(AL_head, k - 1, NumActive)
    BY <1>1 DEF TypeOK, AL_index
  <2>2. w = Flight(AL, AL_head, AL_count, DISPATCH) /\ v = Flight(bl, AL_head, AL_count, d2)
    BY <1>5, InFlightIs
  <2>3. bl = ClearedAL(AL, b, x) /\ d2 = ClearedDispatch(DISPATCH, b)
    BY <1>5
  <2> HIDE DEF bl, d2, x, w, v
  <2>4. bl \in [ALIndex -> Renamed] /\ d2 \in Seq(Renamed) /\ Len(d2) = Len(DISPATCH)
        /\ Cleared(v, w, k, b)
    BY <1>4, <2>1, <2>2, <2>3, FlightClear
  <2>5. v \in Window /\ Len(v) = AL_count + Len(d2)
    BY <2>1, <2>2, <2>4, FlightType
  <2> QED
    BY <1>1, <2>4, <2>5 DEF bl, d2
<1> HIDE DEF v, w, x
<1>7. ASSUME NEW j \in 1 .. Len(w)
      PROVE  /\ v[j].dst = w[j].dst /\ v[j].phys_reg = w[j].phys_reg /\ v[j].branch_ID = w[j].branch_ID
             /\ v[j].checkpoint = w[j].checkpoint /\ v[j].vp_pred = w[j].vp_pred
             /\ v[j].at_retire = w[j].at_retire /\ v[j].woken = w[j].woken
             /\ v[j].branch_mask = w[j].branch_mask \ {b}
             /\ v[j].completed <=> w[j].completed \/ j = k
  <2> DEFINE r == clear_bit(w[j], b)
  <2>1. w[j] \in Renamed /\ v[j] = ClearedEntry(w[j], b, j = k)
    BY <1>3, <1>6 DEF Cleared
  <2>2. /\ r \in Renamed /\ r.branch_mask = w[j].branch_mask \ {b}
        /\ r.dst = w[j].dst /\ r.phys_reg = w[j].phys_reg /\ r.branch_ID = w[j].branch_ID
        /\ r.checkpoint = w[j].checkpoint /\ r.vp_pred = w[j].vp_pred
        /\ r.at_retire = w[j].at_retire /\ r.woken = w[j].woken /\ r.completed = w[j].completed
    BY <2>1 DEF clear_bit, Renamed
  <2>3. v[j] = [r EXCEPT !.completed = @ \/ j = k]
    BY <2>1 DEF ClearedEntry
  <2> HIDE DEF r
  <2>4. /\ v[j].dst = r.dst /\ v[j].phys_reg = r.phys_reg /\ v[j].branch_ID = r.branch_ID
        /\ v[j].checkpoint = r.checkpoint /\ v[j].vp_pred = r.vp_pred
        /\ v[j].at_retire = r.at_retire /\ v[j].woken = r.woken /\ v[j].branch_mask = r.branch_mask
        /\ v[j].completed <=> r.completed \/ j = k
    BY <2>2, <2>3 DEF Renamed
  <2> QED
    BY <2>2, <2>4
<1>8. \A c \in BranchID : /\ checkpoints'[c].shadow_RMT = checkpoints[c].shadow_RMT
                          /\ checkpoints'[c].FL_head = checkpoints[c].FL_head
                          /\ checkpoints'[c].GBM = checkpoints[c].GBM \ {b}
                          /\ checkpoints'[c] \in Checkpoints
  <2> SUFFICES ASSUME NEW c \in BranchID
               PROVE  /\ checkpoints'[c].shadow_RMT = checkpoints[c].shadow_RMT
                      /\ checkpoints'[c].FL_head = checkpoints[c].FL_head
                      /\ checkpoints'[c].GBM = checkpoints[c].GBM \ {b}
                      /\ checkpoints'[c] \in Checkpoints
    OBVIOUS
  <2>1. checkpoints[c] \in Checkpoints
    BY <1>1 DEF TypeOK
  <2>2. checkpoints'[c] = [checkpoints[c] EXCEPT !.GBM = @ \ {b}]
    BY <1>5
  <2> QED
    BY <2>1, <2>2 DEF Checkpoints
<1>9. \A j \in 1 .. Len(w) : w[j].branch_ID \in BranchID
  BY <1>3 DEF Renamed
<1>10. SavedAlike(w, checkpoints, checkpoints') /\ Agree(v, w, Len(v))
  BY <1>6, <1>7, <1>8, <1>9 DEF SavedAlike, Agree, LiveIn
<1>11. Order(v, FL, FL_head, FL_tail, FL_count, checkpoints')
  <2> DEFINE cq == checkpoints'
  <2>1. Len(v) <= Len(w) /\ FL_tail \in Pointer(FLSize) /\ SavedAlike(w, checkpoints, cq)
    BY <1>1, <1>6, <1>10 DEF TypeOK
  <2>2. FL_head = HeadAfter(FL_tail, D(w, Len(v))) /\ FL_count = FLSize - D(w, Len(v))
    BY <1>2, <1>6 DEF Order
  <2> HIDE DEF cq
  <2>3. Order(v, FL, HeadAfter(FL_tail, D(w, Len(v))), FL_tail, FLSize - D(w, Len(v)), cq)
    BY <1>1, <1>2, <1>6, <1>10, <2>1, OrderKeep
  <2> QED
    BY <2>2, <2>3 DEF cq
<1>12. Maps(v, AMT, RMT, checkpoints')
  <2> DEFINE cq == checkpoints'
  <2>1. Len(v) <= Len(w) /\ SavedAlike(w, checkpoints, cq) /\ RMT = MapIn(w, AMT, Len(v))
    BY <1>1, <1>2, <1>6, <1>10 DEF Maps
  <2> HIDE DEF cq
  <2>2. Maps(v, AMT, MapIn(w, AMT, Len(v)), cq)
    BY <1>1, <1>2, <1>6, <1>10, <2>1, MapsKeep
  <2> QED
    BY <2>1, <2>2 DEF cq
<1>13. Masks(v, GBM', checkpoint_count', checkpoints')
  <2> DEFINE cq == checkpoints'
  <2>1. Unmarked(w, checkpoints, cq, b)
    BY <1>8, <1>9 DEF Unmarked
  <2>2. ResolvedIn(v, w, k, b)
    BY <1>7 DEF LiveIn, ResolvedIn
  <2>3. b = w[k].branch_ID
    BY DEF b
  <2> HIDE DEF cq
  <2>4. Masks(v, GBM \ {b}, checkpoint_count - 1, cq)
    BY <1>1, <1>2, <1>4, <1>6, <2>1, <2>2, <2>3, MasksResolve
  <2> QED
    BY <1>5, <2>4 DEF cq
<1>14. Entries(v, AL_count)
  <2>1. ~(k > AL_count)
    BY <1>1, InFlightType
  <2>2. \A j \in 1 .. Len(w) :
          /\ w[j].vp_pred => w[j].dst # None
          /\ w[j].completed /\ w[j].dst # None => w[j].woken \/ w[j].at_retire
          /\ j > AL_count => ~w[j].woken /\ ~w[j].completed
    BY <1>2 DEF Entries
  <2> QED
    BY <1>4, <1>6, <1>7, <2>1, <2>2 DEF Entries
<1>15. Ready(v, AL_count, AMT, PRF_ready)
  BY <1>2, <1>6, <1>7 DEF Ready
<1>16. TypeOK'
  <2>1. GBM' \in SUBSET BranchID
    BY <1>1, <1>5 DEF TypeOK
  <2>2. checkpoint_count' \in 0 .. NumBranches
    <3>1. checkpoint_count' = Cardinality(IDs(v, Len(v)))
      BY <1>13 DEF Masks
    <3>2. Len(v) \in 0 .. Len(v)
      BY <1>1, <1>6
    <3> QED
      BY <1>6, <3>1, <3>2, IDsType
  <2>3. checkpoints' \in [BranchID -> Checkpoints]
    BY <1>5, <1>8
  <2> QED
    BY <1>1, <1>5, <1>6, <2>1, <2>2, <2>3 DEF TypeOK
<1>17. /\ Order(v, FL', FL_head', FL_tail', FL_count', checkpoints')
       /\ Maps(v, AMT', RMT', checkpoints') /\ Conserved(AMT', FL')
       /\ Entries(v, AL_count') /\ Ready(v, AL_count', AMT', PRF_ready')
       /\ AL_tail' = Advance(AL_head', AL_count', NumActive)
  BY <1>2, <1>5, <1>11, <1>12, <1>14, <1>15
<1>18. BundleFits'
  <2>1. bundle_branch(rename_bundle) <= NumBranches - checkpoint_count
        /\ checkpoint_count \in Int /\ NumBranches \in Int
    BY <1>1, <1>2, RenamerAssumption DEF BundleFits, TypeOK
  <2>2. bundle_branch(rename_bundle) \in Nat
    BY <1>1, BundleNeeds DEF TypeOK
  <2> QED
    BY <1>2, <1>5, <2>1, <2>2 DEF BundleFits
<1> QED
  BY <1>13, <1>16, <1>17, <1>18 DEF IInv, v

(* resolve() computes from the branch's place in the circular list how     *)
(* many instructions it leaves in it: the branch and those before it.      *)
LEMMA CutCount ==
  ASSUME NEW head \in Pointer(NumActive), NEW k \in 1 .. NumActive,
         NEW x, x = SlotAt(head, k - 1, NumActive)
  PROVE  (IF x >= head.pos THEN x - head.pos + 1 ELSE NumActive - head.pos + x + 1) = k
BY ALSizes DEF SlotAt, Pointer

(* A branch that was mispredicted: it is the youngest that stays, and what *)
(* its checkpoint saved is what the lists, maps and masks are of those     *)
(* that stay.                                                              *)
LEMMA ResolveMispredictInv ==
  ASSUME IInv, NEW k \in 1 .. AL_count, ResolveMispredict(k)
  PROVE  IInv'
<1> DEFINE w == InFlight
           v == InFlight'
           x == AL_index(k)
           b == w[k].branch_ID
           e == [w[k] EXCEPT !.completed = TRUE]
<1>1. /\ TypeOK /\ w \in Window /\ k \in 1 .. Len(w) /\ w[k] = AL[x] /\ Len(w) \in Nat
      /\ Len(w) = AL_count + Len(DISPATCH) /\ AL_count \in Nat /\ k \in Nat
  BY InFlightType, WindowType DEF IInv
<1>2. /\ Order(w, FL, FL_head, FL_tail, FL_count, checkpoints) /\ Maps(w, AMT, RMT, checkpoints)
      /\ Masks(w, GBM, checkpoint_count, checkpoints) /\ Conserved(AMT, FL)
      /\ Entries(w, AL_count) /\ Ready(w, AL_count, AMT, PRF_ready)
  BY DEF IInv
<1>3. /\ AL \in [ALIndex -> Renamed] /\ AL_head \in Pointer(NumActive) /\ AL_count \in 0 .. NumActive
      /\ DISPATCH \in Seq(Renamed) /\ k \in 1 .. NumActive /\ k \in 0 .. NumActive
      /\ x = SlotAt(AL_head, k - 1, NumActive)
  BY <1>1, ALSizes DEF TypeOK, AL_index
<1>4. \A j \in 1 .. Len(w) : w[j] \in Renamed
  BY <1>1, WindowType
<1>5. w[k] \in Renamed /\ b \in BranchID /\ LiveIn(w, k)
      /\ (w[k].dst # None => w[k].woken \/ w[k].at_retire)
  BY <1>1, <1>4 DEF ResolveMispredict, Executed, LiveIn, Renamed
<1>6. AL_count' = k
  <2>1. AL_count' = IF x >= AL_head.pos THEN x - AL_head.pos + 1 ELSE NumActive - AL_head.pos + x + 1
    BY DEF ResolveMispredict
  <2> QED
    BY <2>1, <1>3, CutCount
<1>7. /\ RMT' = checkpoints[b].shadow_RMT /\ FL_head' = checkpoints[b].FL_head
      /\ FL_count' = FL_length(checkpoints[b].FL_head, FL_tail)
      /\ GBM' = checkpoints[b].GBM \ {b} /\ checkpoint_count' = Cardinality(GBM')
      /\ AL_tail' = Advance(AL_head, k, NumActive) /\ AL' = [AL EXCEPT ![x] = e] /\ DISPATCH' = << >>
      /\ rename_bundle = << >>
      /\ UNCHANGED <<AMT, FL, FL_tail, AL_head, PRF_ready, checkpoints, rename_bundle>>
  BY <1>1, <1>6 DEF ResolveMispredict, Idle
<1>8. e \in Renamed /\ e.dst = w[k].dst /\ e.phys_reg = w[k].phys_reg /\ e.branch_ID = w[k].branch_ID
      /\ e.completed /\ e.woken = w[k].woken /\ e.vp_pred = w[k].vp_pred /\ e.at_retire = w[k].at_retire
  BY <1>5 DEF Renamed
<1> HIDE DEF e, b
<1>9. AL' \in [ALIndex -> Renamed] /\ v \in Window /\ Len(v) = k
      /\ (\A j \in 1 .. k : v[j] = IF j = k THEN e ELSE w[j])
  <2> DEFINE bl == AL'
             u  == Flight(bl, AL_head, AL_count, DISPATCH)
  <2>1. bl \in [ALIndex -> Renamed] /\ EntrySet(bl, AL, x, e)
    BY <1>3, <1>7, <1>8 DEF EntrySet
  <2>2. w = Flight(AL, AL_head, AL_count, DISPATCH) /\ v = Flight(bl, AL_head, k, << >>)
    BY <1>6, <1>7, InFlightIs
  <2> HIDE DEF bl, x, w, v
  <2>3. v \in Window /\ Len(v) = k /\ \A j \in 1 .. k : v[j] = bl[SlotAt(AL_head, j - 1, NumActive)]
    BY <1>3, <2>1, <2>2, FlightAlone
  <2>4. \A j \in 1 .. AL_count : u[j] = bl[SlotAt(AL_head, j - 1, NumActive)]
    BY <1>3, <2>1, FlightType
  <2>5. Replaced(u, w, k, e)
    BY <1>3, <1>8, <2>1, <2>2, FlightUpdate
  <2> HIDE DEF u
  <2>6. \A j \in 1 .. k : j \in 1 .. AL_count /\ j \in 1 .. Len(w)
    BY <1>1
  <2> QED
    BY <2>1, <2>3, <2>4, <2>5, <2>6 DEF Replaced, bl
<1> HIDE DEF v, w, x
<1>10. \A j \in 1 .. k : j \in 1 .. Len(w)
  BY <1>1
<1>11. \A j \in 1 .. k :
         /\ v[j].dst = w[j].dst /\ v[j].phys_reg = w[j].phys_reg /\ v[j].branch_ID = w[j].branch_ID
         /\ v[j].woken = w[j].woken /\ v[j].vp_pred = w[j].vp_pred /\ v[j].at_retire = w[j].at_retire
         /\ LiveIn(v, j) => LiveIn(w, j)
  BY <1>8, <1>9 DEF LiveIn
<1>12. Len(v) <= Len(w) /\ Agree(v, w, Len(v)) /\ SavedAlike(w, checkpoints, checkpoints)
  BY <1>1, <1>9, <1>11 DEF Agree, SavedAlike
<1>13. Order(v, FL, FL_head', FL_tail, FL_count', checkpoints)
  <2>1. FL_tail \in Pointer(FLSize)
    BY <1>1 DEF TypeOK
  <2>2. D(w, k) \in 0 .. FLSize
        /\ Order(v, FL, HeadAfter(FL_tail, D(w, k)), FL_tail, FLSize - D(w, k), checkpoints)
    BY <1>1, <1>2, <1>9, <1>12, <2>1, OrderKeep
  <2>3. checkpoints[b].FL_head = HeadAfter(FL_tail, D(w, k))
    BY <1>1, <1>2, <1>5 DEF Order, HeadsSaved, b
  <2>4. FL_length(HeadAfter(FL_tail, D(w, k)), FL_tail) = FLSize - D(w, k)
    BY <2>1, <2>2, FL_lengthExact
  <2> QED
    BY <1>7, <2>2, <2>3, <2>4
<1>14. Maps(v, AMT, RMT', checkpoints)
  <2>1. Maps(v, AMT, MapIn(w, AMT, k), checkpoints)
    BY <1>1, <1>2, <1>9, <1>12, MapsKeep
  <2>2. checkpoints[b].shadow_RMT = MapIn(w, AMT, k)
    BY <1>1, <1>2, <1>5 DEF Maps, MapsSaved, b
  <2> QED
    BY <1>7, <2>1, <2>2
<1>15. Masks(v, GBM', checkpoint_count', checkpoints)
  <2> DEFINE gbm2 == GBM'
  <2>1. gbm2 = checkpoints[w[k].branch_ID].GBM \ {w[k].branch_ID}
    BY <1>7 DEF b
  <2>2. v[k].completed /\ v[k].branch_ID = w[k].branch_ID /\ \A j \in 1 .. k - 1 : v[j] = w[j]
    BY <1>1, <1>8, <1>9
  <2>3. checkpoint_count' = Cardinality(gbm2)
    BY <1>7
  <2> HIDE DEF gbm2
  <2>4. Masks(v, gbm2, Cardinality(gbm2), checkpoints)
    BY <1>1, <1>2, <1>5, <1>9, <2>1, <2>2, MasksPrefix
  <2> QED
    BY <2>3, <2>4 DEF gbm2
<1>16. Entries(v, k)
  <2>1. \A j \in 1 .. Len(w) :
          /\ w[j].vp_pred => w[j].dst # None
          /\ w[j].completed /\ w[j].dst # None => w[j].woken \/ w[j].at_retire
    BY <1>2 DEF Entries
  <2>2. \A j \in 1 .. k : ~(j > k)
    BY <1>1
  <2>3. \A j \in 1 .. k : v[j].completed /\ v[j].dst # None => v[j].woken \/ v[j].at_retire
    BY <1>5, <1>8, <1>9, <1>10, <2>1
  <2> QED
    BY <1>9, <1>10, <1>11, <2>1, <2>2, <2>3 DEF Entries
<1>17. Ready(v, k, AMT, PRF_ready)
  <2>1. \A j \in 1 .. k : j <= k /\ j <= AL_count
    BY <1>1
  <2>2. \A j \in 1 .. Len(w) : w[j].dst # None =>
          (PRF_ready[w[j].phys_reg] <=> w[j].woken \/ (w[j].vp_pred /\ j <= AL_count))
    BY <1>2 DEF Ready
  <2>3. \A r \in LogReg : PRF_ready[AMT[r]]
    BY <1>2 DEF Ready
  <2> QED
    BY <1>9, <1>10, <1>11, <2>1, <2>2, <2>3 DEF Ready
<1>18. TypeOK'
  <2>1. checkpoints[b] \in Checkpoints
    BY <1>1, <1>5 DEF TypeOK
  <2>2. RMT' \in [LogReg -> PhysReg] /\ FL_head' \in Pointer(FLSize) /\ GBM' \in SUBSET BranchID
    BY <1>7, <2>1 DEF Checkpoints
  <2>3. FL_count' \in 0 .. FLSize
    BY <1>13 DEF Order
  <2>4. checkpoint_count' \in 0 .. NumBranches
    <3>1. checkpoint_count' = Cardinality(IDs(v, Len(v)))
      BY <1>15 DEF Masks
    <3>2. Len(v) \in 0 .. Len(v)
      BY <1>1, <1>9
    <3> QED
      BY <1>9, <3>1, <3>2, IDsType
  <2>5. AL_tail' \in Pointer(NumActive)
    BY <1>3, <1>7, ALSizes, PointerType
  <2>6. << >> \in Seq(Renamed)
    OBVIOUS
  <2> QED
    BY <1>1, <1>3, <1>6, <1>7, <1>9, <2>2, <2>3, <2>4, <2>5, <2>6 DEF TypeOK
<1>19. /\ Order(v, FL', FL_head', FL_tail', FL_count', checkpoints')
       /\ Maps(v, AMT', RMT', checkpoints') /\ Masks(v, GBM', checkpoint_count', checkpoints')
       /\ Conserved(AMT', FL')
       /\ Entries(v, AL_count') /\ Ready(v, AL_count', AMT', PRF_ready')
       /\ AL_tail' = Advance(AL_head', AL_count', NumActive)
  BY <1>2, <1>6, <1>7, <1>13, <1>14, <1>15, <1>16, <1>17
<1>20. BundleFits'
  <2>1. bundle_dst(rename_bundle) = 0 /\ bundle_branch(rename_bundle) = 0
    BY <1>1, <1>7, BundleNeeds DEF TypeOK
  <2>2. FL_count' >= 0 /\ 0 <= NumBranches - checkpoint_count'
    <3>1. FL_count' \in 0 .. FLSize /\ checkpoint_count' \in 0 .. NumBranches
      BY <1>18 DEF TypeOK
    <3>2. \A i \in Nat : \A j \in 0 .. i : j >= 0 /\ 0 <= i - j
      OBVIOUS
    <3>3. FLSize \in Nat /\ NumBranches \in Nat
      BY Sizes, RenamerAssumption
    <3> QED
      BY <3>1, <3>2, <3>3
  <2> QED
    BY <1>7, <2>1, <2>2 DEF BundleFits
<1> QED
  BY <1>18, <1>19, <1>20 DEF IInv, v

(* The oldest instruction commits: it leaves the window, its register and  *)
(* the one it replaces change places between the architectural map and the *)
(* tail of the free list.                                                  *)
LEMMA RetireCommitInv ==
  ASSUME IInv, RetireCommit
  PROVE  IInv'
<1> DEFINE w == InFlight
           v == InFlight'
           a == AL_first
           n == AL_count
<1>1. /\ TypeOK /\ w \in Window /\ Len(w) \in Nat /\ Len(w) = n + Len(DISPATCH) /\ n \in Nat
      /\ Len(DISPATCH) \in Nat
  BY InFlightType, WindowType DEF IInv
<1>2. /\ Order(w, FL, FL_head, FL_tail, FL_count, checkpoints) /\ Maps(w, AMT, RMT, checkpoints)
      /\ Masks(w, GBM, checkpoint_count, checkpoints) /\ Conserved(AMT, FL)
      /\ Entries(w, n) /\ Ready(w, n, AMT, PRF_ready) /\ AL_tail = Advance(AL_head, n, NumActive)
  BY DEF IInv
<1>3. /\ AL \in [ALIndex -> Renamed] /\ AL_head \in Pointer(NumActive) /\ DISPATCH \in Seq(Renamed)
      /\ FL \in [FLIndex -> PhysReg] /\ FL_tail \in Pointer(FLSize)
      /\ AMT \in [LogReg -> PhysReg] /\ PRF_ready \in [PhysReg -> BOOLEAN]
      /\ n \in 0 .. NumActive
  BY <1>1 DEF TypeOK
<1>4. /\ n > 0 /\ a.completed /\ AMT' = CommittedAMT(a)
      /\ IF a.dst # None THEN /\ FL' = [FL EXCEPT ![FL_tail.pos] = AMT[a.dst]]
                              /\ FL_tail' = Advance(FL_tail, 1, FLSize)
                              /\ FL_count' = FL_count + 1
                         ELSE UNCHANGED <<FL, FL_tail, FL_count>>
      /\ PRF_ready' = IF a.dst # None /\ a.at_retire THEN [PRF_ready EXCEPT ![a.phys_reg] = TRUE]
                                                     ELSE PRF_ready
      /\ AL_head' = Advance(AL_head, 1, NumActive) /\ AL_count' = n - 1
      /\ rename_bundle = << >>
      /\ UNCHANGED <<RMT, FL_head, AL, AL_tail, GBM, checkpoint_count, checkpoints, rename_bundle, DISPATCH>>
  BY DEF RetireCommit, Idle, branch_vars, front_vars
<1>5. /\ AL_head' \in Pointer(NumActive) /\ n - 1 \in 0 .. NumActive /\ n \in 1 .. NumActive
      /\ Shifted(v, w) /\ w[1] = a /\ v \in Window
  <2> DEFINE head == AL_head'
  <2>1. n \in 1 .. NumActive
    BY <1>3, <1>4, ALSizes
  <2>2. w = Flight(AL, AL_head, n, DISPATCH) /\ v = Flight(AL, head, n - 1, DISPATCH)
    BY <1>4, InFlightIs
  <2>3. head = Advance(AL_head, 1, NumActive) /\ a = AL[AL_head.pos]
    BY <1>4 DEF AL_first
  <2> HIDE DEF v, w, n, a, head
  <2>4. /\ head \in Pointer(NumActive) /\ n - 1 \in 0 .. NumActive
        /\ Shifted(v, w) /\ w[1] = AL[AL_head.pos]
    BY <1>3, <2>1, <2>2, <2>3, FlightShift
  <2>5. v \in Window
    BY <1>3, <2>2, <2>4, FlightType
  <2> QED
    BY <2>1, <2>3, <2>4, <2>5 DEF head
<1>6. 1 \in 1 .. Len(w) /\ Len(w) > 0 /\ Len(w) = Len(v) + 1 /\ Len(v) \in Nat
      /\ \A k \in 1 .. Len(v) : v[k] = w[k + 1] /\ k + 1 \in 1 .. Len(w)
  <2>1. Len(v) \in Nat
    BY <1>5, WindowType
  <2> HIDE DEF v, w
  <2> QED
    BY <1>1, <1>4, <1>5, <2>1 DEF Shifted
<1>7. a \in Renamed /\ a.dst \in LogReg \cup {None} /\ a.phys_reg \in PhysReg
      /\ a.at_retire \in BOOLEAN /\ (a.dst # None => a.woken \/ a.at_retire)
  <2>1. w[1] \in Renamed
    BY <1>1, <1>6, WindowType
  <2>2. w[1].dst \in LogReg \cup {None} /\ w[1].phys_reg \in PhysReg /\ w[1].at_retire \in BOOLEAN
    BY <2>1 DEF Renamed
  <2>3. w[1].completed /\ w[1].dst # None => w[1].woken \/ w[1].at_retire
    BY <1>2, <1>6 DEF Entries
  <2> HIDE DEF w, a
  <2> QED
    BY <1>4, <1>5, <2>1, <2>2, <2>3
<1> HIDE DEF v, w, a, n
<1>8. AMT' = Committed(AMT, w)
  BY <1>4, <1>5 DEF CommittedAMT, Committed
<1>9. FL_tail.pos \in FLIndex /\ Advance(FL_tail, 1, FLSize) \in Pointer(FLSize)
  <2>1. 1 \in 0 .. FLSize
    BY Sizes
  <2>2. Advance(FL_tail, 1, FLSize) \in Pointer(FLSize)
    BY <1>3, <2>1, Sizes, PointerType
  <2> QED
    BY <1>3, <2>2, Sizes DEF Pointer
<1>10. D(w, Len(w)) <= FLSize /\ Taken(w, FL, FL_tail)
  BY <1>1, <1>2, OrderFits, Sizes DEF Order
<1>11. Conserved(AMT', FL')
  <2>1. CASE a.dst # None
    <3>1. a.phys_reg = FL[FL_tail.pos]
      BY <1>1, <1>3, <1>5, <1>6, <1>10, <2>1, OldestTaken
    <3>2. AMT' = [AMT EXCEPT ![a.dst] = FL[FL_tail.pos]] /\ FL' = [FL EXCEPT ![FL_tail.pos] = AMT[a.dst]]
      BY <1>4, <2>1, <3>1 DEF CommittedAMT
    <3> QED
      BY <1>2, <1>3, <1>7, <1>9, <2>1, <3>2, ConservedSwap
  <2>2. CASE a.dst = None
    BY <1>2, <1>4, <2>2 DEF CommittedAMT
  <2> QED
    BY <2>1, <2>2
<1>12. Order(v, FL', FL_head, FL_tail', FL_count', checkpoints)
  <2> DEFINE p == AMT[a.dst]
  <2>1. IF w[1].dst # None
          THEN Order(v, [FL EXCEPT ![FL_tail.pos] = p], FL_head, Advance(FL_tail, 1, FLSize), FL_count + 1,
                     checkpoints)
          ELSE Order(v, FL, FL_head, FL_tail, FL_count, checkpoints)
    <3> HIDE DEF p
    <3> QED
      BY <1>1, <1>2, <1>3, <1>5, OrderShift
  <2>2. CASE a.dst # None
    <3>1. FL' = [FL EXCEPT ![FL_tail.pos] = p] /\ FL_tail' = Advance(FL_tail, 1, FLSize) /\ FL_count' = FL_count + 1
      BY <1>4, <2>2
    <3> HIDE DEF p
    <3> QED
      BY <1>5, <2>1, <2>2, <3>1
  <2>3. CASE a.dst = None
    BY <1>4, <1>5, <2>1, <2>3
  <2> QED
    BY <2>2, <2>3
<1>13. Maps(v, AMT', RMT, checkpoints)
  <2>1. Maps(v, Committed(AMT, w), RMT, checkpoints)
    BY <1>1, <1>2, <1>3, <1>5, MapsShift
  <2> QED
    BY <1>8, <2>1
<1>14. Masks(v, GBM, checkpoint_count, checkpoints)
  BY <1>1, <1>2, <1>4, <1>5, MasksShift
<1>15. Entries(v, n - 1)
  <2>1. \A k \in 1 .. Len(v) : k > n - 1 <=> k + 1 > n
    BY <1>1, <1>6
  <2>2. \A k \in 1 .. Len(w) :
          /\ w[k].vp_pred => w[k].dst # None
          /\ w[k].completed /\ w[k].dst # None => w[k].woken \/ w[k].at_retire
          /\ k > n => ~w[k].woken /\ ~w[k].completed
    BY <1>2 DEF Entries
  <2> QED
    BY <1>6, <2>1, <2>2 DEF Entries
<1>16. Ready(v, n - 1, AMT', PRF_ready')
  <2>1. /\ \A r \in LogReg : PRF_ready[AMT[r]]
        /\ \A k \in 1 .. Len(w) : w[k].dst # None =>
             (PRF_ready[w[k].phys_reg] <=> w[k].woken \/ (w[k].vp_pred /\ k <= n))
    BY <1>2 DEF Ready
  <2>2. a.dst # None => PRF_ready'[a.phys_reg]
    <3> SUFFICES ASSUME a.dst # None PROVE PRF_ready'[a.phys_reg]
      OBVIOUS
    <3>1. CASE a.at_retire
      BY <1>3, <1>4, <1>7, <3>1
    <3>2. CASE ~a.at_retire
      <4>1. a.woken /\ PRF_ready' = PRF_ready
        BY <1>4, <1>7, <3>2
      <4> QED
        BY <1>5, <1>6, <2>1, <4>1
    <3> QED
      BY <3>1, <3>2
  <2>3. ASSUME NEW q \in PhysReg, PRF_ready[q] PROVE PRF_ready'[q]
    BY <1>3, <1>4, <2>3
  <2>4. ASSUME NEW q \in PhysReg, a.dst # None => q # a.phys_reg PROVE PRF_ready'[q] = PRF_ready[q]
    BY <1>3, <1>4, <2>4
  <2>5. ASSUME NEW r \in LogReg PROVE PRF_ready'[AMT'[r]]
    <3>1. CASE a.dst = r
      <4>1. r # None
        BY RenamerAssumption DEF LogReg, None
      <4>2. AMT'[r] = a.phys_reg
        BY <1>3, <1>4, <3>1, <4>1 DEF CommittedAMT
      <4> QED
        BY <2>2, <3>1, <4>1, <4>2
    <3>2. CASE a.dst # r
      <4>1. AMT'[r] = AMT[r] /\ AMT[r] \in PhysReg
        BY <1>3, <1>4, <3>2 DEF CommittedAMT
      <4> QED
        BY <2>1, <2>3, <4>1
    <3> QED
      BY <3>1, <3>2
  <2>6. ASSUME NEW k \in 1 .. Len(v), v[k].dst # None
        PROVE  PRF_ready'[v[k].phys_reg] <=> v[k].woken \/ (v[k].vp_pred /\ k <= n - 1)
    <3>1. v[k] = w[k + 1] /\ k + 1 \in 1 .. Len(w) /\ w[k + 1].phys_reg \in PhysReg
      <4>1. v[k] = w[k + 1] /\ k + 1 \in 1 .. Len(w)
        BY <1>6
      <4>2. w[k + 1] \in Renamed
        BY <1>1, <4>1, WindowType
      <4> QED
        BY <4>1, <4>2 DEF Renamed
    <3>2. a.dst # None => w[k + 1].phys_reg # a.phys_reg
      <4> SUFFICES ASSUME w[1].dst # None, w[k + 1].phys_reg = w[1].phys_reg PROVE FALSE
        BY <1>5
      <4>1. \A j \in 1 .. Len(w) : w[j].dst # None /\ w[j].phys_reg = w[1].phys_reg => j = 1
        BY <1>1, <1>2, <1>3, <1>6, <1>10, TakenDistinct
      <4>2. k + 1 = 1
        BY <2>6, <3>1, <4>1
      <4> QED
        BY <1>6, <4>2
    <3>3. k <= n - 1 <=> k + 1 <= n
      BY <1>1, <1>6
    <3> QED
      BY <2>1, <2>4, <2>6, <3>1, <3>2, <3>3
  <2> QED
    BY <2>5, <2>6 DEF Ready
<1>17. AL_tail = Advance(AL_head', n - 1, NumActive)
  <2>1. 1 \in 0 .. NumActive /\ 1 + (n - 1) <= NumActive /\ 1 + (n - 1) = n
    BY <1>1, <1>5, ALSizes
  <2>2. Advance(Advance(AL_head, 1, NumActive), n - 1, NumActive) = Advance(AL_head, 1 + (n - 1), NumActive)
    BY <1>3, <1>5, <2>1, ALSizes, AdvanceAdvance
  <2> QED
    BY <1>2, <1>4, <2>1, <2>2
<1>18. TypeOK'
  <2>1. AMT' \in [LogReg -> PhysReg]
    BY <1>3, <1>4, <1>7 DEF CommittedAMT
  <2>2. FL' \in [FLIndex -> PhysReg] /\ FL_tail' \in Pointer(FLSize)
    <3>1. a.dst # None => AMT[a.dst] \in PhysReg
      BY <1>3, <1>7
    <3> QED
      BY <1>3, <1>4, <1>9, <3>1
  <2>3. FL_count' \in 0 .. FLSize
    BY <1>12 DEF Order
  <2>4. PRF_ready' \in [PhysReg -> BOOLEAN]
    BY <1>3, <1>4, <1>7
  <2> QED
    BY <1>1, <1>4, <1>5, <2>1, <2>2, <2>3, <2>4 DEF TypeOK
<1>19. /\ Order(v, FL', FL_head', FL_tail', FL_count', checkpoints')
       /\ Maps(v, AMT', RMT', checkpoints') /\ Masks(v, GBM', checkpoint_count', checkpoints')
       /\ Entries(v, AL_count') /\ Ready(v, AL_count', AMT', PRF_ready')
       /\ AL_tail' = Advance(AL_head', AL_count', NumActive)
  BY <1>4, <1>12, <1>13, <1>14, <1>15, <1>16, <1>17
<1>20. BundleFits'
  <2>1. bundle_dst(rename_bundle) = 0 /\ bundle_branch(rename_bundle) = 0
    BY <1>1, <1>4, BundleNeeds DEF TypeOK
  <2>2. FL_count' \in 0 .. FLSize /\ checkpoint_count' \in 0 .. NumBranches
    BY <1>18 DEF TypeOK
  <2>3. FL_count' >= 0 /\ 0 <= NumBranches - checkpoint_count'
    <3>1. \A i \in Nat : \A j \in 0 .. i : j >= 0 /\ 0 <= i - j
      OBVIOUS
    <3>2. FLSize \in Nat /\ NumBranches \in Nat
      BY Sizes, RenamerAssumption
    <3> QED
      BY <2>2, <3>1, <3>2
  <2> QED
    BY <1>4, <2>1, <2>3 DEF BundleFits
<1> QED
  BY <1>11, <1>18, <1>19, <1>20 DEF IInv, v

(* A squash to any architectural map without duplicates leaves nothing in  *)
(* flight and everything else free.                                        *)
LEMMA SquashEmpty ==
  ASSUME TypeOK, Idle, NEW amt \in [LogReg -> PhysReg], \A r, s \in LogReg : amt[r] = amt[s] => r = s,
         AMT' = amt, SquashTo(amt)
  PROVE  Empty'
<1>1. /\ Cardinality(PhysReg \ {amt[r] : r \in LogReg}) = FLSize
      /\ Refill(amt, FL) \in [FLIndex -> PhysReg]
      /\ Conserved(amt, Refill(amt, FL))
  BY ConservedRefill
<1>2. /\ RMT' = amt /\ GBM' = {} /\ checkpoint_count' = 0
      /\ AL_head' = Start /\ AL_tail' = Start /\ AL_count' = 0
      /\ FL' = Refill(amt, FL) /\ FL_count' = Cardinality(PhysReg \ {amt[r] : r \in LogReg})
      /\ FL_head' = Start /\ FL_tail' = [pos |-> 0, phase |-> TRUE]
      /\ PRF_ready' = [p \in PhysReg |-> TRUE]
      /\ DISPATCH' = << >>
      /\ UNCHANGED <<AL, checkpoints, rename_bundle>>
  BY DEF SquashTo, Refill
<1>3. Start \in Pointer(FLSize) /\ Start \in Pointer(NumActive)
      /\ [pos |-> 0, phase |-> TRUE] \in Pointer(FLSize)
  BY Sizes, ALSizes DEF Start, Pointer
<1>4. 0 \in 0 .. NumBranches /\ 0 \in 0 .. NumActive /\ FLSize \in 0 .. FLSize /\ << >> \in Seq(Renamed)
  BY Sizes, ALSizes, RenamerAssumption
<1>5. TypeOK'
  BY <1>1, <1>2, <1>3, <1>4 DEF TypeOK
<1> QED
  BY <1>1, <1>2, <1>5 DEF Empty, Idle

(* A wrong predicted value: the instruction commits, its map without       *)
(* duplicates as after any commit, and nothing is left in flight.          *)
LEMMA RetireValueMispredictionInv ==
  ASSUME IInv, RetireValueMisprediction
  PROVE  IInv'
<1> DEFINE w == InFlight
           a == AL_first
<1>1. /\ TypeOK /\ w \in Window /\ AL_count > 0 /\ AMT' = CommittedAMT(a) /\ SquashTo(AMT') /\ Idle
      /\ Len(w) = AL_count + Len(DISPATCH) /\ AL_count \in Nat /\ Len(DISPATCH) \in Nat
  BY InFlightType DEF IInv, RetireValueMisprediction
<1>2. /\ AL \in [ALIndex -> Renamed] /\ AL_head \in Pointer(NumActive) /\ DISPATCH \in Seq(Renamed)
      /\ AL_count \in 1 .. NumActive
      /\ FL \in [FLIndex -> PhysReg] /\ FL_tail \in Pointer(FLSize) /\ AMT \in [LogReg -> PhysReg]
      /\ Conserved(AMT, FL) /\ Taken(w, FL, FL_tail)
  BY <1>1, ALSizes DEF IInv, TypeOK, Order
<1>3. w[1] = a
  BY <1>2, InFlightIs, FlightShift DEF AL_first
<1>4. 1 \in 1 .. Len(w) /\ Len(w) > 0
  BY <1>1
<1>5. a.dst \in LogReg \cup {None} /\ a.phys_reg \in PhysReg
  <2>1. w[1] \in Renamed
    BY <1>1, <1>4, WindowType
  <2>2. w[1].dst \in LogReg \cup {None} /\ w[1].phys_reg \in PhysReg
    BY <2>1 DEF Renamed
  <2> HIDE DEF w, a
  <2> QED
    BY <1>3, <2>2
<1> HIDE DEF w, a
<1>6. AMT' \in [LogReg -> PhysReg]
  BY <1>1, <1>2, <1>5 DEF CommittedAMT
<1>7. \A r, s \in LogReg : AMT'[r] = AMT'[s] => r = s
  <2>1. CASE a.dst # None
    <3>1. a.phys_reg = FL[FL_tail.pos] /\ FL_tail.pos \in FLIndex
      <4>1. w[1].phys_reg = FL[FL_tail.pos]
        BY <1>1, <1>2, <1>3, <1>4, <2>1, OldestTaken
      <4> QED
        BY <1>2, <1>3, <4>1, Sizes DEF Pointer
    <3>2. AMT' = [AMT EXCEPT ![a.dst] = FL[FL_tail.pos]]
      BY <1>1, <2>1, <3>1 DEF CommittedAMT
    <3>3. Conserved([AMT EXCEPT ![a.dst] = FL[FL_tail.pos]], [FL EXCEPT ![FL_tail.pos] = AMT[a.dst]])
      BY <1>2, <1>5, <2>1, <3>1, ConservedSwap
    <3> QED
      BY <3>2, <3>3 DEF Conserved
  <2>2. CASE a.dst = None
    BY <1>1, <1>2, <2>2 DEF CommittedAMT, Conserved
  <2> QED
    BY <2>1, <2>2
<1>8. Empty'
  <2> DEFINE amt == AMT'
  <2>1. /\ amt \in [LogReg -> PhysReg] /\ (\A r, s \in LogReg : amt[r] = amt[s] => r = s)
        /\ AMT' = amt /\ SquashTo(amt)
    BY <1>1, <1>6, <1>7
  <2> HIDE DEF amt
  <2> QED
    BY <1>1, <2>1, SquashEmpty
<1> QED
  BY <1>8, EmptyInv, PTL

(* An exception or a load violation: nothing commits, nothing is left.     *)
LEMMA RetireSquashInv ==
  ASSUME IInv, RetireSquash
  PROVE  IInv'
<1>1. /\ TypeOK /\ Idle /\ AMT \in [LogReg -> PhysReg] /\ (\A r, s \in LogReg : AMT[r] = AMT[s] => r = s)
      /\ AMT' = AMT /\ SquashTo(AMT)
  BY DEF IInv, TypeOK, Conserved, RetireSquash
<1>2. Empty'
  BY <1>1, SquashEmpty
<1> QED
  BY <1>2, EmptyInv, PTL

-----------------------------------------------------------------------------
(* The invariant is inductive: one lemma above for each action.            *)
LEMMA NextInv ==
  IInv /\ [Next]_vars => IInv'
<1> SUFFICES ASSUME IInv, [Next]_vars PROVE IInv'
  OBVIOUS
<1>1. ASSUME NEW b \in Bundles, Rename2(b) PROVE IInv'
  BY <1>1, Rename2Inv
<1>2. CASE RenameInsn
  BY <1>2, RenameInsnInv
<1>3. CASE Dispatch
  BY <1>3, DispatchInv
<1>4. ASSUME NEW k \in 1 .. AL_count, Wakeup(k) PROVE IInv'
  BY <1>4, WakeupInv
<1>5. ASSUME NEW k \in 1 .. AL_count, NEW flag \in Flags, Post(k, flag) PROVE IInv'
  BY <1>5, PostInv
<1>6. ASSUME NEW k \in 1 .. AL_count, Writeback(k) PROVE IInv'
  BY <1>6, WritebackInv
<1>7. ASSUME NEW k \in 1 .. AL_count, ResolveCorrect(k) PROVE IInv'
  BY <1>7, ResolveCorrectInv
<1>8. ASSUME NEW k \in 1 .. AL_count, ResolveMispredict(k) PROVE IInv'
  BY <1>8, ResolveMispredictInv
<1>9. CASE RetireCommit
  BY <1>9, RetireCommitInv
<1>10. CASE RetireValueMisprediction
  BY <1>10, RetireValueMispredictionInv
<1>11. CASE RetireSquash
  BY <1>11, RetireSquashInv
<1>12. CASE UNCHANGED vars
  <2> USE DEF vars, map_vars, fl_vars, al_vars, branch_vars, front_vars
  <2>1. InFlight' = InFlight
    BY <1>12 DEF InFlight, ActiveList
  <2>2. TypeOK' /\ BundleFits' /\ Conserved(AMT, FL)' /\ AL_tail' = Advance(AL_head', AL_count', NumActive)
    BY <1>12 DEF IInv, TypeOK, BundleFits, Conserved
  <2> QED
    BY <1>12, <2>1, <2>2 DEF IInv
<1> QED
  BY <1>1, <1>2, <1>3, <1>4, <1>5, <1>6, <1>7, <1>8, <1>9, <1>10, <1>11, <1>12 DEF Next

(* The inductive invariant holds in every reachable state.                 *)
THEOREM Invariance ==
  Spec => []IInv
<1>1. Init => IInv
  BY InitInv
<1>2. IInv /\ [Next]_vars => IInv'
  BY NextInv
<1> QED
  BY <1>1, <1>2, PTL DEF Spec

-----------------------------------------------------------------------------
(* The operators of Renamer are those of the window in flight.             *)
LEMMA WindowOfState ==
  ASSUME IInv
  PROVE  /\ \A k : Dsts(k) = D(InFlight, k)
         /\ \A k : MapAfter(k) = MapIn(InFlight, AMT, k)
         /\ \A k : LiveBranch(k) <=> LiveIn(InFlight, k)
         /\ \A k : {InFlight[j].branch_ID : j \in {l \in 1 .. k : LiveBranch(l)}} = IDs(InFlight, k)
<1>1. \A k : Dsts(k) = D(InFlight, k)
  <2> SUFFICES ASSUME NEW k PROVE Dsts(k) = D(InFlight, k)
    OBVIOUS
  <2>1. {j \in 1 .. k : InFlight[j].dst # None} = {j \in 1 .. k : j \in DstSet(InFlight)}
    BY DEF DstSet
  <2> QED
    BY <2>1 DEF Dsts, D, Count
<1>2. \A k : MapAfter(k) = MapIn(InFlight, AMT, k)
  BY DEF MapAfter, MapIn, Writers
<1>3. \A k : LiveBranch(k) <=> LiveIn(InFlight, k)
  BY DEF LiveBranch, LiveIn
<1>4. \A k : {InFlight[j].branch_ID : j \in {l \in 1 .. k : LiveBranch(l)}} = IDs(InFlight, k)
  BY DEF IDs, LiveBranch, LiveIn
<1> QED
  BY <1>1, <1>2, <1>3, <1>4

(* The inductive invariant implies the properties of states.               *)
LEMMA IInvProperties ==
  IInv => RegistersExact /\ MapsAndMasksExact /\ ReadyExact
<1> SUFFICES ASSUME IInv PROVE RegistersExact /\ MapsAndMasksExact /\ ReadyExact
  OBVIOUS
<1> DEFINE w == InFlight
<1>1. TypeOK /\ w \in Window /\ Len(w) \in Nat /\ Len(w) \in 0 .. Len(w)
  BY InFlightType, WindowType DEF IInv
<1>2. /\ Order(w, FL, FL_head, FL_tail, FL_count, checkpoints) /\ Maps(w, AMT, RMT, checkpoints)
      /\ Masks(w, GBM, checkpoint_count, checkpoints)
  BY DEF IInv
<1>3. /\ \A k : Dsts(k) = D(w, k)
      /\ \A k : MapAfter(k) = MapIn(w, AMT, k)
      /\ \A k : LiveBranch(k) <=> LiveIn(w, k)
      /\ \A k : {w[j].branch_ID : j \in {l \in 1 .. k : LiveBranch(l)}} = IDs(w, k)
  BY WindowOfState
<1>4. RegistersConserved
  BY DEF IInv, Conserved, RegistersConserved
<1>5. FreeListInOrder
  BY <1>2, <1>3 DEF Order, Taken, HeadsSaved, HeadAfter, IInv, FreeListInOrder
<1>6. MapsExact
  BY <1>2, <1>3 DEF Maps, MapsSaved, MapsExact
<1>7. BranchMasksExact
  <2>1. checkpoint_count = Cardinality({j \in 1 .. Len(w) : LiveBranch(j)})
    <3>1. Cardinality(IDs(w, Len(w))) = Cardinality({j \in 1 .. Len(w) : LiveIn(w, j)})
      BY <1>1, <1>2, IDsCount DEF Masks
    <3>2. {j \in 1 .. Len(w) : LiveIn(w, j)} = {j \in 1 .. Len(w) : LiveBranch(j)}
      BY <1>3
    <3> QED
      BY <1>2, <3>1, <3>2 DEF Masks
  <2> QED
    BY <1>2, <1>3, <2>1 DEF Masks, MaskAt, BranchMasksExact
<1>8. ReadyExact
  BY DEF IInv, Ready, ReadyExact
<1> QED
  BY <1>1, <1>4, <1>5, <1>6, <1>7, <1>8 DEF RegistersExact, MapsAndMasksExact

(* No register is ever lost or allocated twice, and the free list gives    *)
(* and takes back registers in program order, recoveries included.         *)
THEOREM RegistersAreExact ==
  Spec => []RegistersExact
BY Invariance, IInvProperties, PTL

(* The rename map, the maps in the checkpoints and the branch masks are    *)
(* those of program order.                                                 *)
THEOREM MapsAndMasksAreExact ==
  Spec => []MapsAndMasksExact
BY Invariance, IInvProperties, PTL

-----------------------------------------------------------------------------
(* What a map over a window maps to: what the map below it does, or the    *)
(* register of an instruction in the window.                               *)
LEMMA MapInRange ==
  ASSUME NEW w, NEW amt, NEW k \in Nat, NEW r \in LogReg
  PROVE  \/ MapIn(w, amt, k)[r] = amt[r]
         \/ \E j \in 1 .. k : w[j].dst = r /\ MapIn(w, amt, k)[r] = w[j].phys_reg
<1>1. CASE Writers(w, k, r) = {}
  BY <1>1, MapInLast
<1>2. CASE Writers(w, k, r) # {}
  <2>1. PICK j \in Writers(w, k, r) : \A i \in Writers(w, k, r) : i <= j
    BY <1>2, MapInLast
  <2>2. MapIn(w, amt, k)[r] = w[j].phys_reg
    BY <2>1, MapInLast
  <2> QED
    BY <2>2 DEF Writers
<1> QED
  BY <1>1, <1>2

(* The map a register leaves with a commit is the only one that had it.    *)
LEMMA CommitFrees ==
  ASSUME IInv, IInv', RetireCommit,
         NEW r \in LogReg, AMT[r] \notin {AMT'[s] : s \in LogReg}
  PROVE  /\ AMT[r] \notin {RMT'[s] : s \in LogReg}
         /\ \A b \in GBM' : AMT[r] \notin {checkpoints'[b].shadow_RMT[s] : s \in LogReg}
<1> DEFINE w == InFlight
           v == InFlight'
           amt == AMT'
<1>1. /\ TypeOK /\ w \in Window /\ FL_tail \in Pointer(FLSize) /\ Conserved(AMT, FL)
      /\ Taken(w, FL, FL_tail) /\ D(w, Len(w)) <= FLSize
  <2>1. Order(w, FL, FL_head, FL_tail, FL_count, checkpoints) /\ w \in Window
    BY InFlightType DEF IInv
  <2> QED
    BY <2>1, OrderFits, Sizes, SMTT(30) DEF IInv, TypeOK, Order
<1>2. Maps(v, amt, RMT', checkpoints') /\ GBM' = IDs(v, Len(v)) /\ Len(v) \in Nat
  <2>1. TypeOK' => (InFlight \in Window)'
    BY InFlightType, PTL
  <2>2. v \in Window
    BY <2>1 DEF IInv
  <2> QED
    BY <2>2, WindowType DEF IInv, Masks
<1>3. Shifted(v, w)
  <2>1. /\ AL \in [ALIndex -> Renamed] /\ AL_head \in Pointer(NumActive) /\ DISPATCH \in Seq(Renamed)
        /\ AL_count \in 1 .. NumActive
    <3>1. AL_count \in 0 .. NumActive /\ AL_count > 0
      BY <1>1 DEF TypeOK, RetireCommit
    <3> QED
      BY <1>1, <3>1, ALSizes DEF TypeOK
  <2>2. v = Flight(AL, Advance(AL_head, 1, NumActive), AL_count - 1, DISPATCH)
    BY InFlightIs DEF RetireCommit, front_vars
  <2> HIDE DEF v
  <2> QED
    BY <2>1, <2>2, InFlightIs, FlightShift
<1> HIDE DEF v, w, amt
<1>4. \A k \in 1 .. Len(v) : v[k].dst # None => AMT[r] # v[k].phys_reg
  <2> SUFFICES ASSUME NEW k \in 1 .. Len(v), v[k].dst # None PROVE AMT[r] # v[k].phys_reg
    OBVIOUS
  <2>1. k + 1 \in 1 .. Len(w) /\ v[k] = w[k + 1]
    BY <1>2, <1>3 DEF Shifted
  <2>2. \A j \in 1 .. Len(w), s \in LogReg : w[j].dst # None => AMT[s] # w[j].phys_reg
    BY <1>1, TakenDistinct
  <2> QED
    BY <2>1, <2>2
<1>5. ASSUME NEW k \in 0 .. Len(v), NEW s \in LogReg PROVE AMT[r] # MapIn(v, amt, k)[s]
  <2>1. k \in Nat /\ \A j \in 1 .. k : j \in 1 .. Len(v)
    BY <1>2
  <2>2. s # None
    BY RenamerAssumption DEF LogReg, None
  <2>3. AMT[r] # amt[s]
    BY DEF amt
  <2>4. \/ MapIn(v, amt, k)[s] = amt[s]
        \/ \E j \in 1 .. k : v[j].dst = s /\ MapIn(v, amt, k)[s] = v[j].phys_reg
    BY <2>1, MapInRange
  <2> QED
    BY <1>4, <2>1, <2>2, <2>3, <2>4
<1>6. AMT[r] \notin {RMT'[s] : s \in LogReg}
  <2>1. Len(v) \in 0 .. Len(v)
    BY <1>2
  <2> QED
    BY <1>2, <1>5, <2>1 DEF Maps
<1>7. ASSUME NEW b \in GBM' PROVE AMT[r] \notin {checkpoints'[b].shadow_RMT[s] : s \in LogReg}
  <2>1. PICK k \in 1 .. Len(v) : LiveIn(v, k) /\ v[k].branch_ID = b
    BY <1>2 DEF IDs
  <2>2. checkpoints'[b].shadow_RMT = MapIn(v, amt, k) /\ k \in 0 .. Len(v)
    BY <1>2, <2>1 DEF Maps, MapsSaved
  <2> QED
    BY <1>5, <2>2
<1> QED
  BY <1>6, <1>7

(* A ready bit is set exactly when the value is there or predicted, and a  *)
(* register that leaves the architectural map is in no other map.          *)
THEOREM ReadersAreSafe ==
  Spec => ReadersSafe
<1> DEFINE Dead == AMT' # AMT =>
             \A r \in LogReg : AMT[r] \notin {AMT'[s] : s \in LogReg} =>
               /\ AMT[r] \notin {RMT'[s] : s \in LogReg}
               /\ \A b \in GBM' : AMT[r] \notin {checkpoints'[b].shadow_RMT[s] : s \in LogReg}
<1>1. IInv /\ IInv' /\ [Next]_vars => [Dead]_vars
  <2> SUFFICES ASSUME IInv, IInv', Next PROVE Dead
    OBVIOUS
  <2>1. CASE RetireCommit
    BY <2>1, CommitFrees
  <2>2. CASE RetireValueMisprediction
    BY <2>2 DEF RetireValueMisprediction, SquashTo
  <2>3. AMT' = AMT \/ RetireCommit \/ RetireValueMisprediction
    BY DEF Next, Rename2, RenameInsn, Dispatch, Wakeup, Post, Writeback, ResolveCorrect,
           ResolveMispredict, RetireSquash, map_vars
  <2> QED
    BY <2>1, <2>2, <2>3
<1>2. IInv => ReadyExact
  BY IInvProperties
<1> QED
  BY <1>1, <1>2, Invariance, PTL DEF Spec, ReadersSafe, FreedIsDead

-----------------------------------------------------------------------------
(* How a step of the renamer changes the window: its youngest instructions *)
(* leave, one enters, the oldest leaves, or the oldest commits and all     *)
(* leave. In v the instructions are those w starts with.                   *)
Cut(v, w) ==
  Len(v) <= Len(w) /\ \A j \in 1 .. Len(v) : v[j].dst = w[j].dst /\ v[j].phys_reg = w[j].phys_reg

WindowStep(v, w, amt, bmt) ==
  \/ bmt = amt /\ Cut(v, w)
  \/ bmt = amt /\ Grown(v, w)
  \/ Len(w) > 0 /\ bmt = Committed(amt, w) /\ Shifted(v, w)
  \/ Len(w) > 0 /\ bmt = Committed(amt, w) /\ v = << >>

(* Nothing is renamed, and the active list keeps its head and, in each of  *)
(* its slots, the registers.                                               *)
LEMMA CutFlight ==
  ASSUME TypeOK, TypeOK', AL_head' = AL_head,
         \A y \in ALIndex : AL'[y].dst = AL[y].dst /\ AL'[y].phys_reg = AL[y].phys_reg,
         \/ AL_count' <= AL_count /\ DISPATCH' = << >>
         \/ /\ AL_count' = AL_count /\ Len(DISPATCH') = Len(DISPATCH)
            /\ \A j \in 1 .. Len(DISPATCH) : /\ DISPATCH'[j].dst = DISPATCH[j].dst
                                             /\ DISPATCH'[j].phys_reg = DISPATCH[j].phys_reg
  PROVE  Cut(InFlight', InFlight)
<1> DEFINE bl == AL'
           n2 == AL_count'
           d2 == DISPATCH'
           w  == InFlight
           v  == InFlight'
           m  == Len(d2)
<1>1. /\ AL \in [ALIndex -> Renamed] /\ AL_head \in Pointer(NumActive)
      /\ AL_count \in 0 .. NumActive /\ DISPATCH \in Seq(Renamed)
      /\ bl \in [ALIndex -> Renamed] /\ n2 \in 0 .. NumActive /\ d2 \in Seq(Renamed)
  BY DEF TypeOK
<1>2. w = Flight(AL, AL_head, AL_count, DISPATCH) /\ v = Flight(bl, AL_head, n2, d2)
  BY InFlightIs
<1>3. /\ \A y \in ALIndex : bl[y].dst = AL[y].dst /\ bl[y].phys_reg = AL[y].phys_reg
      /\ \/ n2 <= AL_count /\ d2 = << >>
         \/ /\ n2 = AL_count /\ m = Len(DISPATCH)
            /\ \A j \in 1 .. Len(DISPATCH) : d2[j].dst = DISPATCH[j].dst /\ d2[j].phys_reg = DISPATCH[j].phys_reg
  OBVIOUS
<1>4. d2 = << >> => m = 0
  OBVIOUS
<1> HIDE DEF bl, n2, d2, w, v, m
<1>5. /\ Len(w) = AL_count + Len(DISPATCH) /\ Len(DISPATCH) \in Nat
      /\ \A k \in 1 .. AL_count : /\ SlotAt(AL_head, k - 1, NumActive) \in ALIndex
                                  /\ w[k] = AL[SlotAt(AL_head, k - 1, NumActive)]
      /\ \A k \in 1 .. Len(DISPATCH) : w[AL_count + k] = DISPATCH[k]
  BY <1>1, <1>2, FlightType, ZenonT(30)
<1>6. /\ Len(v) = n2 + m /\ m \in Nat
      /\ \A k \in 1 .. n2 : v[k] = bl[SlotAt(AL_head, k - 1, NumActive)]
      /\ \A k \in 1 .. m : v[n2 + k] = d2[k]
  BY <1>1, <1>2, FlightType, SMTT(30) DEF m
<1>7. n2 \in Nat /\ AL_count \in Nat /\ n2 <= AL_count /\ n2 + m <= AL_count + Len(DISPATCH)
      /\ \A k \in 1 .. n2 : k \in 1 .. AL_count
  BY <1>1, <1>3, <1>4, <1>5, ALSizes
<1>8. ASSUME NEW j \in 1 .. n2 + m PROVE v[j].dst = w[j].dst /\ v[j].phys_reg = w[j].phys_reg
  <2>1. CASE j \in 1 .. n2
    <3>1. j \in 1 .. AL_count
      BY <2>1, <1>7
    <3>2. v[j] = bl[SlotAt(AL_head, j - 1, NumActive)] /\ w[j] = AL[SlotAt(AL_head, j - 1, NumActive)]
          /\ SlotAt(AL_head, j - 1, NumActive) \in ALIndex
      BY <2>1, <3>1, <1>5, <1>6
    <3> QED
      BY <3>2, <1>3
  <2>2. CASE j - n2 \in 1 .. m /\ n2 + (j - n2) = j
    <3>1. n2 = AL_count /\ m = Len(DISPATCH)
          /\ \A i \in 1 .. Len(DISPATCH) : d2[i].dst = DISPATCH[i].dst /\ d2[i].phys_reg = DISPATCH[i].phys_reg
      BY <2>2, <1>3, <1>4, <1>6
    <3>2. v[j] = d2[j - n2] /\ w[j] = DISPATCH[j - n2]
      BY <2>2, <3>1, <1>5, <1>6
    <3> QED
      BY <2>2, <3>1, <3>2
  <2> QED
    BY <1>6, <1>7, <2>1, <2>2, FlightPlace
<1> QED
  BY <1>5, <1>6, <1>7, <1>8 DEF Cut, v, w

(* Every step changes the window in one of these ways.                     *)
LEMMA StepOfWindow ==
  ASSUME IInv, IInv', [Next]_vars
  PROVE  WindowStep(InFlight', InFlight, AMT, AMT')
<1> DEFINE w == InFlight
           v == InFlight'
<1>1. /\ TypeOK /\ TypeOK' /\ w \in Window /\ Len(w) = AL_count + Len(DISPATCH)
      /\ AL_count \in Nat /\ Len(DISPATCH) \in Nat /\ Len(w) \in Nat
  BY InFlightType DEF IInv
<1>2. /\ AL \in [ALIndex -> Renamed] /\ AL_head \in Pointer(NumActive)
      /\ AL_count \in 0 .. NumActive /\ DISPATCH \in Seq(Renamed)
      /\ \A y \in ALIndex : AL[y] \in Renamed
  BY <1>1 DEF TypeOK
<1>3. ASSUME v = w, AMT' = AMT PROVE WindowStep(v, w, AMT, AMT')
  BY <1>1, <1>3 DEF WindowStep, Cut
<1>4. ASSUME NEW k \in 1 .. AL_count, Wakeup(k) PROVE WindowStep(v, w, AMT, AMT')
  <2>1. /\ AL' = [AL EXCEPT ![AL_index(k)].woken = TRUE]
        /\ UNCHANGED <<AMT, AL_head, AL_count, DISPATCH>>
    BY <1>4 DEF Wakeup, map_vars, front_vars
  <2>2. \A y \in ALIndex : AL'[y].dst = AL[y].dst /\ AL'[y].phys_reg = AL[y].phys_reg
    BY <1>2, <2>1 DEF Renamed
  <2> QED
    BY <1>1, <2>1, <2>2, CutFlight DEF WindowStep
<1>5. ASSUME NEW k \in 1 .. AL_count, NEW flag \in Flags, Post(k, flag) PROVE WindowStep(v, w, AMT, AMT')
  <2>1. /\ AL' = [AL EXCEPT ![AL_index(k)].flags = @ \cup {flag}]
        /\ UNCHANGED <<AMT, AL_head, AL_count, DISPATCH>>
    BY <1>5 DEF Post, map_vars, front_vars
  <2>2. \A y \in ALIndex : AL'[y].dst = AL[y].dst /\ AL'[y].phys_reg = AL[y].phys_reg
    BY <1>2, <2>1 DEF Renamed
  <2> QED
    BY <1>1, <2>1, <2>2, CutFlight DEF WindowStep
<1>6. ASSUME NEW k \in 1 .. AL_count, Writeback(k) PROVE WindowStep(v, w, AMT, AMT')
  <2>1. /\ AL' = [AL EXCEPT ![AL_index(k)].completed = TRUE]
        /\ UNCHANGED <<AMT, AL_head, AL_count, DISPATCH>>
    BY <1>6 DEF Writeback, map_vars, front_vars
  <2>2. \A y \in ALIndex : AL'[y].dst = AL[y].dst /\ AL'[y].phys_reg = AL[y].phys_reg
    BY <1>2, <2>1 DEF Renamed
  <2> QED
    BY <1>1, <2>1, <2>2, CutFlight DEF WindowStep
<1>7. ASSUME NEW k \in 1 .. AL_count, ResolveCorrect(k) PROVE WindowStep(v, w, AMT, AMT')
  <2> DEFINE b == AL[AL_index(k)].branch_ID
  <2>1. /\ AL' = [y \in ALIndex |-> [clear_bit(AL[y], b) EXCEPT !.completed = @ \/ y = AL_index(k)]]
        /\ DISPATCH' = [j \in DOMAIN DISPATCH |-> clear_bit(DISPATCH[j], b)]
        /\ UNCHANGED <<AMT, AL_head, AL_count>>
    BY <1>7 DEF ResolveCorrect, map_vars
  <2> HIDE DEF b
  <2>2. \A y \in ALIndex : AL'[y].dst = AL[y].dst /\ AL'[y].phys_reg = AL[y].phys_reg
    BY <1>2, <2>1 DEF Renamed, clear_bit
  <2>3. DOMAIN DISPATCH = 1 .. Len(DISPATCH) /\ \A j \in 1 .. Len(DISPATCH) : DISPATCH[j] \in Renamed
    BY <1>2
  <2>4. \A j \in 1 .. Len(DISPATCH) : /\ DISPATCH'[j].dst = DISPATCH[j].dst
                                      /\ DISPATCH'[j].phys_reg = DISPATCH[j].phys_reg
    BY <2>1, <2>3 DEF Renamed, clear_bit
  <2>5. Len(DISPATCH') = Len(DISPATCH)
    <3>1. DOMAIN DISPATCH' = 1 .. Len(DISPATCH)
      BY <2>1, <2>3
    <3>2. DISPATCH' \in Seq(Renamed)
      BY <1>1 DEF TypeOK
    <3> QED
      BY <1>1, <3>1, <3>2, LenProperties
  <2> QED
    BY <1>1, <2>1, <2>2, <2>4, <2>5, CutFlight DEF WindowStep
<1>8. ASSUME NEW k \in 1 .. AL_count, ResolveMispredict(k) PROVE WindowStep(v, w, AMT, AMT')
  <2>1. /\ AL' = [AL EXCEPT ![AL_index(k)].completed = TRUE]
        /\ DISPATCH' = << >> /\ UNCHANGED <<AMT, AL_head>>
    BY <1>8 DEF ResolveMispredict
  <2>2. \A y \in ALIndex : AL'[y].dst = AL[y].dst /\ AL'[y].phys_reg = AL[y].phys_reg
    BY <1>2, <2>1 DEF Renamed
  <2>3. AL_count' = k
    <3> DEFINE x == AL_index(k)
    <3>1. AL_count' = IF x >= AL_head.pos THEN x - AL_head.pos + 1 ELSE NumActive - AL_head.pos + x + 1
      BY <1>8 DEF ResolveMispredict
    <3>2. k \in 1 .. NumActive /\ x = SlotAt(AL_head, k - 1, NumActive)
      BY <1>2, ALSizes DEF AL_index
    <3> QED
      BY <1>2, <3>1, <3>2, CutCount
  <2>4. AL_count' <= AL_count
    BY <1>1, <2>3
  <2> QED
    BY <1>1, <2>1, <2>2, <2>4, CutFlight DEF WindowStep
<1>9. CASE RenameInsn
  <2>1. PICK e : DISPATCH' = Append(DISPATCH, e)
    BY <1>9 DEF RenameInsn
  <2>2. UNCHANGED <<AMT, AL, AL_head, AL_count>>
    BY <1>9 DEF RenameInsn, al_vars
  <2>3. e \in Renamed
    <3>1. DISPATCH' \in Seq(Renamed)
      BY <1>1 DEF TypeOK
    <3>2. Len(DISPATCH) + 1 \in 1 .. Len(DISPATCH) + 1
      BY <1>1
    <3>3. Len(DISPATCH') = Len(DISPATCH) + 1 /\ DISPATCH'[Len(DISPATCH) + 1] = e
      BY <1>2, <2>1
    <3> QED
      BY <3>1, <3>2, <3>3, ElementOfSeq
  <2>4. w = Flight(AL, AL_head, AL_count, DISPATCH) /\ v = Flight(AL, AL_head, AL_count, Append(DISPATCH, e))
    BY <2>1, <2>2, InFlightIs
  <2>5. Grown(v, w)
    BY <1>2, <2>3, <2>4, FlightAppend
  <2> QED
    BY <2>2, <2>5 DEF WindowStep
<1>10. ASSUME AL_count > 0 PROVE Len(w) > 0 /\ w[1] = AL_first /\ AL_count \in 1 .. NumActive
  <2>1. AL_count \in 1 .. NumActive
    BY <1>2, <1>10, ALSizes
  <2>2. w = Flight(AL, AL_head, AL_count, DISPATCH)
    BY InFlightIs
  <2>3. w[1] = AL[AL_head.pos]
    BY <1>2, <2>1, <2>2, FlightShift
  <2> QED
    BY <1>1, <1>10, <2>1, <2>3 DEF AL_first
<1>11. ASSUME AL_count' = 0, DISPATCH' = << >> PROVE v = << >>
  BY <1>11 DEF InFlight, ActiveList
<1>12. CASE RetireCommit
  <2>1. /\ AL_count > 0 /\ AMT' = CommittedAMT(AL_first)
        /\ AL_head' = Advance(AL_head, 1, NumActive) /\ AL_count' = AL_count - 1
        /\ UNCHANGED <<AL, DISPATCH>>
    BY <1>12 DEF RetireCommit, front_vars
  <2>2. Len(w) > 0 /\ w[1] = AL_first /\ AL_count \in 1 .. NumActive
    BY <1>10, <2>1
  <2>3. v = Flight(AL, Advance(AL_head, 1, NumActive), AL_count - 1, DISPATCH)
        /\ w = Flight(AL, AL_head, AL_count, DISPATCH)
    BY <2>1, InFlightIs
  <2>4. Shifted(v, w)
    BY <1>2, <2>2, <2>3, FlightShift
  <2> HIDE DEF v, w
  <2>5. AMT' = Committed(AMT, w)
    BY <2>1, <2>2 DEF CommittedAMT, Committed
  <2>6. WindowStep(v, w, AMT, AMT')
    BY <2>2, <2>4, <2>5 DEF WindowStep
  <2> QED
    BY <2>6 DEF v, w
<1>13. CASE RetireValueMisprediction
  <2>1. /\ AL_count > 0 /\ AMT' = CommittedAMT(AL_first) /\ AL_count' = 0 /\ DISPATCH' = << >>
    BY <1>13 DEF RetireValueMisprediction, SquashTo
  <2>2. Len(w) > 0 /\ w[1] = AL_first /\ v = << >>
    BY <1>10, <1>11, <2>1
  <2> HIDE DEF v, w
  <2>3. AMT' = Committed(AMT, w)
    BY <2>1, <2>2 DEF CommittedAMT, Committed
  <2>4. WindowStep(v, w, AMT, AMT')
    BY <2>2, <2>3 DEF WindowStep
  <2> QED
    BY <2>4 DEF v, w
<1>14. CASE RetireSquash
  <2>1. v = << >> /\ AMT' = AMT
    BY <1>11, <1>14 DEF RetireSquash, SquashTo
  <2>2. Len(v) = 0
    BY <2>1
  <2> HIDE DEF v, w
  <2>3. Cut(v, w)
    BY <1>1, <2>2 DEF Cut
  <2>4. WindowStep(v, w, AMT, AMT')
    BY <2>1, <2>3 DEF WindowStep
  <2> QED
    BY <2>4 DEF v, w
<1>15. ASSUME NEW b \in Bundles, Rename2(b) PROVE WindowStep(v, w, AMT, AMT')
  BY <1>3, <1>15 DEF Rename2, InFlight, ActiveList, al_vars, map_vars
<1>16. CASE Dispatch
  BY <1>3, <1>16, DispatchFlight DEF Dispatch, map_vars
<1>17. CASE UNCHANGED vars
  BY <1>3, <1>17 DEF InFlight, ActiveList, vars, al_vars, map_vars, front_vars
<1> QED
  BY <1>4, <1>5, <1>6, <1>7, <1>8, <1>9, <1>12, <1>13, <1>14, <1>15, <1>16, <1>17 DEF Next

-----------------------------------------------------------------------------
(* The window as the in-order renamer sees it.                             *)
Pairs(w) == [k \in DOMAIN w |-> <<w[k].dst, w[k].phys_reg>>]

(* As many pairs as instructions, each of a destination and a register.    *)
LEMMA PairsType ==
  ASSUME NEW w \in Window
  PROVE  /\ Pairs(w) \in Seq((LogReg \cup {None}) \X PhysReg)
         /\ Len(Pairs(w)) = Len(w) /\ Len(w) \in Nat /\ DOMAIN Pairs(w) = 1 .. Len(w)
         /\ \A k \in 1 .. Len(w) : Pairs(w)[k] = <<w[k].dst, w[k].phys_reg>>
<1>1. Len(w) \in Nat /\ DOMAIN w = 1 .. Len(w) /\ \A k \in 1 .. Len(w) : w[k] \in Renamed
  BY WindowType
<1>2. \A k \in 1 .. Len(w) : <<w[k].dst, w[k].phys_reg>> \in (LogReg \cup {None}) \X PhysReg
  BY <1>1 DEF Renamed
<1>3. Pairs(w) \in [1 .. Len(w) -> (LogReg \cup {None}) \X PhysReg]
  BY <1>1, <1>2 DEF Pairs
<1>4. Pairs(w) \in Seq((LogReg \cup {None}) \X PhysReg)
  BY <1>1, <1>3, SeqDef
<1>5. DOMAIN Pairs(w) = 1 .. Len(w) /\ \A k \in 1 .. Len(w) : Pairs(w)[k] = <<w[k].dst, w[k].phys_reg>>
  BY <1>1 DEF Pairs
<1> QED
  BY <1>1, <1>4, <1>5, LenProperties

(* The map the in-order renamer computes from them is the map over the     *)
(* window.                                                                 *)
LEMMA MapOfPairs ==
  ASSUME NEW w \in Window, NEW amt
  PROVE  InOrder!MapOf(amt, Pairs(w)) = MapIn(w, amt, Len(w))
<1> DEFINE n == Len(w)
           p == Pairs(w)
<1>1. n \in Nat /\ DOMAIN p = 1 .. n /\ \A k \in 1 .. n : p[k][1] = w[k].dst /\ p[k][2] = w[k].phys_reg
  BY PairsType
<1> HIDE DEF p
<1>2. ASSUME NEW r \in LogReg PROVE InOrder!MapOf(amt, p)[r] = MapIn(w, amt, n)[r]
  <2>1. CASE Writers(w, n, r) = {}
    <3>1. ~\E k \in DOMAIN p : p[k][1] = r
      BY <1>1, <2>1 DEF Writers
    <3> QED
      BY <2>1, <3>1, <1>1, MapInLast DEF InOrder!MapOf
  <2>2. CASE Writers(w, n, r) # {}
    <3> DEFINE last == CHOOSE k \in DOMAIN p : p[k][1] = r /\ \A j \in DOMAIN p : p[j][1] = r => j <= k
    <3>1. \E k \in DOMAIN p : p[k][1] = r /\ \A j \in DOMAIN p : p[j][1] = r => j <= k
      <4>1. PICK k \in Writers(w, n, r) : \A i \in Writers(w, n, r) : i <= k
        BY <1>1, <2>2, MapInLast
      <4> QED
        BY <1>1, <4>1 DEF Writers
    <3>2. last \in DOMAIN p /\ p[last][1] = r /\ \A j \in DOMAIN p : p[j][1] = r => j <= last
      BY <3>1
    <3>3. InOrder!MapOf(amt, p)[r] = p[last][2]
      BY <3>2 DEF InOrder!MapOf
    <3> HIDE DEF last
    <3>4. last \in Writers(w, n, r) /\ \A i \in Writers(w, n, r) : i <= last
      BY <1>1, <3>2 DEF Writers
    <3>5. MapIn(w, amt, n)[r] = w[last].phys_reg
      BY <1>1, <3>4, MapInLast
    <3> QED
      BY <1>1, <3>2, <3>3, <3>5
  <2> QED
    BY <2>1, <2>2
<1>3. DOMAIN InOrder!MapOf(amt, p) = LogReg /\ DOMAIN MapIn(w, amt, n) = LogReg
      /\ MapIn(w, amt, n) = [r \in LogReg |-> MapIn(w, amt, n)[r]]
      /\ InOrder!MapOf(amt, p) = [r \in LogReg |-> InOrder!MapOf(amt, p)[r]]
  BY DEF InOrder!MapOf, MapIn
<1>4. InOrder!MapOf(amt, p) = MapIn(w, amt, n)
  BY <1>2, <1>3
<1> QED
  BY <1>4 DEF p

(* The state of the in-order renamer, after a step too.                    *)
LEMMA AbstractState ==
  ASSUME IInv
  PROVE  /\ InFlight \in Window /\ AMT \in [LogReg -> PhysReg]
         /\ RMT = MapIn(InFlight, AMT, Len(InFlight))
BY InFlightType DEF IInv, TypeOK, Maps

(* Cutting the window squashes; a cut of nothing leaves all as it is.      *)
LEMMA CutSquashes ==
  ASSUME NEW w \in Window, NEW v \in Window, Cut(v, w)
  PROVE  /\ Len(v) \in 0 .. Len(Pairs(w))
         /\ Pairs(v) = SubSeq(Pairs(w), 1, Len(v))
<1>1. /\ Pairs(w) \in Seq((LogReg \cup {None}) \X PhysReg) /\ Len(Pairs(w)) = Len(w) /\ Len(w) \in Nat
      /\ \A k \in 1 .. Len(w) : Pairs(w)[k] = <<w[k].dst, w[k].phys_reg>>
  BY PairsType
<1>2. /\ Pairs(v) \in Seq((LogReg \cup {None}) \X PhysReg) /\ Len(Pairs(v)) = Len(v) /\ Len(v) \in Nat
      /\ \A k \in 1 .. Len(v) : Pairs(v)[k] = <<v[k].dst, v[k].phys_reg>>
  BY PairsType
<1>3. Len(v) <= Len(w) /\ \A k \in 1 .. Len(v) : k \in 1 .. Len(w) /\ Pairs(v)[k] = Pairs(w)[k]
  <2>1. Len(v) <= Len(w)
    BY DEF Cut
  <2>2. ASSUME NEW k \in 1 .. Len(v) PROVE k \in 1 .. Len(w) /\ Pairs(v)[k] = Pairs(w)[k]
    <3>1. k \in 1 .. Len(w) /\ v[k].dst = w[k].dst /\ v[k].phys_reg = w[k].phys_reg
      BY <1>1, <1>2, <2>1 DEF Cut
    <3> QED
      BY <1>1, <1>2, <3>1
  <2> QED
    BY <2>1, <2>2
<1> DEFINE s == SubSeq(Pairs(w), 1, Len(v))
<1>4. s \in Seq((LogReg \cup {None}) \X PhysReg) /\ Len(s) = Len(v)
      /\ \A k \in 1 .. Len(v) : s[k] = Pairs(w)[k]
  BY <1>1, <1>2, <1>3, SubSeqProperties
<1> HIDE DEF s
<1>5. Pairs(v) = s
  BY <1>2, <1>3, <1>4, SeqEqual
<1> QED
  BY <1>1, <1>2, <1>3, <1>5 DEF s

(* An instruction more in the window has a register that nothing held.     *)
LEMMA GrownRenames ==
  ASSUME NEW w \in Window, NEW v \in Window, Grown(v, w), NEW amt \in [LogReg -> PhysReg],
         NEW fl, NEW tail \in Pointer(FLSize), Conserved(amt, fl), Taken(v, fl, tail),
         D(v, Len(v)) <= FLSize
  PROVE  \E r \in LogReg \cup {None}, p \in PhysReg :
           /\ Pairs(v) = Append(Pairs(w), <<r, p>>) /\ Len(Pairs(v)) = Len(Pairs(w)) + 1
           /\ r # None => p \notin InOrder!Held(amt, Pairs(w))
           /\ MapIn(v, amt, Len(v)) = IF r = None THEN MapIn(w, amt, Len(w))
                                      ELSE [MapIn(w, amt, Len(w)) EXCEPT ![r] = p]
<1> DEFINE n == Len(w)
           e == v[n + 1]
           P == (LogReg \cup {None}) \X PhysReg
<1>1. n \in Nat /\ Len(v) = n + 1 /\ (\A k \in 1 .. n : v[k] = w[k]) /\ n + 1 \in 1 .. Len(v)
  BY WindowType DEF Grown
<1>2. e.dst \in LogReg \cup {None} /\ e.phys_reg \in PhysReg
  <2>1. v[n + 1] \in Renamed
    BY <1>1, WindowType
  <2> QED
    BY <2>1 DEF Renamed
<1>3. Pairs(w) \in Seq(P) /\ Len(Pairs(w)) = n /\ DOMAIN Pairs(w) = 1 .. n
      /\ \A k \in 1 .. n : Pairs(w)[k] = <<w[k].dst, w[k].phys_reg>>
  BY PairsType
<1>4. Pairs(v) \in Seq(P) /\ Len(Pairs(v)) = n + 1
      /\ \A k \in 1 .. n + 1 : Pairs(v)[k] = <<v[k].dst, v[k].phys_reg>>
  BY <1>1, PairsType
<1> HIDE DEF n
<1>5. Pairs(v) = Append(Pairs(w), <<e.dst, e.phys_reg>>)
  <2> DEFINE s == Append(Pairs(w), <<e.dst, e.phys_reg>>)
  <2>1. <<e.dst, e.phys_reg>> \in P
    BY <1>2
  <2>2. s \in Seq(P) /\ Len(s) = n + 1 /\ (\A k \in 1 .. n : s[k] = Pairs(w)[k])
        /\ s[n + 1] = <<e.dst, e.phys_reg>>
    <3> HIDE DEF P, e
    <3> QED
      BY <1>3, <2>1, AppendProperties
  <2> HIDE DEF s
  <2>3. ASSUME NEW k \in 1 .. n + 1 PROVE s[k] = Pairs(v)[k]
    <3>1. k \in 1 .. n \/ k = n + 1
      BY <1>1
    <3>2. CASE k \in 1 .. n
      BY <1>1, <1>3, <1>4, <2>2, <3>2, ZenonT(30)
    <3>3. CASE k = n + 1
      BY <1>4, <2>2, <3>3
    <3> QED
      BY <3>1, <3>2, <3>3
  <2> QED
    BY <1>4, <2>2, <2>3, SeqEqual DEF s
<1>6. ASSUME e.dst # None PROVE e.phys_reg \notin InOrder!Held(amt, Pairs(w))
  <2>1. /\ \A j \in 1 .. Len(v) : v[j].dst # None /\ v[j].phys_reg = e.phys_reg => j = n + 1
        /\ \A r \in LogReg : amt[r] # e.phys_reg
    BY <1>1, <1>6, TakenDistinct
  <2>2. ASSUME NEW j \in 1 .. n, w[j].dst # None PROVE w[j].phys_reg # e.phys_reg
    <3>1. j \in 1 .. Len(v) /\ j # n + 1 /\ v[j] = w[j]
      BY <1>1
    <3> QED
      BY <2>1, <2>2, <3>1
  <2>3. \A j \in 1 .. n : Pairs(w)[j][1] = w[j].dst /\ Pairs(w)[j][2] = w[j].phys_reg
    BY <1>3
  <2> HIDE DEF e
  <2> QED
    BY <1>3, <2>1, <2>2, <2>3 DEF InOrder!Held
<1>7. MapIn(v, amt, Len(v)) = IF e.dst = None THEN MapIn(w, amt, n)
                              ELSE [MapIn(w, amt, n) EXCEPT ![e.dst] = e.phys_reg]
  <2>1. MapIn(v, amt, n) = MapIn(w, amt, n)
    BY <1>1, MapInAgree
  <2> QED
    BY <1>1, <2>1, MapInStep
<1> QED
  BY <1>2, <1>3, <1>4, <1>5, <1>6, <1>7 DEF n

(* The oldest instruction leaves the pairs.                                *)
LEMMA ShiftedCommits ==
  ASSUME NEW w \in Window, NEW v \in Window, Shifted(v, w)
  PROVE  Pairs(w) # << >> /\ Pairs(v) = Tail(Pairs(w))
<1> DEFINE P == (LogReg \cup {None}) \X PhysReg
           t == Tail(Pairs(w))
<1>1. Pairs(w) \in Seq(P) /\ Len(Pairs(w)) = Len(w) /\ Len(w) \in Nat
      /\ \A k \in 1 .. Len(w) : Pairs(w)[k] = <<w[k].dst, w[k].phys_reg>>
  BY PairsType
<1>2. Pairs(v) \in Seq(P) /\ Len(Pairs(v)) = Len(v) /\ Len(v) \in Nat
      /\ \A k \in 1 .. Len(v) : Pairs(v)[k] = <<v[k].dst, v[k].phys_reg>>
  BY PairsType
<1>3. Len(w) = Len(v) + 1 /\ \A k \in 1 .. Len(v) : v[k] = w[k + 1] /\ k + 1 \in 1 .. Len(w)
  BY <1>1, <1>2 DEF Shifted
<1>4. Pairs(w) # << >>
  BY <1>1, <1>2, <1>3
<1>5. t \in Seq(P) /\ Len(t) = Len(v) /\ \A k \in 1 .. Len(v) : t[k] = Pairs(w)[k + 1]
  <2> HIDE DEF P
  <2> QED
    BY <1>1, <1>2, <1>3, <1>4, HeadTailProperties
<1> HIDE DEF t
<1>6. \A k \in 1 .. Len(v) : Pairs(v)[k] = t[k]
  BY <1>1, <1>2, <1>3, <1>5
<1>7. Pairs(v) = t
  <2> HIDE DEF P
  <2> QED
    BY <1>2, <1>5, <1>6, SeqEqual
<1> QED
  BY <1>4, <1>7 DEF t

(* After the commit: the architectural map of the in-order renamer.        *)
LEMMA CommitsAlike ==
  ASSUME NEW w \in Window, Len(w) > 0, NEW amt
  PROVE  Committed(amt, w) = IF Pairs(w)[1][1] # None THEN [amt EXCEPT ![Pairs(w)[1][1]] = Pairs(w)[1][2]]
                                                      ELSE amt
<1>1. 1 \in 1 .. Len(w)
  BY WindowType
<1>2. Pairs(w)[1] = <<w[1].dst, w[1].phys_reg>>
  BY <1>1, PairsType
<1>3. Pairs(w)[1][1] = w[1].dst /\ Pairs(w)[1][2] = w[1].phys_reg
  BY <1>2
<1> QED
  BY <1>3 DEF Committed

(* Each step is a step of the in-order renamer.                            *)
LEMMA AbstractStep ==
  ASSUME IInv, IInv', [Next]_vars
  PROVE  InOrder!Next
<1> DEFINE w == InFlight
           v == InFlight'
           W == LET u == InFlight IN [k \in DOMAIN u |-> <<u[k].dst, u[k].phys_reg>>]
<1>1. W = Pairs(w) /\ W' = Pairs(v)
  BY DEF Pairs
<1>2. /\ w \in Window /\ v \in Window /\ AMT \in [LogReg -> PhysReg]
      /\ RMT = MapIn(w, AMT, Len(w)) /\ RMT' = MapIn(v, AMT', Len(v))
  <2>1. (/\ InFlight \in Window /\ AMT \in [LogReg -> PhysReg]
         /\ RMT = MapIn(InFlight, AMT, Len(InFlight)))'
    BY AbstractState, PTL
  <2> QED
    BY <2>1, AbstractState
<1>3. Taken(v, FL', FL_tail') /\ Conserved(AMT', FL') /\ FL_tail' \in Pointer(FLSize) /\ D(v, Len(v)) <= FLSize
  <2> DEFINE fl2 == FL'
             head2 == FL_head'
             tail2 == FL_tail'
             count2 == FL_count'
             cp2 == checkpoints'
  <2>1. Order(v, fl2, head2, tail2, count2, cp2) /\ Conserved(AMT', FL') /\ FL_tail' \in Pointer(FLSize)
    BY DEF IInv, TypeOK
  <2> HIDE DEF v, fl2, head2, tail2, count2, cp2
  <2>2. D(v, Len(v)) \in 0 .. FLSize
    BY <1>2, <2>1, OrderFits
  <2> QED
    BY <2>1, <2>2, Sizes DEF Order, fl2, tail2
<1>4. WindowStep(v, w, AMT, AMT')
  BY StepOfWindow
<1> HIDE DEF v, w, W
<1>5. CASE AMT' = AMT /\ Cut(v, w)
  <2>1. Len(v) \in 0 .. Len(Pairs(w)) /\ Pairs(v) = SubSeq(Pairs(w), 1, Len(v))
    BY <1>2, <1>5, CutSquashes
  <2>2. RMT' = InOrder!MapOf(AMT, Pairs(v))
    BY <1>2, <1>5, MapOfPairs
  <2>3. InOrder!Squash
    BY <1>1, <1>5, <2>1, <2>2 DEF InOrder!Squash, W
  <2> QED
    BY <2>3 DEF InOrder!Next
<1>6. CASE AMT' = AMT /\ Grown(v, w)
  <2> DEFINE fl2 == FL'
             tail2 == FL_tail'
  <2>1. Taken(v, fl2, tail2) /\ Conserved(AMT, fl2) /\ tail2 \in Pointer(FLSize)
    BY <1>3, <1>6
  <2> HIDE DEF fl2, tail2
  <2>2. \E r \in LogReg \cup {None}, p \in PhysReg :
           /\ Pairs(v) = Append(Pairs(w), <<r, p>>) /\ Len(Pairs(v)) = Len(Pairs(w)) + 1
           /\ r # None => p \notin InOrder!Held(AMT, Pairs(w))
           /\ MapIn(v, AMT, Len(v)) = IF r = None THEN MapIn(w, AMT, Len(w))
                                      ELSE [MapIn(w, AMT, Len(w)) EXCEPT ![r] = p]
    BY <1>2, <1>3, <1>6, <2>1, GrownRenames
  <2>3. InOrder!Rename
    BY <1>1, <1>2, <1>6, <2>2 DEF InOrder!Rename, W
  <2> QED
    BY <2>3 DEF InOrder!Next
<1>7. CASE Len(w) > 0 /\ AMT' = Committed(AMT, w) /\ Shifted(v, w)
  <2>1. Pairs(w) # << >> /\ Pairs(v) = Tail(Pairs(w))
    BY <1>2, <1>7, ShiftedCommits
  <2>2. Committed(AMT, w) = IF Pairs(w)[1][1] # None THEN [AMT EXCEPT ![Pairs(w)[1][1]] = Pairs(w)[1][2]]
                                                     ELSE AMT
    BY <1>2, <1>7, CommitsAlike
  <2>3. RMT' = RMT
    <3>1. Len(v) \in Nat /\ Len(w) = Len(v) + 1 /\ RegsShifted(v, w, Len(v))
      BY <1>2, <1>7, WindowType DEF Shifted, RegsShifted
    <3>2. MapIn(v, Committed(AMT, w), Len(v)) = MapIn(w, AMT, Len(v) + 1)
      BY <1>2, <3>1, MapInShift
    <3> QED
      BY <1>2, <1>7, <3>1, <3>2
  <2>4. InOrder!Commit
    BY <1>1, <1>7, <2>1, <2>2, <2>3 DEF InOrder!Commit, InOrder!AfterCommit, W
  <2> QED
    BY <2>4 DEF InOrder!Next
<1>8. CASE Len(w) > 0 /\ AMT' = Committed(AMT, w) /\ v = << >>
  <2>1. Pairs(v) = << >>
    BY <1>8 DEF Pairs
  <2>2. Pairs(w) # << >>
    <3>1. Len(Pairs(w)) = Len(w)
      BY <1>2, PairsType
    <3> QED
      BY <1>8, <3>1
  <2>3. Committed(AMT, w) = IF Pairs(w)[1][1] # None THEN [AMT EXCEPT ![Pairs(w)[1][1]] = Pairs(w)[1][2]]
                                                     ELSE AMT
    BY <1>2, <1>8, CommitsAlike
  <2>4. RMT' = AMT'
    <3>1. AMT' \in [LogReg -> PhysReg] /\ 0 \in 0 .. Len(v) /\ Len(v) = 0
      <4>1. Len(v) = 0
        BY <1>8
      <4> QED
        BY <4>1 DEF IInv, TypeOK
    <3> DEFINE bmt == AMT'
    <3> HIDE DEF bmt
    <3>2. bmt \in [LogReg -> PhysReg]
      BY <3>1 DEF bmt
    <3>3. MapIn(v, bmt, 0) = bmt
      BY <1>2, <3>1, <3>2, MapInType
    <3> QED
      BY <1>2, <3>1, <3>3 DEF bmt
  <2>5. InOrder!CommitAndSquash
    BY <1>1, <1>8, <2>1, <2>2, <2>3, <2>4 DEF InOrder!CommitAndSquash, InOrder!AfterCommit, W
  <2> QED
    BY <2>5 DEF InOrder!Next
<1> QED
  BY <1>4, <1>5, <1>6, <1>7, <1>8 DEF WindowStep

(* The renamer implements the in-order renamer: every register it hands    *)
(* out is held by nothing, and after every commit, recovery and squash the *)
(* rename map is the architectural map under the instructions left.        *)
THEOREM RenamerIsInOrder ==
  Spec => ImplementsInOrder
<1>1. Init => InOrder!Init
  <2> SUFFICES ASSUME Init PROVE InOrder!Init
    OBVIOUS
  <2>1. InFlight = << >>
    <3>1. InFlight \in Window /\ Len(InFlight) = AL_count + Len(DISPATCH)
      BY InitInv, InFlightType DEF IInv
    <3>2. Len(InFlight) = 0
      BY <3>1 DEF Init
    <3> QED
      BY <3>1, <3>2 DEF Window
  <2>2. AMT \in [LogReg -> PhysReg] /\ RMT = AMT
    BY InitInv DEF Init, IInv, TypeOK
  <2> QED
    BY <2>1, <2>2 DEF InOrder!Init
<1>2. IInv /\ IInv' /\ [Next]_vars => InOrder!Next
  BY AbstractStep
<1> QED
  BY <1>1, <1>2, Invariance, PTL DEF Spec, ImplementsInOrder, InOrder!Spec
=============================================================================
