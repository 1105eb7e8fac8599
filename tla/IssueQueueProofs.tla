------------------------- MODULE IssueQueueProofs -------------------------
(***************************************************************************)
(* Theorems about IssueQueue, for every size of the queue, every number of *)
(* partitions, every set of lanes, registers, stores, branches and         *)
(* instructions, and both selections. The invariant IInv names the list of *)
(* the valid entries that the age list threads, and says how far the loop  *)
(* that runs has come.                                                     *)
(***************************************************************************)
EXTENDS IssueQueue, SequenceTheorems, Counting

-----------------------------------------------------------------------------
(* The age list as a value. p lists the entries of V once each, and the    *)
(* pointers old, young, pr and nx agree with it.                           *)
Chain(p, n, old, young, pr, nx, V) ==
  /\ p \in [1 .. n -> Slot]
  /\ n = 0 => old = Nil /\ young = Nil
  /\ n > 0 => old = p[1] /\ young = p[n]
  /\ \A k \in 1 .. n : /\ nx[p[k]] = IF k = n THEN Nil ELSE p[k + 1]
                       /\ pr[p[k]] = IF k = 1 THEN Nil ELSE p[k - 1]
  /\ \A j, k \in 1 .. n : p[j] = p[k] => j = k
  /\ \A i \in Slot : i \in V <=> \E k \in 1 .. n : p[k] = i

(* The list with f behind its n elements, and without its k-th.            *)
Extended(p, n, f) == [k \in 1 .. n + 1 |-> IF k = n + 1 THEN f ELSE p[k]]
Dropped(p, n, k)  == [m \in 1 .. n - 1 |-> IF m < k THEN p[m] ELSE p[m + 1]]

Pointers == [Slot -> Slot \cup {Nil}]

(* What link() and unlink() make of the four pointers.                     *)
Linked(f, old, young, pr, nx, old2, pr2, nx2) ==
  /\ old2 = IF old = Nil THEN f ELSE old
  /\ pr2 = [pr EXCEPT ![f] = young]
  /\ nx2 = IF old = Nil THEN [nx EXCEPT ![f] = Nil]
                        ELSE [nx EXCEPT ![f] = Nil, ![young] = f]
Unlinked(i, old, young, pr, nx, old2, young2, pr2, nx2) ==
  /\ old2 = IF old = i THEN nx[i] ELSE old
  /\ young2 = IF young = i THEN pr[i] ELSE young
  /\ pr2 = IF young = i THEN pr ELSE [pr EXCEPT ![nx[i]] = pr[i]]
  /\ nx2 = IF old = i THEN nx ELSE [nx EXCEPT ![pr[i]] = nx[i]]

(* link() threads a new entry behind the youngest.                         *)
LEMMA LinkChain ==
  ASSUME NEW n \in Nat, NEW p, NEW old, NEW young, NEW pr \in Pointers, NEW nx \in Pointers,
         NEW V, Chain(p, n, old, young, pr, nx, V), NEW f \in Slot, f \notin V,
         NEW n2, NEW old2, NEW pr2, NEW nx2, NEW V2, n2 = n + 1, V2 = V \cup {f},
         Linked(f, old, young, pr, nx, old2, pr2, nx2)
  PROVE  Chain(Extended(p, n, f), n2, old2, f, pr2, nx2, V2)
<1> DEFINE e == Extended(p, n, f)
<1>0. Nil \notin Slot
  BY DEF Nil, Slot
<1>1. \A k \in 1 .. n : p[k] \in Slot /\ p[k] # f
  BY DEF Chain
<1>2. e \in [1 .. n + 1 -> Slot] /\ e[n + 1] = f /\ \A k \in 1 .. n : e[k] = p[k]
  BY <1>1 DEF Extended
<1> HIDE DEF e
<1>3. old = Nil <=> n = 0
  <2>1. n > 0 => p[1] \in Slot
    BY <1>1
  <2> QED
    BY <1>0, <2>1 DEF Chain
<1>4. /\ nx2[f] = Nil
      /\ \A x \in Slot : x # f /\ (n = 0 \/ x # young) => nx2[x] = nx[x]
      /\ n > 0 => nx2[young] = f
  <2>1. n > 0 => young \in Slot /\ young # f
    BY <1>1 DEF Chain
  <2> QED
    BY <1>3, <2>1 DEF Pointers, Linked
<1>5. pr2[f] = young /\ \A x \in Slot : x # f => pr2[x] = pr[x]
  BY DEF Pointers, Linked
<1>6. \A j, k \in 1 .. n + 1 : e[j] = e[k] => j = k
  <2>1. \A k \in 1 .. n + 1 : k = n + 1 \/ k \in 1 .. n
    OBVIOUS
  <2> QED
    BY <1>1, <1>2, <2>1 DEF Chain
<1>7. \A k \in 1 .. n + 1 : nx2[e[k]] = IF k = n + 1 THEN Nil ELSE e[k + 1]
  <2> SUFFICES ASSUME NEW k \in 1 .. n + 1
               PROVE  nx2[e[k]] = IF k = n + 1 THEN Nil ELSE e[k + 1]
    OBVIOUS
  <2>1. CASE k = n + 1
    BY <1>2, <1>4, <2>1
  <2>2. CASE k = n
    BY <1>2, <1>4, <2>2 DEF Chain
  <2>3. CASE k \in 1 .. n - 1
    <3>1. p[k] # young /\ nx[p[k]] = p[k + 1] /\ e[k + 1] = p[k + 1] /\ e[k] = p[k]
      BY <1>2, <2>3 DEF Chain
    <3>2. p[k] \in Slot /\ p[k] # f
      BY <1>1, <2>3
    <3>3. nx2[p[k]] = nx[p[k]]
      BY <1>4, <3>1, <3>2, Zenon
    <3>4. k # n + 1
      BY <2>3
    <3> QED
      BY <3>1, <3>3, <3>4, Zenon
  <2> QED
    BY <2>1, <2>2, <2>3
<1>8. \A k \in 1 .. n + 1 : pr2[e[k]] = IF k = 1 THEN Nil ELSE e[k - 1]
  <2> SUFFICES ASSUME NEW k \in 1 .. n + 1
               PROVE  pr2[e[k]] = IF k = 1 THEN Nil ELSE e[k - 1]
    OBVIOUS
  <2>1. CASE k = n + 1
    <3>1. n > 0 => young = p[n] /\ e[n] = p[n]
      BY <1>2 DEF Chain
    <3>2. n = 0 => young = Nil
      BY DEF Chain
    <3> QED
      BY <1>2, <1>5, <2>1, <3>1, <3>2
  <2>2. CASE k \in 1 .. n
    <3>1. pr[p[k]] = IF k = 1 THEN Nil ELSE p[k - 1]
      BY <2>2 DEF Chain
    <3>2. k # 1 => e[k - 1] = p[k - 1]
      BY <1>2, <2>2
    <3> QED
      BY <1>1, <1>2, <1>5, <2>2, <3>1, <3>2
  <2> QED
    BY <2>1, <2>2
<1>9. \A i \in Slot : i \in V \cup {f} <=> \E k \in 1 .. n + 1 : e[k] = i
  <2> SUFFICES ASSUME NEW i \in Slot
               PROVE  i \in V \cup {f} <=> \E k \in 1 .. n + 1 : e[k] = i
    OBVIOUS
  <2>1. i \in V <=> \E k \in 1 .. n : p[k] = i
    BY DEF Chain
  <2>2. \A k : k \in 1 .. n + 1 <=> k \in 1 .. n \/ k = n + 1
    OBVIOUS
  <2> QED
    BY <1>2, <2>1, <2>2
<1>10. n + 1 # 0 /\ e[n + 1] = f /\ (IF old = Nil THEN f ELSE old) = e[1]
  <2>1. n > 0 => old = p[1] /\ e[1] = p[1]
    BY <1>2 DEF Chain
  <2> QED
    BY <1>2, <1>3, <2>1
<1>11. Chain(e, n + 1, old2, f, pr2, nx2, V \cup {f})
  BY <1>2, <1>6, <1>7, <1>8, <1>9, <1>10 DEF Chain, Linked
<1> QED
  BY <1>11, Zenon DEF e

(* unlink() joins the neighbours of the entry that leaves.                 *)
LEMMA UnlinkChain ==
  ASSUME NEW n \in Nat, NEW p, NEW old, NEW young, NEW pr \in Pointers, NEW nx \in Pointers,
         NEW V, Chain(p, n, old, young, pr, nx, V), NEW k \in 1 .. n, NEW i, i = p[k],
         NEW n2, NEW old2, NEW young2, NEW pr2, NEW nx2, NEW V2, n2 = n - 1, V2 = V \ {i},
         Unlinked(i, old, young, pr, nx, old2, young2, pr2, nx2)
  PROVE  Chain(Dropped(p, n, k), n2, old2, young2, pr2, nx2, V2)
<1> DEFINE d == Dropped(p, n, k)
<1>1. /\ \A m \in 1 .. n : p[m] \in Slot
      /\ \A m, l \in 1 .. n : p[m] = p[l] => m = l
  BY DEF Chain
<1>2. /\ d \in [1 .. n - 1 -> Slot]
      /\ \A m \in 1 .. n - 1 : d[m] = IF m < k THEN p[m] ELSE p[m + 1]
  BY <1>1 DEF Dropped
<1> HIDE DEF d
<1>3. (old = i <=> k = 1) /\ (young = i <=> k = n)
  BY <1>1 DEF Chain
<1>4. /\ nx[i] = IF k = n THEN Nil ELSE p[k + 1]
      /\ pr[i] = IF k = 1 THEN Nil ELSE p[k - 1]
  BY DEF Chain
<1>5. \A m \in 1 .. n : m # k =>
        nx2[p[m]] = IF m + 1 = k THEN nx[i] ELSE IF m = n THEN Nil ELSE p[m + 1]
  <2> SUFFICES ASSUME NEW m \in 1 .. n, m # k
               PROVE  nx2[p[m]] = IF m + 1 = k THEN nx[i] ELSE IF m = n THEN Nil ELSE p[m + 1]
    OBVIOUS
  <2>1. nx[p[m]] = IF m = n THEN Nil ELSE p[m + 1]
    BY DEF Chain
  <2>2. CASE k = 1
    BY <1>3, <2>1, <2>2 DEF Unlinked
  <2>3. CASE k # 1
    <3>1. pr[i] = p[k - 1] /\ k - 1 \in 1 .. n /\ old # i
      BY <1>3, <1>4, <2>3
    <3>2. p[m] = p[k - 1] <=> m + 1 = k
      BY <1>1, <3>1
    <3>3. nx2 = [nx EXCEPT ![p[k - 1]] = nx[i]] /\ p[m] \in Slot
      BY <1>1, <3>1 DEF Unlinked
    <3>4. nx2[p[m]] = IF p[m] = p[k - 1] THEN nx[i] ELSE nx[p[m]]
      BY <3>3 DEF Pointers
    <3> QED
      BY <2>1, <3>2, <3>4
  <2> QED
    BY <2>2, <2>3
<1>6. \A m \in 1 .. n : m # k =>
        pr2[p[m]] = IF m = k + 1 THEN pr[i] ELSE IF m = 1 THEN Nil ELSE p[m - 1]
  <2> SUFFICES ASSUME NEW m \in 1 .. n, m # k
               PROVE  pr2[p[m]] = IF m = k + 1 THEN pr[i] ELSE IF m = 1 THEN Nil ELSE p[m - 1]
    OBVIOUS
  <2>1. pr[p[m]] = IF m = 1 THEN Nil ELSE p[m - 1]
    BY DEF Chain
  <2>2. CASE k = n
    BY <1>3, <2>1, <2>2 DEF Unlinked
  <2>3. CASE k # n
    <3>1. nx[i] = p[k + 1] /\ k + 1 \in 1 .. n /\ young # i
      BY <1>3, <1>4, <2>3
    <3>2. p[m] = p[k + 1] <=> m = k + 1
      BY <1>1, <3>1
    <3>3. pr2 = [pr EXCEPT ![p[k + 1]] = pr[i]] /\ p[m] \in Slot
      BY <1>1, <3>1 DEF Unlinked
    <3>4. pr2[p[m]] = IF p[m] = p[k + 1] THEN pr[i] ELSE pr[p[m]]
      BY <3>3 DEF Pointers
    <3> QED
      BY <2>1, <3>2, <3>4
  <2> QED
    BY <2>2, <2>3
<1>7. \A m \in 1 .. n - 1 : nx2[d[m]] = IF m = n - 1 THEN Nil ELSE d[m + 1]
  <2> SUFFICES ASSUME NEW m \in 1 .. n - 1
               PROVE  nx2[d[m]] = IF m = n - 1 THEN Nil ELSE d[m + 1]
    OBVIOUS
  <2>1. m # n - 1 => d[m + 1] = IF m + 1 < k THEN p[m + 1] ELSE p[m + 2]
    BY <1>2
  <2>2. CASE m < k
    <3>1. d[m] = p[m] /\ m \in 1 .. n /\ m # k /\ m # n
      BY <1>2, <2>2
    <3>2. nx2[d[m]] = IF m + 1 = k THEN nx[i] ELSE p[m + 1]
      BY <1>5, <3>1
    <3> QED
      BY <1>4, <2>1, <2>2, <3>2
  <2>3. CASE m >= k
    <3>1. d[m] = p[m + 1] /\ m + 1 \in 1 .. n /\ m + 1 # k /\ m + 2 # k
      BY <1>2, <2>3
    <3>2. nx2[d[m]] = IF m + 1 = n THEN Nil ELSE p[m + 1 + 1]
      BY <1>5, <3>1
    <3> QED
      BY <2>1, <2>3, <3>2
  <2> QED
    BY <2>2, <2>3
<1>8. \A m \in 1 .. n - 1 : pr2[d[m]] = IF m = 1 THEN Nil ELSE d[m - 1]
  <2> SUFFICES ASSUME NEW m \in 1 .. n - 1
               PROVE  pr2[d[m]] = IF m = 1 THEN Nil ELSE d[m - 1]
    OBVIOUS
  <2>1. m # 1 => d[m - 1] = IF m - 1 < k THEN p[m - 1] ELSE p[m]
    BY <1>2
  <2>2. CASE m < k
    <3>1. d[m] = p[m] /\ m \in 1 .. n /\ m # k /\ m # k + 1
      BY <1>2, <2>2
    <3>2. pr2[d[m]] = IF m = 1 THEN Nil ELSE p[m - 1]
      BY <1>6, <3>1
    <3> QED
      BY <2>1, <2>2, <3>2
  <2>3. CASE m >= k
    <3>1. d[m] = p[m + 1] /\ m + 1 \in 1 .. n /\ m + 1 # k /\ m + 1 # 1
      BY <1>2, <2>3
    <3>2. pr2[d[m]] = IF m = k THEN pr[i] ELSE p[m + 1 - 1]
      BY <1>6, <3>1
    <3> QED
      BY <1>4, <2>1, <2>3, <3>2
  <2> QED
    BY <2>2, <2>3
<1>9. \A m, l \in 1 .. n - 1 : d[m] = d[l] => m = l
  <2> SUFFICES ASSUME NEW m \in 1 .. n - 1, NEW l \in 1 .. n - 1, d[m] = d[l] PROVE m = l
    OBVIOUS
  <2>1. PICK a \in 1 .. n : a = IF m < k THEN m ELSE m + 1
    OBVIOUS
  <2>2. PICK b \in 1 .. n : b = IF l < k THEN l ELSE l + 1
    OBVIOUS
  <2>3. d[m] = p[a] /\ d[l] = p[b]
    BY <1>2, <2>1, <2>2
  <2>4. a = b
    BY <1>1, <2>3
  <2> QED
    BY <2>1, <2>2, <2>4
<1>10. \A x \in Slot : x \in V \ {i} <=> \E m \in 1 .. n - 1 : d[m] = x
  <2> SUFFICES ASSUME NEW x \in Slot PROVE x \in V \ {i} <=> \E m \in 1 .. n - 1 : d[m] = x
    OBVIOUS
  <2>1. x \in V <=> \E m \in 1 .. n : p[m] = x
    BY DEF Chain
  <2>2. ASSUME x \in V, x # i PROVE \E m \in 1 .. n - 1 : d[m] = x
    <3>1. PICK m \in 1 .. n : p[m] = x
      BY <2>1, <2>2
    <3>2. PICK l \in 1 .. n - 1 : m = IF l < k THEN l ELSE l + 1
      <4>1. m # k
        BY <2>2, <3>1
      <4>2. CASE m < k
        BY <4>2
      <4>3. CASE m > k
        <5>1. m - 1 \in 1 .. n - 1 /\ m = IF m - 1 < k THEN m - 1 ELSE m - 1 + 1
          BY <4>3
        <5> QED
          BY <5>1
      <4> QED
        BY <4>1, <4>2, <4>3
    <3>3. d[l] = x
      BY <1>2, <3>1, <3>2
    <3> QED
      BY <3>3
  <2>3. ASSUME NEW m \in 1 .. n - 1, d[m] = x PROVE x \in V /\ x # i
    <3>1. PICK a \in 1 .. n : a = (IF m < k THEN m ELSE m + 1)
      OBVIOUS
    <3>2. a # k /\ d[m] = p[a]
      BY <1>2, <3>1
    <3> QED
      BY <1>1, <2>1, <2>3, <3>2
  <2> QED
    BY <2>2, <2>3
<1>11. /\ n - 1 = 0 => old2 = Nil /\ young2 = Nil
       /\ n - 1 > 0 => old2 = d[1] /\ young2 = d[n - 1]
  <2>1. n > 0 /\ old = p[1] /\ young = p[n]
    BY DEF Chain
  <2>2. old2 = (IF k = 1 THEN nx[i] ELSE p[1]) /\ young2 = (IF k = n THEN pr[i] ELSE p[n])
    BY <1>3, <2>1 DEF Unlinked
  <2>3. ASSUME n - 1 > 0 PROVE /\ d[1] = IF 1 < k THEN p[1] ELSE p[2]
                               /\ d[n - 1] = IF n - 1 < k THEN p[n - 1] ELSE p[n]
    BY <1>2, <2>3
  <2> QED
    BY <1>4, <2>2, <2>3
<1>12. Chain(d, n - 1, old2, young2, pr2, nx2, V \ {i})
  BY <1>2, <1>7, <1>8, <1>9, <1>10, <1>11 DEF Chain
<1> QED
  BY <1>12, Zenon DEF d

-----------------------------------------------------------------------------
(* The free list as a value: its n elements from place h on are the slots  *)
(* outside V, once each.                                                   *)
Place(h, k) == (h + k) % Size

Spares(f, h, n, V) ==
  /\ \A j, k \in 0 .. n - 1 : f[Place(h, j)] = f[Place(h, k)] => j = k
  /\ \A i \in Slot : i \notin V <=> \E k \in 0 .. n - 1 : f[Place(h, k)] = i

(* The places of the circle: there are Size, and the next one follows.     *)
LEMMA Places ==
  ASSUME NEW h \in Slot
  PROVE  /\ Place(h, 0) = h
         /\ \A k \in 0 .. Size : Place(h, k) \in Slot
         /\ \A j, k \in 0 .. Size - 1 : Place(h, j) = Place(h, k) => j = k
         /\ \A k \in 0 .. Size - 1 : Place(Place(h, 1), k) = Place(h, k + 1)
<1>1. Size \in Nat \ {0} /\ h \in 0 .. Size - 1
  BY IssueQueueAssumption DEF Slot
<1>2. \A x \in 0 .. Size - 1, k \in 0 .. Size :
        Place(x, k) = IF x + k < Size THEN x + k ELSE x + k - Size
  BY <1>1, Forward DEF Place
<1>3. Place(h, 0) = h
  BY <1>1, <1>2
<1>4. \A k \in 0 .. Size : Place(h, k) \in Slot
  BY <1>1, <1>2 DEF Slot
<1>5. \A j, k \in 0 .. Size - 1 : Place(h, j) = Place(h, k) => j = k
  BY <1>1, <1>2
<1>6. \A k \in 0 .. Size - 1 : Place(Place(h, 1), k) = Place(h, k + 1)
  <2> SUFFICES ASSUME NEW k \in 0 .. Size - 1 PROVE Place(Place(h, 1), k) = Place(h, k + 1)
    OBVIOUS
  <2>1. PICK x \in 0 .. Size - 1 : x = Place(h, 1)
    BY <1>1, <1>4 DEF Slot
  <2>2. x = IF h + 1 < Size THEN h + 1 ELSE h + 1 - Size
    BY <1>1, <1>2, <2>1
  <2>3. Place(x, k) = IF x + k < Size THEN x + k ELSE x + k - Size
    BY <1>1, <1>2
  <2>4. Place(h, k + 1) = IF h + (k + 1) < Size THEN h + (k + 1) ELSE h + (k + 1) - Size
    BY <1>1, <1>2
  <2> QED
    BY <1>1, <2>1, <2>2, <2>3, <2>4
<1> QED
  BY <1>3, <1>4, <1>5, <1>6

(* One further than k places on. *)
LEMMA PlaceStep ==
  ASSUME NEW h \in Slot, NEW k \in 0 .. Size - 1
  PROVE  Place(Place(h, k), 1) = Place(h, k + 1)
<1>1. Size \in Nat \ {0} /\ h \in 0 .. Size - 1 /\ 1 \in 0 .. Size /\ k \in 0 .. Size
  BY IssueQueueAssumption DEF Slot
<1>2. PICK t \in 0 .. Size - 1 : t = Place(h, k)
  BY <1>1, Places DEF Slot
<1>3. t = IF h + k < Size THEN h + k ELSE h + k - Size
  BY <1>1, <1>2, Forward DEF Place
<1>4. Place(t, 1) = IF t + 1 < Size THEN t + 1 ELSE t + 1 - Size
  BY <1>1, Forward DEF Place
<1>5. Place(h, k + 1) = IF h + (k + 1) < Size THEN h + (k + 1) ELSE h + (k + 1) - Size
  <2>1. k + 1 \in 0 .. Size
    BY <1>1
  <2> QED
    BY <1>1, <2>1, Forward DEF Place
<1> QED
  BY <1>1, <1>2, <1>3, <1>4, <1>5

(* Every slot is some places on.                                           *)
LEMMA PlacesAll ==
  ASSUME NEW h \in Slot, NEW i \in Slot
  PROVE  \E k \in 0 .. Size - 1 : Place(h, k) = i
<1>1. Size \in Nat \ {0} /\ h \in 0 .. Size - 1 /\ i \in 0 .. Size - 1
  BY IssueQueueAssumption DEF Slot
<1>2. PICK k \in 0 .. Size - 1 : k = IF h <= i THEN i - h ELSE i - h + Size
  <2>1. (IF h <= i THEN i - h ELSE i - h + Size) \in 0 .. Size - 1
    BY <1>1
  <2> QED
    BY <2>1
<1>3. Place(h, k) = IF h + k < Size THEN h + k ELSE h + k - Size
  <2>1. k \in 0 .. Size
    BY <1>1
  <2> QED
    BY <1>1, <2>1, Forward DEF Place
<1>4. Place(h, k) = i
  BY <1>1, <1>2, <1>3
<1> QED
  BY <1>4

(* dispatch() takes the entry at the head.                                 *)
LEMMA TakeSpare ==
  ASSUME NEW f \in [Slot -> Slot], NEW h \in Slot, NEW n \in 1 .. Size, NEW V,
         Spares(f, h, n, V)
  PROVE  f[h] \notin V /\ Spares(f, Place(h, 1), n - 1, V \cup {f[h]})
<1>0. Size \in Nat \ {0}
  BY IssueQueueAssumption
<1>1. /\ Place(h, 0) = h
      /\ \A k \in 0 .. n - 2 : Place(Place(h, 1), k) = Place(h, k + 1)
  BY <1>0, Places
<1>2. f[h] \notin V
  <2>1. 0 \in 0 .. n - 1 /\ f[h] \in Slot
    BY <1>0
  <2> QED
    BY <1>1, <2>1 DEF Spares
<1>3. \A j, k \in 0 .. n - 2 :
        f[Place(Place(h, 1), j)] = f[Place(Place(h, 1), k)] => j = k
  <2> SUFFICES ASSUME NEW j \in 0 .. n - 2, NEW k \in 0 .. n - 2,
                      f[Place(h, j + 1)] = f[Place(h, k + 1)]
               PROVE  j = k
    BY <1>1
  <2>1. j + 1 \in 0 .. n - 1 /\ k + 1 \in 0 .. n - 1
    BY <1>0
  <2>2. j + 1 = k + 1
    BY <2>1 DEF Spares
  <2> QED
    BY <2>2
<1>4. \A i \in Slot : i \notin V \cup {f[h]} <=>
        \E k \in 0 .. n - 2 : f[Place(Place(h, 1), k)] = i
  <2> SUFFICES ASSUME NEW i \in Slot
               PROVE  i \notin V \cup {f[h]} <=>
                        \E k \in 0 .. n - 2 : f[Place(h, k + 1)] = i
    BY <1>1
  <2>1. i \notin V <=> \E k \in 0 .. n - 1 : f[Place(h, k)] = i
    BY DEF Spares
  <2>2. ASSUME i \notin V, i # f[h] PROVE \E k \in 0 .. n - 2 : f[Place(h, k + 1)] = i
    <3>1. PICK k \in 0 .. n - 1 : f[Place(h, k)] = i
      BY <2>1, <2>2
    <3>2. k # 0
      BY <1>1, <2>2, <3>1
    <3>3. k - 1 \in 0 .. n - 2 /\ (k - 1) + 1 = k
      BY <1>0, <3>2
    <3> QED
      BY <3>1, <3>3
  <2>3. ASSUME NEW k \in 0 .. n - 2, f[Place(h, k + 1)] = i PROVE i \notin V /\ i # f[h]
    <3>1. k + 1 \in 0 .. n - 1 /\ 0 \in 0 .. n - 1 /\ k + 1 # 0
      BY <1>0
    <3>2. i # f[Place(h, 0)]
      BY <2>3, <3>1 DEF Spares
    <3> QED
      BY <1>1, <2>1, <2>3, <3>1, <3>2
  <2> QED
    BY <2>2, <2>3
<1>5. n - 1 - 1 = n - 2
  BY <1>0
<1> QED
  BY <1>2, <1>3, <1>4, <1>5 DEF Spares

(* remove() gives an entry back at the tail.                               *)
LEMMA GiveSpare ==
  ASSUME NEW f \in [Slot -> Slot], NEW h \in Slot, NEW n \in 0 .. Size - 1, NEW V,
         Spares(f, h, n, V), NEW i \in Slot, i \in V
  PROVE  Spares([f EXCEPT ![Place(h, n)] = i], h, n + 1, V \ {i})
<1> DEFINE g == [f EXCEPT ![Place(h, n)] = i]
<1>0. Size \in Nat \ {0}
  BY IssueQueueAssumption
<1>1. \A k \in 0 .. n - 1 : Place(h, k) \in Slot /\ Place(h, k) # Place(h, n)
  BY <1>0, Places
<1>2. Place(h, n) \in Slot
  BY <1>0, Places
<1>3. g[Place(h, n)] = i /\ \A k \in 0 .. n - 1 : g[Place(h, k)] = f[Place(h, k)]
  BY <1>1, <1>2
<1> HIDE DEF g
<1>4. \A k \in 0 .. n - 1 : f[Place(h, k)] # i
  BY DEF Spares
<1>5. \A k : k \in 0 .. n <=> k \in 0 .. n - 1 \/ k = n
  BY <1>0
<1>6. \A j, k \in 0 .. n : g[Place(h, j)] = g[Place(h, k)] => j = k
  BY <1>3, <1>4, <1>5 DEF Spares
<1>7. \A x \in Slot : x \notin V \ {i} <=> \E k \in 0 .. n : g[Place(h, k)] = x
  <2> SUFFICES ASSUME NEW x \in Slot
               PROVE  x \notin V \ {i} <=> \E k \in 0 .. n : g[Place(h, k)] = x
    OBVIOUS
  <2>1. x \notin V <=> \E k \in 0 .. n - 1 : f[Place(h, k)] = x
    BY DEF Spares
  <2> QED
    BY <1>3, <1>5, <2>1
<1>8. n + 1 - 1 = n
  BY <1>0
<1>9. Spares(g, h, n + 1, V \ {i})
  BY <1>6, <1>7, <1>8 DEF Spares
<1> QED
  BY <1>9 DEF g

-----------------------------------------------------------------------------
(* The invariant. *)

(* p is the age list. *)
Listed(p) == Chain(p, length, oldest, youngest, prev, next, Valid)

FreeHeld == /\ length + fl_length = Size
            /\ fl_tail = Place(fl_head, fl_length)
            /\ Spares(fl, fl_head, fl_length, Valid)

(* A scan has given all lanes of entry i away, if i is ready.              *)
Caught(i) == q[i].waiting = {} => q[i].lanes \subseteq rr

(* The scan in age order stands at the m-th entry of the list. It has      *)
(* visited all in front of it, and it will not run out of steps.           *)
Reached(p, m) == /\ p[m] = todo.i
                 /\ todo.j + length - m < Size
                 /\ \A k \in 1 .. m - 1 : Caught(p[k])

ScanAt(p) == age_based /\ todo.op = "select" => \E m \in 1 .. length : Reached(p, m)

OnList == \E p : Listed(p) /\ ScanAt(p)

(* The round-robin scan has visited todo.j entries from part_next on.      *)
Passed == ~age_based /\ todo.op = "select" =>
            /\ todo.i = Place(part_next, todo.j)
            /\ \A k \in 0 .. todo.j - 1 :
                 q[Place(part_next, k)].valid => Caught(Place(part_next, k))

(* The partitions take turns, so the scan starts at one of them.           *)
Turns == \E m \in 1 .. NumParts : part_next + m * part_size = Size

(* An ID stands for one unresolved branch.                                 *)
OpenOnce == \A m, n \in 1 .. Len(open) : open[m] = open[n] => m = n

(* squash(b) leaves no entry behind that names b.                          *)
Swept == todo.op = "squash" => \A i \in Valid : i < todo.i => todo.b \notin q[i].branch_mask

IInv == /\ TypeOK /\ OnList /\ FreeHeld /\ WakeupExact /\ MasksNested
        /\ Passed /\ Turns /\ OpenOnce /\ Swept

-----------------------------------------------------------------------------
(* What the definitions say, in the form the proofs use. *)

(* The loop that runs. *)
LEMMA TodoCases ==
  ASSUME todo \in Todo
  PROVE  \/ todo = Idle /\ todo.op = "idle"
         \/ todo.op = "select" /\ todo.i \in Slot /\ todo.j \in Slot
         \/ todo.op = "squash" /\ todo.i \in Slot /\ todo.b \in Branch
BY DEF Todo, Idle

LEMMA IdleOp == Idle.op = "idle" /\ Idle \in Todo
BY DEF Idle, Todo

(* An entry that is valid stands somewhere on the list. *)
LEMMA OnListAt ==
  ASSUME NEW p, Listed(p), NEW i \in Valid
  PROVE  \E k \in 1 .. length : p[k] = i
BY DEF Listed, Chain, Valid

(* An entry stays one when it is invalidated, woken or forgets a branch.   *)
LEMMA EntryUpdates ==
  ASSUME NEW e \in Entry
  PROVE  /\ [e EXCEPT !.valid = FALSE] \in Entry
         /\ \A t : [e EXCEPT !.waiting = @ \ {t}] \in Entry
         /\ \A b : [e EXCEPT !.branch_mask = @ \ {b}] \in Entry
<1>1. [e EXCEPT !.valid = FALSE] \in Entry
  BY DEF Entry
<1>2. \A t : [e EXCEPT !.waiting = @ \ {t}] \in Entry
  BY DEF Entry
<1>3. \A b : [e EXCEPT !.branch_mask = @ \ {b}] \in Entry
  BY DEF Entry
<1> QED
  BY <1>1, <1>2, <1>3

(* remove() takes the k-th entry of the age list off it, and nothing else  *)
(* changes hands.                                                          *)
LEMMA RemoveEffect ==
  ASSUME TypeOK, NEW p, Listed(p), FreeHeld, NEW n \in Nat, n = length,
         NEW k \in 1 .. n, NEW i, i = p[k], remove(i)
  PROVE  /\ q' \in [Slot -> Entry]
         /\ Valid' = Valid \ {i}
         /\ \A x \in Slot : x # i => q'[x] = q[x]
         /\ length' = length - 1 /\ length' \in 0 .. Size
         /\ prev' \in Pointers /\ next' \in Pointers
         /\ oldest' \in Slot \cup {Nil} /\ youngest' \in Slot \cup {Nil}
         /\ fl' \in [Slot -> Slot] /\ fl_head' \in Slot /\ fl_tail' \in Slot
         /\ fl_length' \in 0 .. Size
         /\ Listed(Dropped(p, n, k))'
         /\ FreeHeld'
<1>0. Size \in Nat \ {0}
  BY IssueQueueAssumption
<1>1. /\ q \in [Slot -> Entry] /\ length \in Nat /\ length <= Size
      /\ prev \in Pointers /\ next \in Pointers
      /\ oldest \in Slot \cup {Nil} /\ youngest \in Slot \cup {Nil}
      /\ fl \in [Slot -> Slot] /\ fl_head \in Slot /\ fl_tail \in Slot /\ fl_length \in 0 .. Size
  BY <1>0 DEF TypeOK, Pointers
<1>2. i \in Slot /\ i \in Valid
  <2>1. p[k] \in Slot /\ (p[k] \in Valid <=> \E m \in 1 .. length : p[m] = p[k])
    BY DEF Listed, Chain
  <2> QED
    BY <2>1
<1>3. /\ q' = [q EXCEPT ![i].valid = FALSE] /\ length' = length - 1
      /\ fl' = [fl EXCEPT ![fl_tail] = i]
      /\ fl_tail' = (fl_tail + 1) % Size /\ fl_length' = fl_length + 1 /\ fl_head' = fl_head
      /\ prev' = IF youngest = i THEN prev ELSE [prev EXCEPT ![next[i]] = prev[i]]
      /\ next' = IF oldest = i THEN next ELSE [next EXCEPT ![prev[i]] = next[i]]
      /\ oldest' = IF oldest = i THEN next[i] ELSE oldest
      /\ youngest' = IF youngest = i THEN prev[i] ELSE youngest
  BY DEF remove, unlink
<1>4. q' \in [Slot -> Entry] /\ \A x \in Slot : x # i => q'[x] = q[x]
  <2>1. [q[i] EXCEPT !.valid = FALSE] \in Entry
    <3>1. q[i] \in Entry
      BY <1>1, <1>2
    <3> QED
      BY <3>1, EntryUpdates
  <2>2. q' = [q EXCEPT ![i] = [q[i] EXCEPT !.valid = FALSE]]
    BY <1>3
  <2> QED
    BY <1>1, <1>2, <2>1, <2>2
<1>5. ~q'[i].valid
  BY <1>1, <1>2, <1>3 DEF Entry
<1>6. Valid' = Valid \ {i}
  BY <1>2, <1>4, <1>5 DEF Valid
<1>7. length' \in 0 .. Size /\ fl_length \in 0 .. Size - 1 /\ fl_length' \in 0 .. Size
  BY <1>0, <1>1, <1>3 DEF FreeHeld
<1>8. /\ prev' \in Pointers /\ next' \in Pointers
      /\ oldest' \in Slot \cup {Nil} /\ youngest' \in Slot \cup {Nil}
  <2>1. prev[i] \in Slot \cup {Nil} /\ next[i] \in Slot \cup {Nil}
    BY <1>1, <1>2 DEF Pointers
  <2> QED
    BY <1>1, <1>3, <2>1 DEF Pointers
<1>9. Listed(Dropped(p, n, k))'
  <2>1. Chain(p, n, oldest, youngest, prev, next, Valid)
    BY Zenon DEF Listed
  <2>2. length' = n - 1
    BY <1>3
  <2>4. Unlinked(i, oldest, youngest, prev, next, oldest', youngest', prev', next')
    BY <1>3, Zenon DEF Unlinked
  <2>3. Chain(Dropped(p, n, k), length', oldest', youngest', prev', next', Valid')
    BY <1>1, <1>6, <2>1, <2>2, <2>4, UnlinkChain
  <2> QED
    BY <2>3 DEF Listed
<1>10. fl_tail' = Place(fl_head, fl_length + 1) /\ fl_tail' \in Slot
  <2>1. fl_tail' = Place(fl_tail, 1) /\ fl_tail = Place(fl_head, fl_length)
    BY <1>3 DEF Place, FreeHeld
  <2>2. Place(fl_tail, 1) = Place(fl_head, fl_length + 1)
    BY <1>1, <1>7, <2>1, PlaceStep
  <2>3. Place(fl_tail, 1) \in Slot
    BY <1>0, <1>1, Places
  <2> QED
    BY <2>1, <2>2, <2>3
<1>11. Spares(fl', fl_head, fl_length + 1, Valid \ {i})
  BY <1>1, <1>2, <1>3, <1>7, GiveSpare DEF FreeHeld
<1>12. length' + fl_length' = Size
  BY <1>0, <1>1, <1>3 DEF FreeHeld
<1>13. FreeHeld'
  BY <1>3, <1>6, <1>10, <1>11, <1>12 DEF FreeHeld
<1>14. fl' \in [Slot -> Slot] /\ fl_head' \in Slot
  BY <1>1, <1>2, <1>3
<1> QED
  BY <1>3, <1>4, <1>6, <1>7, <1>8, <1>9, <1>10, <1>13, <1>14

(* Bits(open) is a set of branches. *)
LEMMA BitsType ==
  ASSUME open \in Seq(Branch)
  PROVE  Bits(open) \subseteq Branch /\ Bits(open) = {open[n] : n \in 1 .. Len(open)}
BY DEF Bits

(* Dispatch() takes the entry at the head of the free list and puts it at  *)
(* the young end of the age list.                                          *)
LEMMA DispatchEffect ==
  ASSUME TypeOK, NEW p, Listed(p), FreeHeld, NEW n \in Nat, n = length,
         NEW insn \in Insns, NEW b \in Branch \cup {NoBranch}, Dispatch(insn, b),
         NEW f, f = fl[fl_head]
  PROVE  /\ f \in Slot /\ f \notin Valid
         /\ q' \in [Slot -> Entry]
         /\ Valid' = Valid \cup {f}
         /\ \A x \in Slot : x # f => q'[x] = q[x]
         /\ q'[f] = [valid |-> TRUE, srcs |-> insn.srcs, waiting |-> NotReady(insn),
                     lanes |-> insn.lanes, branch_mask |-> Bits(open), branch |-> b]
         /\ length' = length + 1 /\ length' \in 0 .. Size
         /\ prev' \in Pointers /\ next' \in Pointers
         /\ oldest' \in Slot \cup {Nil} /\ youngest' \in Slot \cup {Nil}
         /\ fl' \in [Slot -> Slot] /\ fl_head' \in Slot /\ fl_tail' \in Slot
         /\ fl_length' \in 0 .. Size
         /\ Listed(Extended(p, n, f))'
         /\ FreeHeld'
<1>0. Size \in Nat \ {0} /\ 1 \in 0 .. Size /\ 0 \in 0 .. Size
  BY IssueQueueAssumption
<1>1. /\ q \in [Slot -> Entry] /\ length \in Nat /\ length <= Size
      /\ prev \in Pointers /\ next \in Pointers
      /\ oldest \in Slot \cup {Nil} /\ youngest \in Slot \cup {Nil}
      /\ fl \in [Slot -> Slot] /\ fl_head \in Slot /\ fl_tail \in Slot /\ fl_length \in 0 .. Size
      /\ open \in Seq(Branch)
  BY <1>0 DEF TypeOK, Pointers
<1> DEFINE new == [valid |-> TRUE, srcs |-> insn.srcs, waiting |-> NotReady(insn),
                   lanes |-> insn.lanes, branch_mask |-> Bits(open), branch |-> b]
<1>2. /\ q' = [q EXCEPT ![f] = new] /\ length' = length + 1
      /\ fl' = fl /\ fl_tail' = fl_tail
      /\ fl_head' = (fl_head + 1) % Size /\ fl_length' = fl_length - 1
      /\ prev' = [prev EXCEPT ![f] = youngest]
      /\ next' = IF oldest = Nil THEN [next EXCEPT ![f] = Nil]
                                 ELSE [next EXCEPT ![f] = Nil, ![youngest] = f]
      /\ oldest' = IF oldest = Nil THEN f ELSE oldest
      /\ youngest' = f
  BY DEF Dispatch, link
<1>3. fl_length \in 1 .. Size
  BY <1>0, <1>1 DEF Dispatch, stall
<1>4. f \in Slot
  BY <1>1
<1>5. f \notin Valid /\ Spares(fl, Place(fl_head, 1), fl_length - 1, Valid \cup {f})
  BY <1>1, <1>3, TakeSpare DEF FreeHeld
<1>6. new \in Entry
  <2>1. insn.srcs \subseteq PhysReg /\ insn.inum \subseteq Inum /\ insn.lanes \subseteq Lane
    BY IssueQueueAssumption
  <2>2. NotReady(insn) \subseteq Tag
    BY <2>1 DEF NotReady, Tag
  <2>3. Bits(open) \subseteq Branch
    BY <1>1, BitsType
  <2> HIDE DEF new
  <2>4. new = [valid |-> TRUE, srcs |-> insn.srcs, waiting |-> NotReady(insn),
               lanes |-> insn.lanes, branch_mask |-> Bits(open), branch |-> b]
    BY DEF new
  <2> QED
    BY <2>1, <2>2, <2>3, <2>4 DEF Entry
<1>7. q'[f] = new /\ q' \in [Slot -> Entry] /\ \A x \in Slot : x # f => q'[x] = q[x]
  <2> HIDE DEF new
  <2> QED
    BY <1>1, <1>2, <1>4, <1>6
<1>8. Valid' = Valid \cup {f}
  <2>1. q'[f].valid
    BY <1>7
  <2> QED
    BY <1>4, <1>7, <2>1 DEF Valid
<1>9. length' \in 0 .. Size /\ fl_length' \in 0 .. Size /\ length' + fl_length' = Size
  BY <1>0, <1>1, <1>2, <1>3 DEF FreeHeld
<1>10. prev' \in Pointers /\ next' \in Pointers
  BY <1>1, <1>2, <1>4 DEF Pointers
<1>11. Listed(Extended(p, n, f))'
  <2>1. Chain(p, n, oldest, youngest, prev, next, Valid)
    BY DEF Listed
  <2>2. length' = n + 1 /\ youngest' = f
    BY <1>2
  <2>4. Linked(f, oldest, youngest, prev, next, oldest', prev', next')
    BY <1>2, Zenon DEF Linked
  <2>3. Chain(Extended(p, n, f), length', oldest', youngest', prev', next', Valid')
    BY <1>1, <1>4, <1>5, <1>8, <2>1, <2>2, <2>4, LinkChain
  <2> QED
    BY <2>3 DEF Listed
<1>12. fl_head' = Place(fl_head, 1) /\ fl_head' \in Slot
  BY <1>0, <1>1, <1>2, Places DEF Place
<1>13. fl_tail' = Place(fl_head', fl_length')
  <2>1. fl_length - 1 \in 0 .. Size - 1 /\ fl_length - 1 + 1 = fl_length
    BY <1>0, <1>3
  <2>2. Place(Place(fl_head, 1), fl_length - 1) = Place(fl_head, fl_length - 1 + 1)
    BY <1>1, <2>1, Places
  <2> QED
    BY <1>2, <1>12, <2>1, <2>2 DEF FreeHeld
<1>14. FreeHeld'
  <2>1. Spares(fl', fl_head', fl_length', Valid')
    BY <1>2, <1>5, <1>8, <1>12
  <2> QED
    BY <1>9, <1>13, <2>1 DEF FreeHeld
<1> QED
  BY <1>1, <1>2, <1>4, <1>5, <1>7, <1>8, <1>9, <1>10, <1>11, <1>12, <1>14

-----------------------------------------------------------------------------
(* What each of the other actions does to the lists. *)

(* The types of the lists, and of everything else. *)
ListsType == /\ q \in [Slot -> Entry] /\ length \in 0 .. Size
             /\ prev \in Pointers /\ next \in Pointers
             /\ oldest \in Slot \cup {Nil} /\ youngest \in Slot \cup {Nil}
             /\ fl \in [Slot -> Slot] /\ fl_head \in Slot /\ fl_tail \in Slot
             /\ fl_length \in 0 .. Size
OtherType == /\ part_next \in Slot /\ rr \subseteq Lane /\ ready \subseteq PhysReg
             /\ open \in Seq(Branch) /\ todo \in Todo /\ age_based \in BOOLEAN

LEMMA TypeParts == TypeOK <=> ListsType /\ OtherType
BY DEF TypeOK, ListsType, OtherType, Pointers

(* The lists stay as they are where the same entries are valid.            *)
LEMMA SameEntries ==
  ASSUME ListsType, q' \in [Slot -> Entry], \A i \in Slot : q'[i].valid = q[i].valid,
         UNCHANGED <<length, age_list, free_list>>
  PROVE  /\ ListsType' /\ Valid' = Valid
         /\ FreeHeld => FreeHeld'
         /\ \A p : Listed(p) => Listed(p)'
<1>1. /\ length' = length /\ prev' = prev /\ next' = next
      /\ oldest' = oldest /\ youngest' = youngest
      /\ fl' = fl /\ fl_head' = fl_head /\ fl_tail' = fl_tail /\ fl_length' = fl_length
  BY DEF age_list, free_list
<1>2. ListsType'
  BY <1>1 DEF ListsType
<1>3. Valid' = Valid
  BY DEF Valid
<1>4. FreeHeld => FreeHeld'
  BY <1>1, <1>3 DEF FreeHeld
<1>5. \A p : Listed(p) => Listed(p)'
  BY <1>1, <1>3 DEF Listed
<1> QED
  BY <1>2, <1>3, <1>4, <1>5

LEMMA SameLists ==
  ASSUME ListsType, UNCHANGED iq_vars
  PROVE  /\ q' = q
         /\ ListsType' /\ Valid' = Valid
         /\ FreeHeld => FreeHeld'
         /\ \A p : Listed(p) => Listed(p)'
<1>1. q' = q /\ UNCHANGED <<length, age_list, free_list>>
  BY DEF iq_vars, entries, age_list, free_list
<1>2. q' \in [Slot -> Entry] /\ \A i \in Slot : q'[i].valid = q[i].valid
  BY <1>1 DEF ListsType
<1>3. ListsType' /\ Valid' = Valid /\ (FreeHeld => FreeHeld') /\ \A p : Listed(p) => Listed(p)'
  BY <1>1, <1>2, SameEntries
<1> QED
  BY <1>1, <1>3

(* A broadcast leaves every valid entry as it is but for the tag.          *)
LEMMA WokenEffect ==
  ASSUME q \in [Slot -> Entry], NEW t, q' = Woken(t)
  PROVE  /\ q' \in [Slot -> Entry]
         /\ \A i \in Slot : q'[i].valid = q[i].valid
         /\ \A i \in Valid : q'[i] = [q[i] EXCEPT !.waiting = @ \ {t}]
<1>1. \A i \in Slot : [q[i] EXCEPT !.waiting = @ \ {t}] \in Entry
  BY EntryUpdates
<1>2. q' \in [Slot -> Entry]
  BY <1>1 DEF Woken
<1>3. \A i \in Slot : [q[i] EXCEPT !.waiting = @ \ {t}].valid = q[i].valid
  BY DEF Entry
<1>4. \A i \in Slot : q'[i] = IF q[i].valid THEN [q[i] EXCEPT !.waiting = @ \ {t}] ELSE q[i]
  BY DEF Woken
<1>5. \A i \in Slot : q'[i].valid = q[i].valid
  BY <1>3, <1>4
<1> QED
  BY <1>2, <1>4, <1>5 DEF Valid

(* So does a correct resolution but for the mask.                          *)
LEMMA ClearEffect ==
  ASSUME q \in [Slot -> Entry], NEW b, q' = clear_branch_bit(b)
  PROVE  /\ q' \in [Slot -> Entry]
         /\ \A i \in Slot : /\ q'[i] = [q[i] EXCEPT !.branch_mask = @ \ {b}]
                            /\ q'[i].valid = q[i].valid
                            /\ q'[i].waiting = q[i].waiting /\ q'[i].srcs = q[i].srcs
                            /\ q'[i].branch_mask = q[i].branch_mask \ {b}
<1>1. \A i \in Slot : [q[i] EXCEPT !.branch_mask = @ \ {b}] \in Entry
  BY EntryUpdates
<1>2. q' \in [Slot -> Entry]
  BY <1>1 DEF clear_branch_bit
<1>3. \A i \in Slot : LET e == [q[i] EXCEPT !.branch_mask = @ \ {b}]
                      IN  /\ e.valid = q[i].valid /\ e.waiting = q[i].waiting /\ e.srcs = q[i].srcs
                          /\ e.branch_mask = q[i].branch_mask \ {b}
  BY DEF Entry
<1>4. \A i \in Slot : q'[i] = [q[i] EXCEPT !.branch_mask = @ \ {b}]
  BY DEF clear_branch_bit
<1> QED
  BY <1>2, <1>3, <1>4

(* Empty lists: no entry is valid, and the free list counts from 0.        *)
LEMMA EmptyLists ==
  ASSUME Valid = {}, length = 0, oldest = Nil, youngest = Nil, fl = [i \in Slot |-> i],
         fl_head = 0, fl_tail = 0, fl_length = Size
  PROVE  FreeHeld /\ Listed([k \in 1 .. 0 |-> 0])
<1>0. Size \in Nat \ {0}
  BY IssueQueueAssumption
<1>1. \A k \in 0 .. Size - 1 : Place(0, k) = k
  BY <1>0, Forward DEF Place
<1>2. Place(0, Size) = 0
  BY <1>0, Forward DEF Place
<1>3. \A k \in 0 .. Size - 1 : fl[Place(0, k)] = k
  BY <1>1 DEF Slot
<1>4. Spares(fl, 0, Size, {})
  BY <1>3 DEF Spares, Slot
<1>5. FreeHeld
  BY <1>0, <1>2, <1>4 DEF FreeHeld
<1>6. Listed([k \in 1 .. 0 |-> 0])
  BY DEF Listed, Chain
<1> QED
  BY <1>5, <1>6

LEMMA FlushEffect ==
  ASSUME ListsType, Flush
  PROVE  ListsType' /\ Valid' = {} /\ FreeHeld' /\ Listed([k \in 1 .. 0 |-> 0])'
<1>0. Size \in Nat \ {0}
  BY IssueQueueAssumption
<1>1. /\ q' = [i \in Slot |-> [q[i] EXCEPT !.valid = FALSE]]
      /\ length' = 0 /\ fl' = [i \in Slot |-> i]
      /\ fl_head' = 0 /\ fl_tail' = 0 /\ fl_length' = Size
      /\ oldest' = Nil /\ youngest' = Nil /\ prev' = prev /\ next' = next
  BY DEF Flush
<1>2. \A i \in Slot : [q[i] EXCEPT !.valid = FALSE] \in Entry
  BY EntryUpdates DEF ListsType
<1>3. q' \in [Slot -> Entry]
  BY <1>1, <1>2
<1>4. \A i \in Slot : ~[q[i] EXCEPT !.valid = FALSE].valid
  BY DEF ListsType, Entry
<1>5. Valid' = {}
  BY <1>1, <1>4 DEF Valid
<1>6. ListsType'
  BY <1>0, <1>1, <1>3 DEF ListsType, Slot
<1>7. Valid = {} /\ length = 0 /\ oldest = Nil /\ youngest = Nil /\ fl = [i \in Slot |-> i]
        /\ fl_head = 0 /\ fl_tail = 0 /\ fl_length = Size
      => FreeHeld /\ Listed([k \in 1 .. 0 |-> 0])
  BY EmptyLists
<1>8. (Valid = {} /\ length = 0 /\ oldest = Nil /\ youngest = Nil /\ fl = [i \in Slot |-> i]
        /\ fl_head = 0 /\ fl_tail = 0 /\ fl_length = Size
      => FreeHeld /\ Listed([k \in 1 .. 0 |-> 0]))'
  BY <1>7, EmptyLists, PTL
<1> QED
  BY <1>1, <1>5, <1>6, <1>8

(* A visit of the scan issues the entry to a lane that is free and that it *)
(* may use, or finds it invalid, not ready, or without such a lane.        *)
LEMMA SelectEffect ==
  ASSUME TypeOK, SelectEntry, NEW i, i = todo.i
  PROVE  /\ i \in Slot
         /\ \/ UNCHANGED <<iq_vars, rr>> /\ (i \in Valid => Caught(i))
            \/ i \in Valid /\ remove(i) /\ \E l \in q[i].lanes \ rr : l \in Lane /\ rr' = rr \cup {l}
<1>0. todo.op = "select" /\ todo \in Todo /\ q \in [Slot -> Entry]
  BY DEF SelectEntry, TypeOK
<1>1. i \in Slot
  BY <1>0, TodoCases, IdleOp
<1>2. q[i].lanes \subseteq Lane /\ Lane \subseteq Nat
  BY <1>0, <1>1, IssueQueueAssumption DEF Entry
<1>3. CASE IsReady(i) /\ FreeLanes(i) # {}
  <2>1. remove(i) /\ rr' = rr \cup {Chosen(i)}
    BY <1>3 DEF SelectEntry
  <2>2. Chosen(i) \in FreeLanes(i)
    <3> DEFINE F == FreeLanes(i)
    <3>1. F \subseteq Nat /\ F # {}
      BY <1>2, <1>3 DEF FreeLanes
    <3>2. PICK x \in F : TRUE
      BY <3>1
    <3> DEFINE B == {y \in 0 .. x : y \in F}
    <3>3. B \in SUBSET Int /\ B # {} /\ IsFiniteSet(B)
      <4>1. IsFiniteSet(0 .. x) /\ B \subseteq 0 .. x
        BY <3>1, <3>2, FS_Interval
      <4>2. x \in B
        BY <3>1, <3>2
      <4> QED
        BY <4>1, <4>2, FS_Subset
    <3>4. PICK l \in B : \A k \in B : l <= k
      BY <3>3, LeastExists
    <3>5. l \in F /\ \A k \in F : l <= k
      BY <3>1, <3>2, <3>4
    <3> QED
      BY <3>5 DEF Chosen
  <2>3. Chosen(i) \in q[i].lanes \ rr
    BY <2>2 DEF FreeLanes
  <2>4. i \in Valid
    BY <1>1, <1>3 DEF IsReady, Valid
  <2> QED
    BY <1>1, <1>2, <2>1, <2>3, <2>4
<1>4. CASE ~(IsReady(i) /\ FreeLanes(i) # {})
  <2>1. UNCHANGED <<iq_vars, rr>>
    BY <1>4 DEF SelectEntry
  <2>2. i \in Valid => Caught(i)
    BY <1>4 DEF IsReady, Valid, Caught, FreeLanes
  <2> QED
    BY <1>1, <2>1, <2>2
<1> QED
  BY <1>3, <1>4

(* The partitions have one size and fill the queue.                        *)
LEMMA PartSize == part_size \in Nat \ {0} /\ NumParts * part_size = Size
<1>1. Size \in Nat \ {0} /\ NumParts \in 1 .. Size /\ Size % NumParts = 0
  BY IssueQueueAssumption
<1>2. part_size \in Nat
  BY <1>1 DEF part_size
<1>3. Size = (NumParts * part_size) + (Size % NumParts)
  BY <1>1 DEF part_size
<1> QED
  BY <1>1, <1>2, <1>3

(* The round-robin scan starts at the next partition each time.            *)
LEMMA RotatedTurns ==
  ASSUME part_next \in Slot, Turns
  PROVE  Rotated \in Slot /\ \E m \in 1 .. NumParts : Rotated + m * part_size = Size
<1>0. Size \in Nat \ {0} /\ NumParts \in Nat \ {0} /\ part_size \in Nat \ {0}
  BY IssueQueueAssumption, PartSize
<1>1. PICK m \in 1 .. NumParts : part_next + m * part_size = Size
  BY DEF Turns
<1>2. part_next \in 0 .. Size - 1
  BY DEF Slot
<1>3. CASE part_next + part_size = Size
  <2>1. Rotated = 0
    BY <1>3 DEF Rotated
  <2>2. 0 + NumParts * part_size = Size /\ NumParts \in 1 .. NumParts
    BY <1>0, PartSize
  <2> QED
    BY <1>0, <2>1, <2>2 DEF Slot
<1>4. CASE part_next + part_size # Size
  <2>1. Rotated = part_next + part_size
    BY <1>4 DEF Rotated
  <2>2. m # 1
    BY <1>0, <1>1, <1>4
  <2>3. m - 1 \in 1 .. NumParts
    BY <1>0, <2>2
  <2>4. (m - 1) * part_size = m * part_size - part_size
    BY <1>0
  <2>5. m * part_size \in Int
    BY <1>0
  <2>6. Rotated + (m - 1) * part_size = Size
    BY <1>0, <1>1, <1>2, <2>1, <2>4, <2>5
  <2>7. (m - 1) * part_size \in Nat \ {0}
    BY <1>0, <2>3
  <2>8. Rotated \in 0 .. Size - 1
    BY <1>0, <1>2, <2>1, <2>6, <2>7
  <2> QED
    BY <2>3, <2>6, <2>8 DEF Slot
<1> QED
  BY <1>3, <1>4

-----------------------------------------------------------------------------
(* The steps keep the invariant, one part of it after the other. *)

(* The lists after a step that keeps them. *)
LEMMA KeptLists ==
  ASSUME IInv, ListsType', FreeHeld', \A p : Listed(p) => Listed(p)', (todo.op # "select")'
  PROVE  ListsType' /\ FreeHeld' /\ OnList'
<1>1. PICK p : Listed(p)
  BY DEF IInv, OnList
<1>2. Listed(p)'
  BY <1>1
<1>3. ScanAt(p)'
  BY DEF ScanAt
<1> QED
  BY <1>2, <1>3 DEF OnList

(* SelectBegin puts an age-based scan at the oldest entry. *)
LEMMA BeginKeepsLists ==
  ASSUME IInv, SelectBegin
  PROVE  ListsType' /\ FreeHeld' /\ OnList'
<1>0. Size \in Nat \ {0} /\ ListsType /\ FreeHeld /\ length \in Nat /\ length <= Size
  BY IssueQueueAssumption, TypeParts DEF IInv, TypeOK
<1>1. UNCHANGED iq_vars /\ age_based' = age_based
  BY DEF SelectBegin
<1>2. q' = q /\ ListsType' /\ FreeHeld' /\ \A p : Listed(p) => Listed(p)'
  BY <1>0, <1>1, SameLists
<1>3. PICK p : Listed(p)
  BY DEF IInv, OnList
<1>4. length' = length
  BY <1>1 DEF iq_vars, entries
<1>5. ASSUME age_based, (todo.op = "select")' PROVE \E m \in 1 .. length : Reached(p, m)'
  <2>1. oldest # Nil /\ todo' = [op |-> "select", i |-> oldest, j |-> 0]
    BY <1>5, IdleOp DEF SelectBegin
  <2>2. length > 0 /\ oldest = p[1]
    BY <1>0, <1>3, <2>1 DEF Listed, Chain
  <2>3. todo'.i = p[1] /\ todo'.j = 0
    BY <2>1, <2>2
  <2>4. p[1] = todo'.i /\ todo'.j + length' - 1 < Size
    BY <1>0, <1>4, <2>3
  <2>5. Reached(p, 1)'
    BY <2>4 DEF Reached
  <2> QED
    BY <1>0, <2>2, <2>5
<1>6. ScanAt(p)'
  BY <1>1, <1>4, <1>5 DEF ScanAt
<1> QED
  BY <1>2, <1>3, <1>6 DEF OnList

(* The age-based scan goes on to the next entry of the list, which is where *)
(* the one that has just issued stood.                                     *)
LEMMA VisitKeepsLists ==
  ASSUME IInv, SelectEntry
  PROVE  ListsType' /\ FreeHeld' /\ OnList'
<1>0. Size \in Nat \ {0} /\ ListsType /\ FreeHeld /\ TypeOK
  BY IssueQueueAssumption, TypeParts DEF IInv
<1>1. PICK i : i = todo.i
  OBVIOUS
<1>2. PICK p : Listed(p) /\ ScanAt(p)
  BY DEF IInv, OnList
<1>3. PICK n \in Nat : n = length
  BY <1>0 DEF ListsType
<1>4. PICK j \in 0 .. Size - 1 : j = todo.j
  BY <1>0, TodoCases, IdleOp DEF SelectEntry, TypeOK, Slot
<1>5. /\ age_based' = age_based
      /\ todo' = IF ScanEnds(i, j) THEN Idle
                 ELSE [op |-> "select", i |-> ScanNext(i), j |-> j + 1]
  BY <1>1, <1>4 DEF SelectEntry
<1>6. i \in Slot
  BY <1>0, <1>1, SelectEffect
<1>7. ASSUME age_based, (todo.op = "select")'
      PROVE  /\ next[i] # Nil /\ todo'.i = next[i] /\ todo'.j = j + 1
             /\ \E m \in 1 .. n - 1 : /\ p[m] = i /\ next[i] = p[m + 1] /\ j + 1 + n - (m + 1) < Size
                                      /\ \A k \in 1 .. m - 1 : Caught(p[k])
  <2>1. ~ScanEnds(i, j) /\ next[i] # Nil /\ todo' = [op |-> "select", i |-> next[i], j |-> j + 1]
    BY <1>5, <1>7, IdleOp DEF ScanEnds, ScanNext
  <2>2. PICK m \in 1 .. n : Reached(p, m)
    BY <1>2, <1>3, <1>7 DEF ScanAt, SelectEntry
  <2>3. p[m] = i /\ j + n - m < Size /\ \A k \in 1 .. m - 1 : Caught(p[k])
    BY <1>1, <1>3, <1>4, <2>2 DEF Reached
  <2>4. next[i] = IF m = n THEN Nil ELSE p[m + 1]
    BY <1>2, <1>3, <2>3 DEF Listed, Chain
  <2>5. m \in 1 .. n - 1 /\ next[i] = p[m + 1] /\ j + 1 + n - (m + 1) < Size
    BY <1>0, <2>1, <2>3, <2>4
  <2> QED
    BY <2>1, <2>3, <2>5
<1>8. CASE UNCHANGED <<iq_vars, rr>> /\ (i \in Valid => Caught(i))
  <2>1. q' = q /\ rr' = rr /\ ListsType' /\ FreeHeld' /\ Listed(p)' /\ length' = length
    BY <1>0, <1>2, <1>8, SameLists DEF iq_vars, entries
  <2>2. ASSUME age_based, (todo.op = "select")' PROVE \E m \in 1 .. n : Reached(p, m)'
    <3>1. PICK m \in 1 .. n - 1 : /\ p[m] = i /\ next[i] = p[m + 1] /\ j + 1 + n - (m + 1) < Size
                                  /\ \A k \in 1 .. m - 1 : Caught(p[k])
      BY <1>7, <2>2
    <3>2. i \in Valid
      BY <1>2, <1>3, <1>6, <3>1 DEF Listed, Chain
    <3>3. \A k \in 1 .. m : Caught(p[k])
      BY <1>8, <3>1, <3>2
    <3>4. \A k \in 1 .. m + 1 - 1 : Caught(p[k])'
      BY <2>1, <3>3 DEF Caught
    <3>5. p[m + 1] = todo'.i /\ todo'.j + length' - (m + 1) < Size /\ m + 1 \in 1 .. n
      BY <1>3, <1>7, <2>1, <2>2, <3>1
    <3>6. Reached(p, m + 1)'
      BY <3>4, <3>5 DEF Reached
    <3> QED
      BY <3>5, <3>6
  <2>3. ScanAt(p)'
    BY <1>3, <1>5, <2>1, <2>2 DEF ScanAt
  <2> QED
    BY <2>1, <2>3 DEF OnList
<1>9. CASE i \in Valid /\ remove(i) /\ \E l \in q[i].lanes \ rr : l \in Lane /\ rr' = rr \cup {l}
  <2>1. PICK k \in 1 .. n : p[k] = i
    BY <1>2, <1>3, <1>9, OnListAt
  <2>2. PICK d : d = Dropped(p, n, k)
    OBVIOUS
  <2>3. /\ \A x \in Slot : x # i => q'[x] = q[x]
        /\ length' = n - 1 /\ ListsType' /\ FreeHeld' /\ Listed(d)'
    <3>1. /\ q' \in [Slot -> Entry] /\ \A x \in Slot : x # i => q'[x] = q[x]
          /\ length' = length - 1 /\ length' \in 0 .. Size
          /\ prev' \in Pointers /\ next' \in Pointers
          /\ oldest' \in Slot \cup {Nil} /\ youngest' \in Slot \cup {Nil}
          /\ fl' \in [Slot -> Slot] /\ fl_head' \in Slot /\ fl_tail' \in Slot
          /\ fl_length' \in 0 .. Size
          /\ Listed(Dropped(p, n, k))' /\ FreeHeld'
      BY <1>0, <1>2, <1>3, <1>9, <2>1, RemoveEffect
    <3> QED
      BY <1>3, <2>2, <3>1 DEF ListsType
  <2>4. ASSUME age_based, (todo.op = "select")' PROVE \E m \in 1 .. n - 1 : Reached(d, m)'
    <3>1. PICK m \in 1 .. n - 1 : /\ p[m] = i /\ next[i] = p[m + 1] /\ j + 1 + n - (m + 1) < Size
                                  /\ \A l \in 1 .. m - 1 : Caught(p[l])
      BY <1>7, <2>4
    <3>2. /\ m = k /\ \A l \in 1 .. m - 1 : p[l] # i /\ p[l] \in Slot
      BY <1>2, <1>3, <2>1, <3>1 DEF Listed, Chain
    <3>3. d[m] = p[m + 1] /\ \A l \in 1 .. m - 1 : d[l] = p[l]
      BY <2>2, <3>2 DEF Dropped
    <3>4. rr \subseteq rr'
      BY <1>9
    <3>5. \A l \in 1 .. m - 1 : Caught(d[l])'
      BY <2>3, <3>1, <3>2, <3>3, <3>4 DEF Caught
    <3>6. d[m] = todo'.i /\ todo'.j + length' - m < Size
      BY <1>7, <2>3, <2>4, <3>1, <3>3
    <3>7. Reached(d, m)'
      BY <3>5, <3>6 DEF Reached
    <3> QED
      BY <3>7
  <2>5. ScanAt(d)'
    BY <1>5, <2>3, <2>4 DEF ScanAt
  <2> QED
    BY <2>3, <2>5 DEF OnList
<1> QED
  BY <1>0, <1>1, <1>8, <1>9, SelectEffect

(* The walk of squash takes entries off wherever they stand. *)
LEMMA SquashKeepsLists ==
  ASSUME IInv, SquashEntry
  PROVE  ListsType' /\ FreeHeld' /\ OnList'
<1>0. Size \in Nat \ {0} /\ ListsType /\ FreeHeld /\ TypeOK
  BY IssueQueueAssumption, TypeParts DEF IInv
<1>1. PICK i \in Slot : i = todo.i
  BY <1>0, TodoCases, IdleOp DEF SquashEntry, TypeOK
<1>2. PICK p : Listed(p)
  BY DEF IInv, OnList
<1>3. PICK n \in Nat : n = length
  BY <1>0 DEF ListsType
<1>4. (todo.op # "select")'
  BY IdleOp DEF SquashEntry
<1>5. CASE UNCHANGED iq_vars
  <2>1. ListsType' /\ FreeHeld' /\ \A r : Listed(r) => Listed(r)'
    BY <1>0, <1>5, SameLists
  <2> QED
    BY <1>4, <2>1, KeptLists
<1>6. CASE i \in Valid /\ remove(i)
  <2>1. PICK k \in 1 .. n : p[k] = i
    BY <1>2, <1>3, <1>6, OnListAt
  <2>2. PICK d : d = Dropped(p, n, k)
    OBVIOUS
  <2>3. ListsType' /\ FreeHeld' /\ Listed(d)'
    <3>1. /\ q' \in [Slot -> Entry]
          /\ length' \in 0 .. Size
          /\ prev' \in Pointers /\ next' \in Pointers
          /\ oldest' \in Slot \cup {Nil} /\ youngest' \in Slot \cup {Nil}
          /\ fl' \in [Slot -> Slot] /\ fl_head' \in Slot /\ fl_tail' \in Slot
          /\ fl_length' \in 0 .. Size
          /\ Listed(Dropped(p, n, k))' /\ FreeHeld'
      BY <1>0, <1>2, <1>3, <1>6, <2>1, RemoveEffect
    <3> QED
      BY <2>2, <3>1 DEF ListsType
  <2>4. ScanAt(d)'
    BY <1>4 DEF ScanAt
  <2> QED
    BY <2>3, <2>4 DEF OnList
<1> QED
  BY <1>1, <1>5, <1>6 DEF SquashEntry, Valid

LEMMA DispatchKeepsLists ==
  ASSUME IInv, NEW insn \in Insns, NEW b \in Branch \cup {NoBranch}, Dispatch(insn, b)
  PROVE  ListsType' /\ FreeHeld' /\ OnList'
<1>0. Size \in Nat \ {0} /\ ListsType /\ FreeHeld /\ TypeOK
  BY IssueQueueAssumption, TypeParts DEF IInv
<1>1. PICK f : f = fl[fl_head]
  OBVIOUS
<1>2. PICK p : Listed(p)
  BY DEF IInv, OnList
<1>3. PICK n \in Nat : n = length
  BY <1>0 DEF ListsType
<1>4. PICK e : e = Extended(p, n, f)
  OBVIOUS
<1>5. /\ q' \in [Slot -> Entry] /\ length' \in 0 .. Size
      /\ prev' \in Pointers /\ next' \in Pointers
      /\ oldest' \in Slot \cup {Nil} /\ youngest' \in Slot \cup {Nil}
      /\ fl' \in [Slot -> Slot] /\ fl_head' \in Slot /\ fl_tail' \in Slot
      /\ fl_length' \in 0 .. Size
      /\ Listed(Extended(p, n, f))' /\ FreeHeld'
  BY <1>0, <1>1, <1>2, <1>3, DispatchEffect
<1>6. ListsType' /\ FreeHeld' /\ Listed(e)'
  BY <1>4, <1>5 DEF ListsType
<1>7. (todo.op # "select")'
  BY IdleOp DEF Dispatch
<1>8. ScanAt(e)'
  BY <1>7 DEF ScanAt
<1> QED
  BY <1>6, <1>8 DEF OnList

LEMMA FlushKeepsLists ==
  ASSUME IInv, Flush
  PROVE  ListsType' /\ FreeHeld' /\ OnList'
<1>1. ListsType' /\ FreeHeld' /\ Listed([k \in 1 .. 0 |-> 0])'
  BY TypeParts, FlushEffect DEF IInv
<1>2. PICK e : e = [k \in 1 .. 0 |-> 0]
  OBVIOUS
<1>3. (todo.op # "select")'
  BY IdleOp DEF Flush
<1>4. ScanAt(e)'
  BY <1>3 DEF ScanAt
<1> QED
  BY <1>1, <1>2, <1>4 DEF OnList

(* The age list and the free list stay exact under every action.           *)
LEMMA ListsStep ==
  ASSUME IInv, Next
  PROVE  ListsType' /\ FreeHeld' /\ OnList'
<1>0. ListsType /\ q \in [Slot -> Entry]
  BY TypeParts DEF IInv, ListsType
<1>1. ASSUME q' \in [Slot -> Entry], \A i \in Slot : q'[i].valid = q[i].valid,
             UNCHANGED <<length, age_list, free_list>>, (todo.op # "select")'
      PROVE  ListsType' /\ FreeHeld' /\ OnList'
  <2>1. ListsType' /\ FreeHeld' /\ \A p : Listed(p) => Listed(p)'
    BY <1>0, <1>1, SameEntries DEF IInv
  <2> QED
    BY <1>1, <2>1, KeptLists
<1>2. ASSUME UNCHANGED iq_vars, (todo.op # "select")'
      PROVE  ListsType' /\ FreeHeld' /\ OnList'
  <2>1. ListsType' /\ FreeHeld' /\ \A p : Listed(p) => Listed(p)'
    BY <1>0, <1>2, SameLists DEF IInv
  <2> QED
    BY <1>2, <2>1, KeptLists
<1>3. ASSUME NEW insn \in Insns, NEW b \in Branch \cup {NoBranch}, Dispatch(insn, b)
      PROVE  ListsType' /\ FreeHeld' /\ OnList'
  BY <1>3, DispatchKeepsLists
<1>4. ASSUME NEW t \in PhysReg, Wakeup(t) PROVE ListsType' /\ FreeHeld' /\ OnList'
  <2>1. /\ q' = Woken(t) /\ UNCHANGED <<length, age_list, free_list>>
        /\ (todo.op # "select")'
    BY <1>4, IdleOp DEF Wakeup
  <2> QED
    BY <1>0, <1>1, <2>1, WokenEffect
<1>5. ASSUME NEW t \in Inum, WakeupStore(t) PROVE ListsType' /\ FreeHeld' /\ OnList'
  <2>1. /\ q' = Woken(t) /\ UNCHANGED <<length, age_list, free_list>>
        /\ (todo.op # "select")'
    BY <1>5, IdleOp DEF WakeupStore
  <2> QED
    BY <1>0, <1>1, <2>1, WokenEffect
<1>6. ASSUME NEW t \in PhysReg, NEW v \in BOOLEAN, Allocate(t, v)
      PROVE  ListsType' /\ FreeHeld' /\ OnList'
  <2>1. UNCHANGED iq_vars /\ (todo.op # "select")'
    BY <1>6, IdleOp DEF Allocate
  <2> QED
    BY <1>2, <2>1
<1>7. ASSUME SelectBegin PROVE ListsType' /\ FreeHeld' /\ OnList'
  BY <1>7, BeginKeepsLists
<1>8. ASSUME SelectEntry PROVE ListsType' /\ FreeHeld' /\ OnList'
  BY <1>8, VisitKeepsLists
<1>9. ASSUME NEW b \in Branch, ResolveCorrect(b) PROVE ListsType' /\ FreeHeld' /\ OnList'
  <2>1. /\ q' = clear_branch_bit(b) /\ UNCHANGED <<length, age_list, free_list>>
        /\ (todo.op # "select")'
    BY <1>9, IdleOp DEF ResolveCorrect
  <2> QED
    BY <1>0, <1>1, <2>1, ClearEffect
<1>10. ASSUME NEW b \in Branch, ResolveMispredict(b) PROVE ListsType' /\ FreeHeld' /\ OnList'
  <2>1. UNCHANGED iq_vars /\ (todo.op # "select")'
    BY <1>10 DEF ResolveMispredict
  <2> QED
    BY <1>2, <2>1
<1>11. ASSUME SquashEntry PROVE ListsType' /\ FreeHeld' /\ OnList'
  BY <1>11, SquashKeepsLists
<1>12. ASSUME Flush PROVE ListsType' /\ FreeHeld' /\ OnList'
  BY <1>12, FlushKeepsLists
<1> QED
  BY <1>3, <1>4, <1>5, <1>6, <1>7, <1>8, <1>9, <1>10, <1>11, <1>12 DEF Next

-----------------------------------------------------------------------------
(* The unresolved branches. *)

LEMMA PositionExact ==
  ASSUME open \in Seq(Branch), NEW b \in Bits(open)
  PROVE  Position(b) \in 1 .. Len(open) /\ open[Position(b)] = b
<1>1. \E n \in DOMAIN open : open[n] = b
  BY BitsType
<1>2. DOMAIN open = 1 .. Len(open)
  OBVIOUS
<1> QED
  BY <1>1, <1>2 DEF Position

LEMMA BeforeExact ==
  ASSUME open \in Seq(Branch), NEW b \in Bits(open)
  PROVE  /\ Before(b) \in Seq(Branch) /\ Len(Before(b)) = Position(b) - 1
         /\ \A n \in 1 .. Position(b) - 1 : Before(b)[n] = open[n]
<1>1. PICK k \in 1 .. Len(open) : k = Position(b)
  BY PositionExact
<1>2. Len(open) \in Nat
  OBVIOUS
<1>3. 1 \in 1 .. k /\ k - 1 \in 0 .. Len(open)
  BY <1>2
<1>4. /\ SubSeq(open, 1, k - 1) \in Seq(Branch)
      /\ Len(SubSeq(open, 1, k - 1)) = k - 1
      /\ \A n \in 1 .. k - 1 : SubSeq(open, 1, k - 1)[n] = open[n]
  <2>1. PICK l \in Nat : l = k - 1
    BY <1>2
  <2>2. 1 \in 1 .. Len(open) + 1 /\ l \in 1 - 1 .. Len(open)
    BY <1>2, <1>3, <2>1
  <2>3. /\ SubSeq(open, 1, l) \in Seq(Branch)
        /\ Len(SubSeq(open, 1, l)) = IF 1 <= l THEN l - 1 + 1 ELSE 0
        /\ \A n \in 1 .. l - 1 + 1 : SubSeq(open, 1, l)[n] = open[1 + n - 1]
    BY <2>2, SubSeqProperties
  <2>4. l - 1 + 1 = l /\ \A n \in 1 .. l : 1 + n - 1 = n
    BY <2>1
  <2> QED
    BY <2>1, <2>3, <2>4
<1> QED
  BY <1>1, <1>4 DEF Before

LEMMA WithoutExact ==
  ASSUME open \in Seq(Branch), NEW b \in Bits(open)
  PROVE  /\ Without(b) \in Seq(Branch) /\ Len(Without(b)) = Len(open) - 1
         /\ \A n \in 1 .. Len(open) - 1 :
              Without(b)[n] = open[IF n < Position(b) THEN n ELSE n + 1]
<1>1. PICK k \in 1 .. Len(open) : k = Position(b)
  BY PositionExact
<1>2. PICK m \in Nat : m = Len(open) - 1
  OBVIOUS
<1> DEFINE w == [n \in 1 .. m |-> open[IF n < k THEN n ELSE n + 1]]
<1>3. \A n \in 1 .. m : open[IF n < k THEN n ELSE n + 1] \in Branch
  <2> SUFFICES ASSUME NEW n \in 1 .. m PROVE open[IF n < k THEN n ELSE n + 1] \in Branch
    OBVIOUS
  <2>1. (IF n < k THEN n ELSE n + 1) \in 1 .. Len(open)
    BY <1>2
  <2> QED
    BY <2>1, ElementOfSeq
<1>4. w \in Seq(Branch) /\ Len(w) = m
  BY <1>3
<1>5. Without(b) = w
  BY <1>1, <1>2 DEF Without
<1> QED
  BY <1>1, <1>2, <1>4, <1>5

(* What becomes of the unresolved branches: an action leaves them, opens a *)
(* new one, closes one, closes one with the younger ones, or closes all.   *)
LEMMA OpenStep ==
  ASSUME IInv, Next
  PROVE  open' \in Seq(Branch) /\ OpenOnce'
<1>0. open \in Seq(Branch) /\ OpenOnce /\ Len(open) \in Nat
  BY DEF IInv, TypeOK
<1>1. ASSUME UNCHANGED open PROVE open' \in Seq(Branch) /\ OpenOnce'
  BY <1>0, <1>1 DEF OpenOnce
<1>2. ASSUME NEW insn \in Insns, NEW b \in Branch \cup {NoBranch}, Dispatch(insn, b)
      PROVE  open' \in Seq(Branch) /\ OpenOnce'
  <2>1. CASE b = NoBranch
    <3>1. UNCHANGED open
      BY <1>2, <2>1 DEF Dispatch
    <3> QED
      BY <1>1, <3>1
  <2>2. CASE b # NoBranch
    <3>1. open' = Append(open, b) /\ b \notin Bits(open) /\ b \in Branch
      BY <1>2, <2>2 DEF Dispatch
    <3>2. /\ open' \in Seq(Branch) /\ Len(open') = Len(open) + 1
          /\ open'[Len(open) + 1] = b /\ \A n \in 1 .. Len(open) : open'[n] = open[n]
      BY <1>0, <3>1, AppendProperties
    <3>3. \A n \in 1 .. Len(open) : open[n] # b
      BY <1>0, <3>1, BitsType
    <3>4. \A n : n \in 1 .. Len(open) + 1 <=> n \in 1 .. Len(open) \/ n = Len(open) + 1
      BY <1>0
    <3> QED
      BY <1>0, <3>2, <3>3, <3>4 DEF OpenOnce
  <2> QED
    BY <2>1, <2>2
<1>3. ASSUME NEW b \in Branch, ResolveCorrect(b) PROVE open' \in Seq(Branch) /\ OpenOnce'
  <2>1. b \in Bits(open) /\ open' = Without(b)
    BY <1>3 DEF ResolveCorrect, Resolvable
  <2>2. PICK k \in 1 .. Len(open) : k = Position(b)
    BY <1>0, <2>1, PositionExact
  <2>3. /\ open' \in Seq(Branch) /\ Len(open') = Len(open) - 1
        /\ \A n \in 1 .. Len(open) - 1 : open'[n] = open[IF n < k THEN n ELSE n + 1]
    BY <1>0, <2>1, <2>2, WithoutExact
  <2>4. ASSUME NEW m \in 1 .. Len(open) - 1, NEW n \in 1 .. Len(open) - 1, open'[m] = open'[n]
        PROVE  m = n
    <3>1. PICK x \in 1 .. Len(open) : x = IF m < k THEN m ELSE m + 1
      BY <1>0
    <3>2. PICK y \in 1 .. Len(open) : y = IF n < k THEN n ELSE n + 1
      BY <1>0
    <3>3. open[x] = open[y]
      BY <2>3, <2>4, <3>1, <3>2
    <3>4. x = y
      BY <1>0, <3>3 DEF OpenOnce
    <3> QED
      BY <3>1, <3>2, <3>4
  <2> QED
    BY <2>3, <2>4 DEF OpenOnce
<1>4. ASSUME NEW b \in Branch, ResolveMispredict(b) PROVE open' \in Seq(Branch) /\ OpenOnce'
  <2>1. b \in Bits(open) /\ open' = Before(b)
    BY <1>4 DEF ResolveMispredict, Resolvable
  <2>2. PICK k \in 1 .. Len(open) : k = Position(b)
    BY <1>0, <2>1, PositionExact
  <2>3. /\ open' \in Seq(Branch) /\ Len(open') = k - 1
        /\ \A n \in 1 .. k - 1 : open'[n] = open[n]
    BY <1>0, <2>1, <2>2, BeforeExact
  <2>4. \A n \in 1 .. k - 1 : n \in 1 .. Len(open)
    BY <1>0
  <2> QED
    BY <1>0, <2>3, <2>4 DEF OpenOnce
<1>5. ASSUME Flush PROVE open' \in Seq(Branch) /\ OpenOnce'
  BY <1>5 DEF Flush, OpenOnce
<1> QED
  BY <1>1, <1>2, <1>3, <1>4, <1>5
  DEF Next, Wakeup, WakeupStore, Allocate, SelectBegin, SelectEntry, SquashEntry

(* The types of what is not in the lists, and the turns of the partitions. *)
LEMMA OtherStep ==
  ASSUME IInv, Next
  PROVE  OtherType' /\ Turns'
<1>0. /\ Size \in Nat \ {0} /\ OtherType /\ ListsType /\ Turns /\ TypeOK
      /\ age_based' = age_based
  BY IssueQueueAssumption, TypeParts
  DEF IInv, Next, Dispatch, Wakeup, WakeupStore, Allocate, SelectBegin, SelectEntry,
      ResolveCorrect, ResolveMispredict, SquashEntry, Flush
<1>1. ready' \subseteq PhysReg
  BY <1>0 DEF OtherType, Next, Dispatch, Wakeup, WakeupStore, Allocate, SelectBegin, SelectEntry,
                ResolveCorrect, ResolveMispredict, SquashEntry, Flush
<1>2. open' \in Seq(Branch)
  BY OpenStep
<1>3. part_next' \in Slot /\ Turns'
  <2>1. part_next' = part_next \/ part_next' = Rotated
    BY DEF Next, Dispatch, Wakeup, WakeupStore, Allocate, SelectBegin, SelectEntry,
           ResolveCorrect, ResolveMispredict, SquashEntry, Flush
  <2>2. Rotated \in Slot /\ \E m \in 1 .. NumParts : Rotated + m * part_size = Size
    BY <1>0, RotatedTurns DEF OtherType
  <2>3. ASSUME part_next' = part_next PROVE part_next' \in Slot /\ Turns'
    BY <1>0, <2>3 DEF OtherType, Turns
  <2>4. ASSUME part_next' = Rotated PROVE part_next' \in Slot /\ Turns'
    <3>1. \E m \in 1 .. NumParts : part_next' + m * part_size = Size
      BY <2>2, <2>4
    <3> QED
      BY <2>2, <2>4, <3>1 DEF Turns
  <2> QED
    BY <2>1, <2>3, <2>4
<1>4. rr' \subseteq Lane
  <2>1. ASSUME SelectEntry PROVE rr' \subseteq Lane
    <3>1. PICK i : i = todo.i
      OBVIOUS
    <3>2. rr' = rr \/ \E l \in Lane : rr' = rr \cup {l}
      BY <1>0, <2>1, <3>1, SelectEffect
    <3> QED
      BY <1>0, <3>2 DEF OtherType
  <2> QED
    BY <1>0, <2>1 DEF OtherType, Next, Dispatch, Wakeup, WakeupStore, Allocate, SelectBegin,
                      ResolveCorrect, ResolveMispredict, SquashEntry, Flush
<1>5. todo' \in Todo
  <2>0. todo \in Todo /\ oldest \in Slot \cup {Nil} /\ next \in [Slot -> Slot \cup {Nil}]
    BY <1>0 DEF OtherType, ListsType, Pointers
  <2>1. CASE todo' = todo \/ todo' = Idle
    BY <2>0, <2>1, IdleOp
  <2>2. CASE SelectBegin
    <3>1. CASE todo' = Idle
      BY <3>1, IdleOp
    <3>2. CASE todo' # Idle
      <4>1. PICK i \in Slot : todo' = [op |-> "select", i |-> i, j |-> 0]
        BY <1>0, <2>0, <2>2, <3>2 DEF SelectBegin, OtherType
      <4>2. 0 \in Slot
        BY <1>0 DEF Slot
      <4> QED
        BY <4>1, <4>2 DEF Todo
    <3> QED
      BY <3>1, <3>2
  <2>3. CASE SelectEntry
    <3>1. CASE todo' = Idle
      BY <3>1, IdleOp
    <3>2. CASE todo' # Idle
      <4>1. PICK i \in Slot, j \in 0 .. Size - 1 : i = todo.i /\ j = todo.j
        BY <2>0, <2>3, TodoCases, IdleOp DEF SelectEntry, Slot
      <4>2. ~ScanEnds(i, j) /\ todo' = [op |-> "select", i |-> ScanNext(i), j |-> j + 1]
        BY <2>3, <3>2, <4>1 DEF SelectEntry
      <4>3. j + 1 \in Slot
        BY <1>0, <4>1, <4>2 DEF ScanEnds, Slot
      <4>4. ScanNext(i) \in Slot
        <5>1. CASE age_based
          BY <2>0, <4>2, <5>1 DEF ScanNext, ScanEnds
        <5>2. CASE ~age_based
          <6>1. PICK x \in 0 .. Size - 1 : x = i
            BY DEF Slot
          <6>2. (x + 1) % Size \in 0 .. Size - 1
            BY <1>0
          <6> QED
            BY <5>2, <6>1, <6>2 DEF ScanNext, Slot
        <5> QED
          BY <5>1, <5>2
      <4> QED
        BY <4>2, <4>3, <4>4 DEF Todo
    <3> QED
      BY <3>1, <3>2
  <2>4. CASE \E b \in Branch : ResolveMispredict(b)
    <3>1. PICK b \in Branch : todo' = [op |-> "squash", b |-> b, i |-> 0]
      BY <2>4 DEF ResolveMispredict
    <3>2. 0 \in Slot
      BY <1>0 DEF Slot
    <3> QED
      BY <3>1, <3>2 DEF Todo
  <2>5. CASE SquashEntry
    <3>1. CASE todo' = Idle
      BY <3>1, IdleOp
    <3>2. CASE todo' # Idle
      <4>1. todo \in [op : {"squash"}, b : Branch, i : Slot]
        BY <2>0, <2>5 DEF SquashEntry, Todo
      <4>2. todo.i # Size - 1 /\ todo' = [todo EXCEPT !.i = todo.i + 1]
        BY <2>5, <3>2 DEF SquashEntry
      <4>3. todo.i \in Slot
        BY <4>1
      <4>4. todo.i + 1 \in Slot
        BY <1>0, <4>2, <4>3 DEF Slot
      <4>5. todo' \in [op : {"squash"}, b : Branch, i : Slot]
        BY <4>1, <4>2, <4>4
      <4> QED
        BY <4>5 DEF Todo
    <3> QED
      BY <3>1, <3>2
  <2> QED
    BY <2>1, <2>2, <2>3, <2>4, <2>5
    DEF Next, Dispatch, Wakeup, WakeupStore, Allocate, ResolveCorrect, Flush
<1> QED
  BY <1>0, <1>1, <1>2, <1>3, <1>4, <1>5 DEF OtherType

-----------------------------------------------------------------------------
(* The operands that wait, and the scan in turns. *)

(* A scan or a squash takes entries away and leaves the others alone.      *)
LEMMA OthersStay ==
  ASSUME IInv, SelectEntry \/ SquashEntry
  PROVE  Valid' \subseteq Valid /\ \A x \in Valid' : q'[x] = q[x]
<1>0. TypeOK /\ ListsType /\ FreeHeld
  BY TypeParts DEF IInv
<1>1. PICK p : Listed(p)
  BY DEF IInv, OnList
<1>2. PICK n \in Nat : n = length
  BY <1>0 DEF ListsType
<1>3. PICK i : i = todo.i
  OBVIOUS
<1>4. CASE UNCHANGED iq_vars
  BY <1>0, <1>4, SameLists
<1>5. CASE i \in Valid /\ remove(i)
  <2>1. PICK k \in 1 .. n : p[k] = i
    BY <1>1, <1>2, <1>5, OnListAt
  <2>2. Valid' = Valid \ {i} /\ \A x \in Slot : x # i => q'[x] = q[x]
    BY <1>0, <1>1, <1>2, <1>5, <2>1, RemoveEffect
  <2> QED
    BY <2>2 DEF Valid
<1>6. CASE SelectEntry
  BY <1>0, <1>3, <1>4, <1>5, <1>6, SelectEffect
<1>7. CASE SquashEntry
  <2>1. i \in Slot
    BY <1>0, <1>3, <1>7, TodoCases, IdleOp DEF SquashEntry, TypeOK
  <2> QED
    BY <1>3, <1>4, <1>5, <1>7, <2>1 DEF SquashEntry, Valid
<1> QED
  BY <1>6, <1>7

LEMMA WakeupStep ==
  ASSUME IInv, Next
  PROVE  WakeupExact'
<1>0. /\ TypeOK /\ ListsType /\ FreeHeld /\ q \in [Slot -> Entry] /\ WakeupExact
      /\ PhysReg \cap Inum = {}
  BY TypeParts, IssueQueueAssumption DEF IInv, ListsType
<1>1. ASSUME Valid' \subseteq Valid, \A x \in Valid' : q'[x] = q[x], ready' = ready
      PROVE  WakeupExact'
  BY <1>0, <1>1 DEF WakeupExact
<1>2. ASSUME NEW insn \in Insns, NEW b \in Branch \cup {NoBranch}, Dispatch(insn, b)
      PROVE  WakeupExact'
  <2>1. PICK p : Listed(p)
    BY DEF IInv, OnList
  <2>2. PICK n \in Nat : n = length
    BY <1>0 DEF ListsType
  <2>3. PICK f : f = fl[fl_head]
    OBVIOUS
  <2>4. /\ f \in Slot /\ Valid' = Valid \cup {f} /\ f \notin Valid
        /\ \A x \in Slot : x # f => q'[x] = q[x]
        /\ q'[f] = [valid |-> TRUE, srcs |-> insn.srcs, waiting |-> NotReady(insn),
                    lanes |-> insn.lanes, branch_mask |-> Bits(open), branch |-> b]
    BY <1>0, <1>2, <2>1, <2>2, <2>3, DispatchEffect
  <2>5. q'[f].waiting = NotReady(insn) /\ q'[f].srcs = insn.srcs /\ ready' = ready
    BY <1>2, <2>4 DEF Dispatch
  <2>6. insn.srcs \subseteq PhysReg /\ insn.inum \subseteq Inum
    BY IssueQueueAssumption
  <2>7. q'[f].waiting \cap PhysReg = q'[f].srcs \ ready'
    BY <1>0, <2>5, <2>6 DEF NotReady
  <2>8. \A x \in Valid : q'[x].waiting \cap PhysReg = q'[x].srcs \ ready'
    BY <1>0, <2>4, <2>5 DEF WakeupExact, Valid
  <2> QED
    BY <2>4, <2>7, <2>8 DEF WakeupExact
<1>3. ASSUME NEW t, q' = Woken(t), t \in PhysReg => ready' = ready \cup {t},
             t \notin PhysReg => ready' = ready
      PROVE  WakeupExact'
  <2>1. /\ q' \in [Slot -> Entry] /\ \A i \in Slot : q'[i].valid = q[i].valid
        /\ \A i \in Valid : q'[i] = [q[i] EXCEPT !.waiting = @ \ {t}]
    BY <1>0, <1>3, WokenEffect
  <2>2. Valid' = Valid
    BY <2>1 DEF Valid
  <2>3. ASSUME NEW i \in Valid PROVE q'[i].waiting \cap PhysReg = q'[i].srcs \ ready'
    <3>1. q[i] \in Entry
      BY <1>0 DEF Valid
    <3>2. q'[i].waiting = q[i].waiting \ {t} /\ q'[i].srcs = q[i].srcs
      BY <2>1, <3>1 DEF Entry
    <3>3. q[i].waiting \cap PhysReg = q[i].srcs \ ready
      BY <1>0 DEF WakeupExact
    <3>4. CASE t \in PhysReg
      BY <1>3, <3>2, <3>3, <3>4
    <3>5. CASE t \notin PhysReg
      BY <1>3, <3>2, <3>3, <3>5
    <3> QED
      BY <3>4, <3>5
  <2> QED
    BY <2>2, <2>3 DEF WakeupExact
<1>4. ASSUME NEW t \in PhysReg, Wakeup(t) PROVE WakeupExact'
  BY <1>3, <1>4 DEF Wakeup
<1>5. ASSUME NEW t \in Inum, WakeupStore(t) PROVE WakeupExact'
  BY <1>0, <1>3, <1>5 DEF WakeupStore
<1>6. ASSUME NEW t \in PhysReg, NEW v \in BOOLEAN, Allocate(t, v) PROVE WakeupExact'
  <2>1. /\ \A i \in Valid : t \notin q[i].srcs
        /\ ready' = ready \cup {t} \/ ready' = ready \ {t}
        /\ UNCHANGED iq_vars
    BY <1>6 DEF Allocate
  <2>2. q' = q /\ Valid' = Valid
    BY <1>0, <2>1, SameLists
  <2> QED
    BY <1>0, <2>1, <2>2 DEF WakeupExact
<1>7. ASSUME UNCHANGED iq_vars, ready' = ready PROVE WakeupExact'
  <2>1. q' = q /\ Valid' = Valid
    BY <1>0, <1>7, SameLists
  <2> QED
    BY <1>1, <1>7, <2>1
<1>8. ASSUME SelectEntry \/ SquashEntry PROVE WakeupExact'
  <2>1. ready' = ready
    BY <1>8 DEF SelectEntry, SquashEntry
  <2> QED
    BY <1>1, <1>8, <2>1, OthersStay
<1>9. ASSUME NEW b \in Branch, ResolveCorrect(b) PROVE WakeupExact'
  <2>1. q' = clear_branch_bit(b) /\ ready' = ready
    BY <1>9 DEF ResolveCorrect
  <2>4. \A i \in Slot : /\ q'[i].valid = q[i].valid
                        /\ q'[i].waiting = q[i].waiting /\ q'[i].srcs = q[i].srcs
    BY <1>0, <2>1, ClearEffect
  <2>3. Valid' = Valid
    BY <2>4 DEF Valid
  <2> QED
    BY <1>0, <2>1, <2>3, <2>4 DEF WakeupExact, Valid
<1>10. ASSUME Flush PROVE WakeupExact'
  <2>1. Valid' = {}
    BY <1>0, <1>10, FlushEffect
  <2> QED
    BY <2>1 DEF WakeupExact
<1>11. ASSUME SelectBegin \/ \E b \in Branch : ResolveMispredict(b) PROVE WakeupExact'
  BY <1>7, <1>11 DEF SelectBegin, ResolveMispredict
<1> QED
  BY <1>2, <1>4, <1>5, <1>6, <1>8, <1>9, <1>10, <1>11 DEF Next

LEMMA PassedStep ==
  ASSUME IInv, Next
  PROVE  Passed'
<1>0. /\ Size \in Nat \ {0} /\ TypeOK /\ ListsType /\ part_next \in Slot /\ Passed
  BY IssueQueueAssumption, TypeParts DEF IInv, OtherType
<1>1. ASSUME (todo.op # "select")' PROVE Passed'
  BY <1>1 DEF Passed
<1>2. ASSUME SelectBegin, ~age_based PROVE Passed'
  <2>1. todo' = [op |-> "select", i |-> part_next, j |-> 0] /\ part_next' = part_next
    BY <1>2 DEF SelectBegin
  <2>2. Place(part_next, 0) = part_next
    BY <1>0, Places
  <2>3. todo'.i = Place(part_next', todo'.j) /\ todo'.j = 0
    BY <2>1, <2>2
  <2> QED
    BY <2>3 DEF Passed
<1>3. ASSUME SelectEntry, ~age_based, (todo.op = "select")' PROVE Passed'
  <2>1. PICK i \in Slot, j \in 0 .. Size - 1 : i = todo.i /\ j = todo.j
    BY <1>0, <1>3, TodoCases, IdleOp DEF SelectEntry, Slot, TypeOK
  <2>2. /\ ~ScanEnds(i, j) /\ part_next' = part_next
        /\ todo'.i = ScanNext(i) /\ todo'.j = j + 1
    BY <1>3, <2>1, IdleOp DEF SelectEntry
  <2>3. i = Place(part_next, j) /\ \A k \in 0 .. j - 1 :
          q[Place(part_next, k)].valid => Caught(Place(part_next, k))
    BY <1>0, <1>3, <2>1 DEF Passed, SelectEntry
  <2>4. todo'.i = Place(part_next', todo'.j)
    <3>1. ScanNext(i) = Place(i, 1)
      BY <1>3 DEF ScanNext, Place
    <3> QED
      BY <1>0, <2>1, <2>2, <2>3, <3>1, PlaceStep
  <2>5. Valid' \subseteq Valid /\ \A x \in Valid' : q'[x] = q[x]
    BY <1>3, OthersStay
  <2>6. rr \subseteq rr' /\ (i \in Valid' => Caught(i) /\ rr' = rr)
    <3>1. CASE UNCHANGED <<iq_vars, rr>> /\ (i \in Valid => Caught(i))
      BY <2>5, <3>1
    <3>2. CASE i \in Valid /\ remove(i) /\ \E l \in q[i].lanes \ rr : l \in Lane /\ rr' = rr \cup {l}
      <4>1. ~q'[i].valid
        BY <1>0, <2>1, <3>2 DEF remove, ListsType, Entry
      <4> QED
        BY <3>2, <4>1 DEF Valid
    <3> QED
      BY <1>0, <1>3, <2>1, <3>1, <3>2, SelectEffect
  <2>7. ASSUME NEW x \in Slot, q'[x].valid, Caught(x) PROVE Caught(x)'
    <3>1. q'[x] = q[x]
      BY <2>5, <2>7 DEF Valid
    <3> QED
      BY <2>6, <2>7, <3>1 DEF Caught
  <2>8. ASSUME NEW k \in 0 .. j, q'[Place(part_next, k)].valid
        PROVE  Caught(Place(part_next, k))'
    <3>1. PICK x \in Slot : x = Place(part_next, k)
      BY <1>0, <2>1, Places
    <3>2. x \in Valid' /\ q[x].valid
      BY <2>5, <2>8, <3>1 DEF Valid
    <3>3. Caught(x)
      <4>1. k \in 0 .. j - 1 \/ k = j
        BY <2>1
      <4> QED
        BY <2>3, <2>6, <3>1, <3>2, <4>1
    <3>4. Caught(x)'
      BY <2>7, <2>8, <3>1, <3>3
    <3>5. part_next' = part_next
      BY <2>2
    <3> QED
      BY <3>1, <3>4, <3>5 DEF Caught
  <2>9. todo'.j - 1 = j
    BY <2>1, <2>2
  <2> QED
    BY <2>2, <2>4, <2>8, <2>9 DEF Passed
<1>4. age_based' = age_based /\ (todo' = Idle => (todo.op # "select")')
  BY IdleOp DEF Next, Dispatch, Wakeup, WakeupStore, Allocate, SelectBegin, SelectEntry,
                ResolveCorrect, ResolveMispredict, SquashEntry, Flush
<1>5. CASE age_based
  BY <1>4, <1>5 DEF Passed
<1>6. CASE ~age_based
  <2>1. CASE SelectBegin
    BY <1>2, <1>6, <2>1
  <2>2. CASE SelectEntry
    BY <1>1, <1>3, <1>6, <2>2
  <2>3. CASE SquashEntry \/ \E b \in Branch : ResolveMispredict(b)
    <3>1. ASSUME SquashEntry PROVE (todo.op # "select")'
      BY <3>1, IdleOp DEF SquashEntry
    <3>2. ASSUME NEW b \in Branch, ResolveMispredict(b) PROVE (todo.op # "select")'
      BY <3>2 DEF ResolveMispredict
    <3> QED
      BY <1>1, <2>3, <3>1, <3>2
  <2> QED
    BY <1>1, <1>4, <2>1, <2>2, <2>3
    DEF Next, Dispatch, Wakeup, WakeupStore, Allocate, ResolveCorrect, Flush
<1> QED
  BY <1>5, <1>6

-----------------------------------------------------------------------------
(* The branch masks. *)

(* m is the mask of the oldest few branches of s. *)
Prefix(m, s) == \E k \in 0 .. Len(s) : m = {s[n] : n \in 1 .. k}

(* The two halves of MasksNested for entry i. *)
Names(i)  == todo.op = "squash" /\ todo.b \in q[i].branch_mask
Masked(i) == IF Names(i) THEN Bits(open) \subseteq q[i].branch_mask
                         ELSE Prefix(q[i].branch_mask, open)
Nested(i) == next[i] # Nil => q[i].branch_mask \subseteq q[next[i]].branch_mask

LEMMA MasksParts == MasksNested <=> \A i \in Valid : Masked(i) /\ Nested(i)
BY DEF MasksNested, Masked, Names, Nested, Prefix

(* The entry behind a valid one is valid, and stands behind it alone.      *)
LEMMA Neighbours ==
  ASSUME TypeOK, NEW p, Listed(p), NEW i \in Valid
  PROVE  /\ next[i] # Nil => next[i] \in Valid
         /\ oldest # i => prev[i] \in Valid /\ next[prev[i]] = i
         /\ youngest # i => next[i] # Nil
<1>1. PICK n \in Nat : n = length
  BY IssueQueueAssumption DEF TypeOK
<1>2. PICK k \in 1 .. n : p[k] = i
  BY <1>1, OnListAt
<1>3. /\ \A m \in 1 .. n : p[m] \in Slot /\ p[m] \in Valid
      /\ \A m \in 1 .. n : /\ next[p[m]] = IF m = n THEN Nil ELSE p[m + 1]
                           /\ prev[p[m]] = IF m = 1 THEN Nil ELSE p[m - 1]
      /\ n > 0 => oldest = p[1] /\ youngest = p[n]
  BY <1>1 DEF Listed, Chain
<1>4. Nil \notin Slot
  BY DEF Nil, Slot
<1>5. k # n => next[i] = p[k + 1] /\ k + 1 \in 1 .. n
  BY <1>2, <1>3
<1>6. k # 1 => prev[i] = p[k - 1] /\ k - 1 \in 1 .. n /\ next[p[k - 1]] = p[k]
  BY <1>2, <1>3
<1>7. (k = n => next[i] = Nil) /\ (oldest # i => k # 1) /\ (youngest # i => k # n)
  BY <1>2, <1>3
<1> QED
  BY <1>2, <1>3, <1>4, <1>5, <1>6, <1>7

(* Taking an entry off the list keeps the masks of the others nested.      *)
LEMMA RemoveNested ==
  ASSUME IInv, NEW i \in Valid, remove(i)
  PROVE  (\A x \in Valid : Nested(x))' /\ \A x \in Slot : q'[x].branch_mask = q[x].branch_mask
<1>0. TypeOK /\ q \in [Slot -> Entry] /\ next \in Pointers /\ i \in Slot /\ FreeHeld
  BY DEF IInv, TypeOK, Pointers, Valid
<1>1. PICK p : Listed(p)
  BY DEF IInv, OnList
<1>2. \A x \in Valid : Nested(x)
  BY MasksParts DEF IInv
<1>3. \A x \in Slot : q'[x].branch_mask = q[x].branch_mask
  BY <1>0 DEF remove, Entry
<1>4. Valid' \subseteq Valid
  <2>1. PICK n \in Nat : n = length
    BY <1>0, IssueQueueAssumption DEF TypeOK
  <2>2. PICK k \in 1 .. n : p[k] = i
    BY <1>1, <2>1, OnListAt
  <2>3. Valid' = Valid \ {i}
    BY <1>0, <1>1, <2>1, <2>2, RemoveEffect
  <2> QED
    BY <2>3
<1>5. ASSUME NEW x \in Valid, next'[x] # Nil
      PROVE  q[x].branch_mask \subseteq q[next'[x]].branch_mask /\ next'[x] \in Slot
  <2>1. next[x] # Nil => next[x] \in Valid /\ q[x].branch_mask \subseteq q[next[x]].branch_mask
    BY <1>0, <1>1, <1>2, Neighbours DEF Nested
  <2>2. next[i] # Nil => next[i] \in Valid /\ q[i].branch_mask \subseteq q[next[i]].branch_mask
    BY <1>0, <1>1, <1>2, Neighbours DEF Nested
  <2>3. next' = IF oldest = i THEN next ELSE [next EXCEPT ![prev[i]] = next[i]]
    BY DEF remove, unlink
  <2>4. CASE next'[x] = next[x]
    BY <1>5, <2>1, <2>4 DEF Valid
  <2>5. CASE next'[x] # next[x]
    <3>1. oldest # i /\ x = prev[i] /\ next'[x] = next[i]
      BY <1>0, <2>3, <2>5 DEF Valid, Pointers
    <3>2. next[x] = i
      BY <1>0, <1>1, <3>1, Neighbours
    <3>3. i # Nil
      BY <1>0 DEF Slot, Nil
    <3>4. q[x].branch_mask \subseteq q[i].branch_mask
      BY <2>1, <3>2, <3>3
    <3> QED
      BY <1>5, <2>2, <3>1, <3>4 DEF Valid
  <2> QED
    BY <2>4, <2>5
<1>6. ASSUME NEW x \in Valid' PROVE Nested(x)'
  <2>1. x \in Valid /\ x \in Slot
    BY <1>4 DEF Valid
  <2> QED
    BY <1>3, <1>5, <2>1 DEF Nested
<1> QED
  BY <1>3, <1>6

LEMMA VisitNested ==
  ASSUME IInv, SelectEntry \/ SquashEntry
  PROVE  (\A x \in Valid : Nested(x))'
<1>0. TypeOK /\ ListsType
  BY TypeParts DEF IInv
<1>1. PICK i : i = todo.i
  OBVIOUS
<1>2. CASE UNCHANGED iq_vars
  <2>1. q' = q /\ Valid' = Valid /\ next' = next
    BY <1>0, <1>2, SameLists DEF iq_vars, age_list
  <2>2. \A x \in Valid : Nested(x)
    BY MasksParts DEF IInv
  <2> QED
    BY <2>1, <2>2 DEF Nested
<1>3. CASE i \in Valid /\ remove(i)
  BY <1>3, RemoveNested
<1>4. CASE SelectEntry
  BY <1>0, <1>1, <1>2, <1>3, <1>4, SelectEffect
<1>5. CASE SquashEntry
  <2>1. i \in Slot
    BY <1>0, <1>1, <1>5, TodoCases, IdleOp DEF SquashEntry, TypeOK
  <2> QED
    BY <1>1, <1>2, <1>3, <1>5, <2>1 DEF SquashEntry, Valid
<1> QED
  BY <1>4, <1>5

(* A new entry stands behind all unresolved branches.                      *)
LEMMA DispatchMasks ==
  ASSUME IInv, NEW insn \in Insns, NEW b \in Branch \cup {NoBranch}, Dispatch(insn, b)
  PROVE  (\A x \in Valid : Masked(x) /\ Nested(x))'
<1>0. /\ TypeOK /\ ListsType /\ FreeHeld /\ open \in Seq(Branch) /\ Len(open) \in Nat
      /\ next \in Pointers /\ oldest \in Slot \cup {Nil} /\ youngest \in Slot \cup {Nil}
  BY TypeParts DEF IInv, OtherType, ListsType
<1>1. PICK p : Listed(p)
  BY DEF IInv, OnList
<1>2. PICK n \in Nat : n = length
  BY <1>0 DEF ListsType
<1>3. PICK f : f = fl[fl_head]
  OBVIOUS
<1>4. /\ f \in Slot /\ f \notin Valid /\ Valid' = Valid \cup {f}
      /\ \A x \in Slot : x # f => q'[x] = q[x]
      /\ q'[f] = [valid |-> TRUE, srcs |-> insn.srcs, waiting |-> NotReady(insn),
                  lanes |-> insn.lanes, branch_mask |-> Bits(open), branch |-> b]
  BY <1>0, <1>1, <1>2, <1>3, DispatchEffect
<1>5. /\ todo.op = "idle" /\ todo' = todo
      /\ open' = IF b = NoBranch THEN open ELSE Append(open, b)
      /\ next' = IF oldest = Nil THEN [next EXCEPT ![f] = Nil]
                                 ELSE [next EXCEPT ![f] = Nil, ![youngest] = f]
  BY <1>3, IdleOp DEF Dispatch, link
<1>6. q'[f].branch_mask = Bits(open) /\ Bits(open) = {open[m] : m \in 1 .. Len(open)}
  BY <1>0, <1>4, BitsType
<1>7. \A x \in Valid : Prefix(q[x].branch_mask, open) /\ Nested(x)
  BY <1>5, MasksParts DEF IInv, Masked, Names
<1>8. Len(open') >= Len(open) /\ Len(open') \in Nat /\ \A m \in 1 .. Len(open) : open'[m] = open[m]
  <2>1. CASE b = NoBranch
    BY <1>0, <1>5, <2>1
  <2>2. CASE b # NoBranch
    <3>1. open' = Append(open, b) /\ b \in Branch
      BY <1>5, <2>2
    <3> QED
      BY <1>0, <3>1, AppendProperties
  <2> QED
    BY <2>1, <2>2
<1>9. ASSUME NEW mask, Prefix(mask, open) PROVE Prefix(mask, open')
  <2>1. PICK k \in 0 .. Len(open) : mask = {open[m] : m \in 1 .. k}
    BY <1>9 DEF Prefix
  <2>2. \A m \in 1 .. k : open'[m] = open[m]
    BY <1>0, <1>8
  <2>3. k \in 0 .. Len(open') /\ mask = {open'[m] : m \in 1 .. k}
    BY <1>0, <1>8, <2>1, <2>2
  <2> QED
    BY <2>3 DEF Prefix
<1>10. Prefix(Bits(open), open)
  BY <1>0, <1>6 DEF Prefix
<1>11. ASSUME NEW x \in Valid PROVE Prefix(q'[x].branch_mask, open') /\ Nested(x)'
  <2>1. x \in Slot /\ x # f /\ q'[x] = q[x]
    BY <1>4 DEF Valid
  <2>2. Prefix(q'[x].branch_mask, open')
    BY <1>7, <1>9, <2>1
  <2>3. q[x].branch_mask \subseteq Bits(open)
    <3>1. PICK k \in 0 .. Len(open) : q[x].branch_mask = {open[m] : m \in 1 .. k}
      BY <1>7 DEF Prefix
    <3>2. \A m \in 1 .. k : m \in 1 .. Len(open)
      BY <1>0
    <3> QED
      BY <1>6, <3>1, <3>2
  <2>4. next'[x] = next[x] \/ next'[x] = f
    BY <1>0, <1>4, <1>5, <2>1 DEF Pointers
  <2>5. CASE next'[x] = f
    BY <1>6, <2>1, <2>2, <2>3, <2>5 DEF Nested
  <2>6. CASE next'[x] = next[x]
    <3>1. ASSUME next[x] # Nil PROVE q[x].branch_mask \subseteq q'[next[x]].branch_mask
      <4>1. next[x] \in Valid /\ q[x].branch_mask \subseteq q[next[x]].branch_mask
        BY <1>0, <1>1, <1>7, <3>1, Neighbours DEF Nested
      <4>2. next[x] \in Slot /\ next[x] # f
        BY <1>4, <4>1 DEF Valid
      <4> QED
        BY <1>4, <4>1, <4>2
    <3> QED
      BY <2>1, <2>2, <2>6, <3>1 DEF Nested
  <2> QED
    BY <2>2, <2>4, <2>5, <2>6
<1>12. Prefix(q'[f].branch_mask, open') /\ Nested(f)'
  <2>1. next'[f] = Nil
    <3>1. oldest # Nil => youngest \in Valid
      <4>1. Chain(p, n, oldest, youngest, prev, next, Valid)
        BY <1>1, <1>2 DEF Listed
      <4>2. oldest # Nil => n > 0
        BY <4>1 DEF Chain
      <4>3. n > 0 => youngest = p[n] /\ p[n] \in Slot
        BY <4>1 DEF Chain
      <4>4. n > 0 => p[n] \in Valid
        BY <4>1, <4>3 DEF Chain
      <4> QED
        BY <4>2, <4>3, <4>4
    <3>2. oldest # Nil => youngest # f
      BY <1>4, <3>1
    <3> QED
      BY <1>0, <1>4, <1>5, <3>2 DEF Pointers
  <2> QED
    BY <1>6, <1>9, <1>10, <2>1 DEF Nested
<1>13. ASSUME NEW x \in Valid' PROVE (Masked(x) /\ Nested(x))'
  <2>1. Prefix(q'[x].branch_mask, open') /\ Nested(x)'
    BY <1>4, <1>11, <1>12
  <2>2. ~Names(x)'
    BY <1>5 DEF Names
  <2> QED
    BY <2>1, <2>2 DEF Masked
<1> QED
  BY <1>13

(* Forgetting a branch that was predicted correctly.                       *)
LEMMA CorrectMasks ==
  ASSUME IInv, NEW b \in Branch, ResolveCorrect(b)
  PROVE  (\A x \in Valid : Masked(x) /\ Nested(x))'
<1>0. /\ ListsType /\ open \in Seq(Branch) /\ Len(open) \in Nat /\ q \in [Slot -> Entry]
      /\ OpenOnce /\ next \in Pointers /\ TypeOK
  BY TypeParts DEF IInv, OtherType, ListsType
<1>1. /\ b \in Bits(open) /\ open' = Without(b) /\ q' = clear_branch_bit(b)
      /\ todo.op = "idle" /\ todo' = todo /\ next' = next
  BY IdleOp DEF ResolveCorrect, Resolvable, age_list
<1>2. \A x \in Slot : /\ q'[x].valid = q[x].valid
                      /\ q'[x].branch_mask = q[x].branch_mask \ {b}
  BY <1>0, <1>1, ClearEffect
<1>3. /\ Valid' = Valid
      /\ \A x \in Slot : q'[x].branch_mask = q[x].branch_mask \ {b}
  BY <1>2 DEF Valid
<1>4. PICK a \in 1 .. Len(open) : a = Position(b) /\ open[a] = b
  BY <1>0, <1>1, PositionExact
<1>5. /\ Len(open') = Len(open) - 1
      /\ \A n \in 1 .. Len(open) - 1 : open'[n] = open[IF n < a THEN n ELSE n + 1]
  BY <1>0, <1>1, <1>4, WithoutExact
<1>6. \A x \in Valid : Prefix(q[x].branch_mask, open) /\ Nested(x)
  BY <1>1, MasksParts DEF IInv, Masked, Names
<1>7. ASSUME NEW k \in 0 .. Len(open), k < a
      PROVE  {open[n] : n \in 1 .. k} \ {b} = {open'[n] : n \in 1 .. k} /\ k \in 0 .. Len(open')
  <2>1. \A n \in 1 .. k : open'[n] = open[n]
    BY <1>0, <1>5, <1>7
  <2>2. \A n \in 1 .. k : open[n] # b
    BY <1>0, <1>4, <1>7 DEF OpenOnce
  <2> QED
    BY <1>0, <1>5, <1>7, <2>1, <2>2
<1>8. ASSUME NEW k \in 0 .. Len(open), k >= a
      PROVE  {open[n] : n \in 1 .. k} \ {b} = {open'[n] : n \in 1 .. k - 1} /\ k - 1 \in 0 .. Len(open')
  <2>1. ASSUME NEW n \in 1 .. k, open[n] # b PROVE \E m \in 1 .. k - 1 : open'[m] = open[n]
    <3>1. CASE n < a
      <4>1. n \in 1 .. k - 1 /\ open'[n] = open[n]
        BY <1>0, <1>5, <1>8, <3>1
      <4> QED
        BY <4>1
    <3>2. CASE n > a
      <4>1. n - 1 \in 1 .. k - 1 /\ ~(n - 1 < a) /\ n - 1 + 1 = n /\ n - 1 \in 1 .. Len(open) - 1
        BY <1>0, <1>8, <3>2
      <4>2. open'[n - 1] = open[n]
        BY <1>5, <4>1
      <4> QED
        BY <4>1, <4>2
    <3>3. n # a
      BY <1>4, <2>1
    <3> QED
      BY <3>1, <3>2, <3>3
  <2>2. ASSUME NEW m \in 1 .. k - 1
        PROVE  \E n \in 1 .. k : open'[m] = open[n] /\ open[n] # b
    <3>1. PICK n \in 1 .. k : n = IF m < a THEN m ELSE m + 1
      BY <1>0
    <3>2. m \in 1 .. Len(open) - 1 /\ n # a /\ n \in 1 .. Len(open)
      BY <1>0, <3>1
    <3>3. open'[m] = open[n]
      BY <1>5, <3>1, <3>2
    <3>4. open[n] # b
      BY <1>0, <1>4, <3>2 DEF OpenOnce
    <3> QED
      BY <3>3, <3>4
  <2>3. {open[n] : n \in 1 .. k} \ {b} = {open'[n] : n \in 1 .. k - 1}
    <3> DEFINE L == {open[n] : n \in 1 .. k} \ {b}
               R == {open'[n] : n \in 1 .. k - 1}
    <3>1. ASSUME NEW x \in L PROVE x \in R
      <4>1. PICK n \in 1 .. k : x = open[n] /\ open[n] # b
        BY <3>1
      <4>2. PICK m \in 1 .. k - 1 : open'[m] = open[n]
        BY <2>1, <4>1
      <4> QED
        BY <4>1, <4>2
    <3>2. ASSUME NEW x \in R PROVE x \in L
      <4>1. PICK m \in 1 .. k - 1 : x = open'[m]
        BY <3>2
      <4>2. PICK n \in 1 .. k : open'[m] = open[n] /\ open[n] # b
        BY <2>2
      <4> QED
        BY <4>1, <4>2
    <3> HIDE DEF L, R
    <3>3. L = R
      BY <3>1, <3>2
    <3> QED
      BY <3>3 DEF L, R
  <2>4. k - 1 \in 0 .. Len(open')
    BY <1>0, <1>5, <1>8
  <2> QED
    BY <2>3, <2>4
<1>9. ASSUME NEW x \in Valid PROVE Prefix(q'[x].branch_mask, open') /\ Nested(x)'
  <2>1. PICK k \in 0 .. Len(open) : q[x].branch_mask = {open[n] : n \in 1 .. k}
    BY <1>6 DEF Prefix
  <2>2. x \in Slot /\ q'[x].branch_mask = {open[n] : n \in 1 .. k} \ {b}
    BY <1>3, <2>1 DEF Valid
  <2>3. Prefix(q'[x].branch_mask, open')
    <3>1. CASE k < a
      BY <1>7, <2>2, <3>1 DEF Prefix
    <3>2. CASE k >= a
      BY <1>8, <2>2, <3>2 DEF Prefix
    <3> QED
      BY <1>0, <3>1, <3>2
  <2>4. next[x] # Nil => next[x] \in Slot /\ q[x].branch_mask \subseteq q[next[x]].branch_mask
    BY <1>0, <1>6, <2>2 DEF Nested, Pointers
  <2>5. Nested(x)'
    BY <1>1, <1>3, <2>2, <2>4 DEF Nested
  <2> QED
    BY <2>3, <2>5
<1>10. \A x : ~Names(x)'
  BY <1>1 DEF Names
<1> QED
  BY <1>3, <1>9, <1>10 DEF Masked

(* A misprediction: the entries that name b still name the branches in     *)
(* front of it, and the others name only such.                             *)
LEMMA MispredictMasks ==
  ASSUME IInv, NEW b \in Branch, ResolveMispredict(b)
  PROVE  (\A x \in Valid : Masked(x) /\ Nested(x))' /\ Swept'
<1>0. /\ ListsType /\ open \in Seq(Branch) /\ Len(open) \in Nat /\ OpenOnce
  BY TypeParts DEF IInv, OtherType
<1>1. /\ b \in Bits(open) /\ open' = Before(b) /\ UNCHANGED iq_vars
      /\ todo.op = "idle" /\ todo' = [op |-> "squash", b |-> b, i |-> 0]
  BY IdleOp DEF ResolveMispredict, Resolvable
<1>2. q' = q /\ Valid' = Valid /\ next' = next
  BY <1>0, <1>1, SameLists DEF iq_vars, age_list
<1>3. todo'.op = "squash" /\ todo'.b = b /\ todo'.i = 0
  BY <1>1
<1>4. PICK a \in 1 .. Len(open) : a = Position(b) /\ open[a] = b
  BY <1>0, <1>1, PositionExact
<1>5. /\ open' \in Seq(Branch) /\ Len(open') = a - 1
      /\ \A n \in 1 .. a - 1 : open'[n] = open[n]
  BY <1>0, <1>1, <1>4, BeforeExact
<1>6. \A x \in Valid : Prefix(q[x].branch_mask, open) /\ Nested(x)
  BY <1>1, MasksParts DEF IInv, Masked, Names
<1>7. Bits(open') = {open'[n] : n \in 1 .. a - 1}
  BY <1>5 DEF Bits
<1>8. ASSUME NEW x \in Valid PROVE Masked(x)'
  <2>1. PICK k \in 0 .. Len(open) : q[x].branch_mask = {open[n] : n \in 1 .. k}
    BY <1>6 DEF Prefix
  <2>2. Names(x)' <=> b \in q[x].branch_mask
    BY <1>2, <1>3 DEF Names
  <2>3. CASE k < a
    <3>1. b \notin q[x].branch_mask
      BY <1>0, <1>4, <2>1, <2>3 DEF OpenOnce
    <3>2. k \in 0 .. Len(open') /\ \A n \in 1 .. k : open'[n] = open[n]
      BY <1>0, <1>5, <2>3
    <3>3. q[x].branch_mask = {open'[n] : n \in 1 .. k}
      BY <2>1, <3>2
    <3>4. Prefix(q'[x].branch_mask, open')
      BY <1>2, <3>2, <3>3 DEF Prefix
    <3> QED
      BY <2>2, <3>1, <3>4 DEF Masked
  <2>4. CASE k >= a
    <3>1. a \in 1 .. k /\ b \in q[x].branch_mask
      BY <1>0, <1>4, <2>1, <2>4
    <3>2. \A n \in 1 .. a - 1 : n \in 1 .. k
      BY <1>0, <2>4
    <3>3. Bits(open') \subseteq q[x].branch_mask
      BY <1>5, <1>7, <2>1, <3>2
    <3> QED
      BY <1>2, <2>2, <3>1, <3>3 DEF Masked
  <2> QED
    BY <1>0, <2>3, <2>4
<1>9. ASSUME NEW x \in Valid PROVE Nested(x)'
  BY <1>2, <1>6 DEF Nested
<1>10. Swept'
  <2>1. \A i \in Valid' : ~(i < 0)
    BY DEF Valid, Slot
  <2> QED
    BY <1>3, <2>1 DEF Swept
<1> QED
  BY <1>2, <1>8, <1>9, <1>10

(* The walk of squash goes on behind the entries that do not name b, and   *)
(* when it ends no entry names b.                                          *)
LEMMA SquashMasks ==
  ASSUME IInv, SquashEntry
  PROVE  (\A x \in Valid : Masked(x) /\ Nested(x))' /\ Swept'
<1>0. Size \in Nat \ {0} /\ TypeOK /\ ListsType /\ todo.op = "squash" /\ open' = open
  BY TypeParts, IssueQueueAssumption DEF IInv, SquashEntry
<1>1. PICK i \in 0 .. Size - 1 : i = todo.i
  BY <1>0, TodoCases, IdleOp DEF TypeOK, Slot
<1>2. PICK b : b = todo.b
  OBVIOUS
<1>3. Valid' \subseteq Valid /\ \A x \in Valid' : q'[x] = q[x]
  BY OthersStay
<1>4. (\A x \in Valid : Nested(x))'
  BY VisitNested
<1>5. ASSUME i \in Valid' PROVE b \notin q[i].branch_mask
  <2>1. ASSUME q[i].valid, b \in q[i].branch_mask PROVE FALSE
    <3>1. remove(i)
      BY <1>1, <1>2, <2>1 DEF SquashEntry
    <3>2. ~q'[i].valid
      BY <1>0, <1>1, <3>1 DEF remove, ListsType, Entry, Slot
    <3> QED
      BY <1>5, <3>2 DEF Valid
  <2> QED
    BY <1>3, <1>5, <2>1 DEF Valid
<1>6. \A x \in Valid' : x < i + 1 => b \notin q'[x].branch_mask
  <2> SUFFICES ASSUME NEW x \in Valid', x < i + 1 PROVE b \notin q'[x].branch_mask
    OBVIOUS
  <2>1. x \in Valid /\ q'[x] = q[x] /\ x \in 0 .. Size - 1
    BY <1>3 DEF Valid, Slot
  <2>2. CASE x = i
    BY <1>5, <2>1, <2>2
  <2>3. CASE x < i
    BY <1>0, <1>1, <1>2, <2>1, <2>3 DEF IInv, Swept
  <2> QED
    BY <1>0, <2>1, <2>2, <2>3
<1>7. \A x \in Valid : IF b \in q[x].branch_mask THEN Bits(open) \subseteq q[x].branch_mask
                       ELSE Prefix(q[x].branch_mask, open)
  BY <1>0, <1>2, MasksParts DEF IInv, Masked, Names
<1>8. CASE i = Size - 1
  <2>1. (todo.op # "squash")'
    BY <1>1, <1>8, IdleOp DEF SquashEntry
  <2>2. Swept'
    BY <2>1 DEF Swept
  <2>3. ASSUME NEW x \in Valid' PROVE Masked(x)'
    <3>1. b \notin q'[x].branch_mask
      BY <1>0, <1>6, <1>8 DEF Valid, Slot
    <3>2. Prefix(q'[x].branch_mask, open')
      BY <1>0, <1>3, <1>7, <3>1
    <3> QED
      BY <2>1, <3>2 DEF Masked, Names
  <2> QED
    BY <1>4, <2>2, <2>3
<1>9. CASE i # Size - 1
  <2>1. todo'.op = "squash" /\ todo'.b = b /\ todo'.i = i + 1
    <3>1. todo \in [op : {"squash"}, b : Branch, i : Slot]
      BY <1>0 DEF TypeOK, Todo, Idle
    <3>2. todo' = [todo EXCEPT !.i = i + 1]
      BY <1>1, <1>9 DEF SquashEntry
    <3> QED
      BY <1>2, <3>1, <3>2
  <2>2. Swept'
    BY <1>6, <2>1 DEF Swept
  <2>3. ASSUME NEW x \in Valid' PROVE Masked(x)'
    <3>1. q'[x] = q[x] /\ x \in Valid
      BY <1>3
    <3>2. Names(x)' <=> b \in q[x].branch_mask
      BY <2>1, <3>1 DEF Names
    <3> QED
      BY <1>0, <1>7, <3>1, <3>2 DEF Masked
  <2> QED
    BY <1>4, <2>2, <2>3
<1> QED
  BY <1>8, <1>9

LEMMA MasksStep ==
  ASSUME IInv, Next
  PROVE  MasksNested' /\ Swept'
<1>0. ListsType /\ \A x \in Valid : Masked(x) /\ Nested(x)
  BY TypeParts, MasksParts DEF IInv
<1>1. SUFFICES (\A x \in Valid : Masked(x) /\ Nested(x))' /\ Swept'
  <2>1. (MasksNested <=> \A i \in Valid : Masked(i) /\ Nested(i))'
    BY MasksParts, PTL
  <2> QED
    BY <2>1
<1>2. ASSUME (todo.op # "squash")' PROVE Swept'
  BY <1>2 DEF Swept
<1>3. ASSUME todo.op # "squash", (todo.op # "squash")', open' = open,
             Valid' \subseteq Valid, \A x \in Valid' : q'[x].branch_mask = q[x].branch_mask
      PROVE  (\A x \in Valid : Masked(x))'
  BY <1>0, <1>3 DEF Masked, Names
<1>4. ASSUME NEW insn \in Insns, NEW b \in Branch \cup {NoBranch}, Dispatch(insn, b)
      PROVE  (\A x \in Valid : Masked(x) /\ Nested(x))' /\ Swept'
  <2>1. (todo.op # "squash")'
    BY <1>4, IdleOp DEF Dispatch
  <2> QED
    BY <1>2, <1>4, <2>1, DispatchMasks
<1>5. ASSUME q' = q, UNCHANGED iq_vars, todo.op # "squash", (todo.op # "squash")', open' = open
      PROVE  (\A x \in Valid : Masked(x) /\ Nested(x))' /\ Swept'
  <2>1. Valid' = Valid /\ next' = next
    BY <1>0, <1>5, SameLists DEF iq_vars, age_list
  <2>2. (\A x \in Valid : Nested(x))'
    BY <1>0, <1>5, <2>1 DEF Nested
  <2>3. (\A x \in Valid : Masked(x))'
    BY <1>3, <1>5, <2>1
  <2> QED
    BY <1>2, <1>5, <2>2, <2>3
<1>6. ASSUME NEW t, q' = Woken(t), next' = next, todo = Idle, todo' = todo, open' = open
      PROVE  (\A x \in Valid : Masked(x) /\ Nested(x))' /\ Swept'
  <2>1. /\ q' \in [Slot -> Entry] /\ \A i \in Slot : q'[i].valid = q[i].valid
        /\ \A i \in Valid : q'[i] = [q[i] EXCEPT !.waiting = @ \ {t}]
    BY <1>0, <1>6, WokenEffect DEF ListsType
  <2>2. Valid' = Valid
    BY <2>1 DEF Valid
  <2>3. \A x \in Slot : q'[x].branch_mask = q[x].branch_mask
    <3>1. \A x \in Slot : [q[x] EXCEPT !.waiting = @ \ {t}].branch_mask = q[x].branch_mask
      BY <1>0 DEF ListsType, Entry
    <3> QED
      BY <1>6, <3>1 DEF Woken
  <2>4. (\A x \in Valid : Nested(x))'
    <3>1. \A x \in Valid : next[x] # Nil => next[x] \in Slot
      BY <1>0 DEF ListsType, Pointers, Valid
    <3> QED
      BY <1>0, <1>6, <2>2, <2>3, <3>1 DEF Nested, Valid
  <2>5. (\A x \in Valid : Masked(x))'
    BY <1>3, <1>6, <2>2, <2>3, IdleOp DEF Valid
  <2> QED
    BY <1>2, <1>6, <2>4, <2>5, IdleOp
<1>7. ASSUME NEW t \in PhysReg, Wakeup(t)
      PROVE  (\A x \in Valid : Masked(x) /\ Nested(x))' /\ Swept'
  BY <1>6, <1>7 DEF Wakeup, age_list
<1>8. ASSUME NEW t \in Inum, WakeupStore(t)
      PROVE  (\A x \in Valid : Masked(x) /\ Nested(x))' /\ Swept'
  BY <1>6, <1>8 DEF WakeupStore, age_list
<1>9. ASSUME NEW t \in PhysReg, NEW v \in BOOLEAN, Allocate(t, v)
      PROVE  (\A x \in Valid : Masked(x) /\ Nested(x))' /\ Swept'
  BY <1>5, <1>9, IdleOp DEF Allocate, iq_vars, entries
<1>10. ASSUME SelectBegin PROVE (\A x \in Valid : Masked(x) /\ Nested(x))' /\ Swept'
  <2>1. (todo.op # "squash")'
    BY <1>10, IdleOp DEF SelectBegin
  <2> QED
    BY <1>5, <1>10, <2>1, IdleOp DEF SelectBegin, iq_vars, entries
<1>11. ASSUME SelectEntry PROVE (\A x \in Valid : Masked(x) /\ Nested(x))' /\ Swept'
  <2>1. (todo.op # "squash")' /\ todo.op # "squash" /\ open' = open
    BY <1>11, IdleOp DEF SelectEntry
  <2>2. Valid' \subseteq Valid /\ \A x \in Valid' : q'[x] = q[x]
    BY <1>11, OthersStay
  <2>3. (\A x \in Valid : Nested(x))'
    BY <1>11, VisitNested
  <2>4. (\A x \in Valid : Masked(x))'
    BY <1>3, <2>1, <2>2
  <2> QED
    BY <1>2, <2>1, <2>3, <2>4
<1>12. ASSUME NEW b \in Branch, ResolveCorrect(b)
       PROVE  (\A x \in Valid : Masked(x) /\ Nested(x))' /\ Swept'
  <2>1. (todo.op # "squash")'
    BY <1>12, IdleOp DEF ResolveCorrect
  <2> QED
    BY <1>2, <1>12, <2>1, CorrectMasks
<1>13. ASSUME NEW b \in Branch, ResolveMispredict(b)
       PROVE  (\A x \in Valid : Masked(x) /\ Nested(x))' /\ Swept'
  BY <1>13, MispredictMasks
<1>14. ASSUME SquashEntry PROVE (\A x \in Valid : Masked(x) /\ Nested(x))' /\ Swept'
  BY <1>14, SquashMasks
<1>15. ASSUME Flush PROVE (\A x \in Valid : Masked(x) /\ Nested(x))' /\ Swept'
  <2>1. Valid' = {}
    BY <1>0, <1>15, FlushEffect
  <2> QED
    BY <2>1 DEF Swept
<1> QED
  BY <1>4, <1>7, <1>8, <1>9, <1>10, <1>11, <1>12, <1>13, <1>14, <1>15 DEF Next

-----------------------------------------------------------------------------
(* The theorems. *)

LEMMA InitHolds == Init => IInv
<1> SUFFICES ASSUME Init PROVE IInv
  OBVIOUS
<1>0. Size \in Nat \ {0} /\ Selections \subseteq BOOLEAN
  BY IssueQueueAssumption
<1>1. /\ q = [i \in Slot |-> Empty] /\ length = 0
      /\ prev = [i \in Slot |-> Nil] /\ next = [i \in Slot |-> Nil]
      /\ oldest = Nil /\ youngest = Nil /\ fl = [i \in Slot |-> i]
      /\ fl_head = 0 /\ fl_tail = 0 /\ fl_length = Size
      /\ part_next = 0 /\ rr = {} /\ ready = PhysReg /\ open = <<>> /\ todo = Idle
      /\ age_based \in Selections
  BY DEF Init
<1>2. Empty \in Entry /\ ~Empty.valid
  BY DEF Empty, Entry
<1>3. ListsType
  BY <1>0, <1>1, <1>2 DEF ListsType, Pointers, Slot
<1>4. OtherType
  <2>1. 0 \in Slot
    BY <1>0 DEF Slot
  <2>2. <<>> \in Seq(Branch)
    OBVIOUS
  <2> QED
    BY <1>0, <1>1, <2>1, <2>2, IdleOp DEF OtherType
<1>5. Valid = {}
  BY <1>1, <1>2 DEF Valid
<1>6. FreeHeld /\ Listed([k \in 1 .. 0 |-> 0])
  BY <1>1, <1>5, EmptyLists
<1>7. todo.op = "idle"
  BY <1>1, IdleOp
<1>8. OnList
  <2>1. ScanAt([k \in 1 .. 0 |-> 0])
    BY <1>7 DEF ScanAt
  <2> QED
    BY <1>6, <2>1 DEF OnList
<1>9. WakeupExact /\ MasksNested /\ Swept /\ Passed
  BY <1>5, <1>7 DEF WakeupExact, MasksNested, Swept, Passed
<1>10. Turns
  <2>1. NumParts \in 1 .. NumParts /\ 0 + NumParts * part_size = Size
    BY IssueQueueAssumption, PartSize
  <2> QED
    BY <1>1, <2>1 DEF Turns
<1>11. OpenOnce
  BY <1>1 DEF OpenOnce
<1>12. TypeOK
  BY <1>3, <1>4, TypeParts
<1> QED
  BY <1>6, <1>8, <1>9, <1>10, <1>11, <1>12 DEF IInv

LEMMA StepKeeps == IInv /\ [Next]_vars => IInv'
<1> SUFFICES ASSUME IInv, [Next]_vars PROVE IInv'
  OBVIOUS
<1>1. CASE Next
  <2>1. ListsType' /\ FreeHeld' /\ OnList'
    BY <1>1, ListsStep
  <2>2. OtherType' /\ Turns'
    BY <1>1, OtherStep
  <2>3. OpenOnce'
    BY <1>1, OpenStep
  <2>4. WakeupExact'
    BY <1>1, WakeupStep
  <2>5. Passed'
    BY <1>1, PassedStep
  <2>6. MasksNested' /\ Swept'
    BY <1>1, MasksStep
  <2>7. TypeOK'
    BY <2>1, <2>2, TypeParts, PTL
  <2> QED
    BY <2>1, <2>2, <2>3, <2>4, <2>5, <2>6, <2>7 DEF IInv
<1>2. CASE UNCHANGED vars
  <2>1. /\ q' = q /\ length' = length /\ prev' = prev /\ next' = next /\ oldest' = oldest
        /\ youngest' = youngest /\ fl' = fl /\ fl_head' = fl_head /\ fl_tail' = fl_tail
        /\ fl_length' = fl_length /\ part_next' = part_next /\ rr' = rr /\ ready' = ready
        /\ open' = open /\ todo' = todo /\ age_based' = age_based
    BY <1>2 DEF vars, iq_vars, entries, age_list, free_list
  <2>2. Valid' = Valid
    BY <2>1 DEF Valid
  <2>3. TypeOK'
    BY <2>1 DEF IInv, TypeOK
  <2>4. OnList'
    <3>1. PICK p : Listed(p) /\ ScanAt(p)
      BY DEF IInv, OnList
    <3>2. Listed(p)'
      BY <2>1, <2>2, <3>1 DEF Listed
    <3>3. ScanAt(p)'
      BY <2>1, <3>1 DEF ScanAt, Reached, Caught
    <3> QED
      BY <3>2, <3>3 DEF OnList
  <2>5. FreeHeld'
    BY <2>1, <2>2 DEF IInv, FreeHeld
  <2>6. WakeupExact' /\ MasksNested' /\ Swept'
    BY <2>1, <2>2 DEF IInv, WakeupExact, MasksNested, Swept, Bits
  <2>7. Passed' /\ Turns' /\ OpenOnce'
    BY <2>1 DEF IInv, Passed, Caught, Turns, OpenOnce
  <2> QED
    BY <2>3, <2>4, <2>5, <2>6, <2>7 DEF IInv
<1> QED
  BY <1>1, <1>2

(* The invariant holds in every reachable state (issue_queue.cc).          *)
THEOREM Invariance == Spec => []IInv
BY InitHolds, StepKeeps, PTL DEF Spec

(* However dispatches, wakeups, issues out of order, squashes and flushes  *)
(* follow each other, the age list threads exactly the valid entries, the  *)
(* free list holds exactly the others, the branch masks are nested along   *)
(* the age list, an operand waits exactly while its register is not ready, *)
(* and the scan by age stays on the list (issue_queue.cc, all operations   *)
(* and assertions).                                                        *)
THEOREM ListsStayExact == Spec => []ListsExact
<1>1. IInv => ListsExact
  <2> SUFFICES ASSUME IInv PROVE AgeListExact /\ FreeListExact /\ ScanOnList
    BY DEF IInv, ListsExact
  <2>0. TypeOK /\ FreeHeld /\ \A i \in Slot : q[i].valid <=> i \in Valid
    BY DEF IInv, Valid
  <2>1. PICK p : Listed(p) /\ ScanAt(p)
    BY DEF IInv, OnList
  <2>2. Chain(p, length, oldest, youngest, prev, next, Valid)
    BY <2>1 DEF Listed
  <2>3. AgeListExact
    <3>1. \A i \in Slot : q[i].valid <=> \E k \in 1 .. length : p[k] = i
      <4> SUFFICES ASSUME NEW i \in Slot PROVE q[i].valid <=> \E k \in 1 .. length : p[k] = i
        OBVIOUS
      <4>1. i \in Valid <=> \E k \in 1 .. length : p[k] = i
        BY <2>2 DEF Chain
      <4> QED
        BY <2>0, <4>1, Zenon
    <3>2. Threads(p) /\ p \in [1 .. length -> Slot]
      BY <2>2, <3>1 DEF Chain, Threads
    <3> QED
      BY <3>2 DEF AgeListExact
  <2>4. FreeListExact
    <3>1. \A i \in Slot : i \notin Valid <=> \E k \in 0 .. fl_length - 1 : fl[Place(fl_head, k)] = i
      BY <2>0 DEF FreeHeld, Spares
    <3>2. \A i \in Slot : ~q[i].valid
            <=> \E k \in 0 .. fl_length - 1 : fl[(fl_head + k) % Size] = i
      <4> SUFFICES ASSUME NEW i \in Slot
                   PROVE  ~q[i].valid <=> \E k \in 0 .. fl_length - 1 : fl[(fl_head + k) % Size] = i
        OBVIOUS
      <4>1. i \notin Valid <=> \E k \in 0 .. fl_length - 1 : fl[(fl_head + k) % Size] = i
        BY <3>1 DEF Place
      <4> QED
        BY <2>0, <4>1, Zenon
    <3> QED
      BY <2>0, <3>2 DEF FreeListExact, FreeHeld, Place
  <2>5. ScanOnList
    <3>1. ASSUME age_based, todo.op = "select" PROVE q[todo.i].valid
      <4>1. PICK m \in 1 .. length : p[m] = todo.i
        BY <2>1, <3>1 DEF ScanAt, Reached
      <4>2. todo.i \in Valid
        BY <2>2, <4>1 DEF Chain
      <4> QED
        BY <4>2 DEF Valid
    <3> QED
      BY <3>1 DEF ScanOnList
  <2> QED
    BY <2>3, <2>4, <2>5
<1> QED
  BY <1>1, Invariance, PTL

(* When a scan ends, in age order or in turns, every ready instruction     *)
(* that stays has found all its lanes taken (select_and_issue).            *)
THEOREM ScansLeaveNone == Spec => NoneLeftBehind
<1>1. ASSUME IInv, Next, todo.op = "select", todo' = Idle, NEW i \in Slot, q'[i].valid,
             q'[i].waiting = {}
      PROVE  q'[i].lanes \subseteq rr'
  <2>0. Size \in Nat \ {0} /\ TypeOK /\ ListsType
    BY <1>1, TypeParts, IssueQueueAssumption DEF IInv
  <2>1. SelectEntry
    BY <1>1, IdleOp
    DEF Next, Dispatch, Wakeup, WakeupStore, Allocate, SelectBegin, ResolveCorrect,
        ResolveMispredict, SquashEntry, Flush
  <2>2. PICK x \in Slot, j \in 0 .. Size - 1 : x = todo.i /\ j = todo.j
    BY <1>1, <2>0, TodoCases, IdleOp DEF Slot, TypeOK
  <2>3. ScanEnds(x, j)
    BY <1>1, <2>1, <2>2, IdleOp DEF SelectEntry
  <2>4. i \in Valid /\ q'[i] = q[i]
    BY <1>1, <2>1, OthersStay DEF Valid
  <2>5. rr \subseteq rr' /\ (x = i => Caught(i))
    <3>1. CASE UNCHANGED <<iq_vars, rr>> /\ (x \in Valid => Caught(x))
      BY <2>4, <3>1
    <3>2. CASE x \in Valid /\ remove(x) /\ \E l \in q[x].lanes \ rr : l \in Lane /\ rr' = rr \cup {l}
      <4>1. ~q'[x].valid
        BY <2>0, <3>2 DEF remove, ListsType, Entry
      <4> QED
        BY <1>1, <3>2, <4>1
    <3> QED
      BY <2>0, <2>1, <2>2, <3>1, <3>2, SelectEffect
  <2>6. Caught(i)
    <3>1. CASE age_based
      <4>1. PICK p : Listed(p) /\ ScanAt(p)
        BY <1>1 DEF IInv, OnList
      <4>2. PICK n \in Nat : n = length
        BY <2>0 DEF ListsType
      <4>3. PICK m \in 1 .. n : p[m] = x /\ j + n - m < Size /\ \A k \in 1 .. m - 1 : Caught(p[k])
        BY <1>1, <2>2, <3>1, <4>1, <4>2 DEF ScanAt, Reached
      <4>4. next[x] = IF m = n THEN Nil ELSE p[m + 1]
        BY <4>1, <4>2, <4>3 DEF Listed, Chain
      <4>5. m # n => p[m + 1] \in Slot /\ Nil \notin Slot
        BY <4>1, <4>2, <4>3 DEF Listed, Chain, Slot, Nil
      <4>6. m = n
        BY <2>0, <2>3, <3>1, <4>3, <4>4, <4>5 DEF ScanEnds
      <4>7. PICK k \in 1 .. n : p[k] = i
        BY <2>4, <4>1, <4>2, OnListAt
      <4>8. k \in 1 .. m - 1 \/ p[k] = x
        BY <4>3, <4>6
      <4> QED
        BY <2>5, <4>3, <4>7, <4>8
    <3>2. CASE ~age_based
      <4>1. j = Size - 1
        BY <2>3, <3>2 DEF ScanEnds
      <4>2. x = Place(part_next, j) /\ \A k \in 0 .. j - 1 :
              q[Place(part_next, k)].valid => Caught(Place(part_next, k))
        BY <1>1, <2>2, <3>2 DEF IInv, Passed
      <4>3. PICK k \in 0 .. Size - 1 : Place(part_next, k) = i
        BY <2>0, PlacesAll DEF TypeOK
      <4>4. k = j \/ k \in 0 .. j - 1
        BY <4>1
      <4>5. q[i].valid
        BY <2>4 DEF Valid
      <4> QED
        BY <2>5, <4>2, <4>3, <4>4, <4>5
    <3> QED
      BY <3>1, <3>2
  <2> QED
    BY <1>1, <2>4, <2>5, <2>6 DEF Caught
<1>2. IInv /\ [Next]_vars =>
        [todo.op = "select" /\ todo' = Idle =>
           \A i \in Slot : q'[i].valid /\ q'[i].waiting = {} => q'[i].lanes \subseteq rr']_vars
  BY <1>1
<1> QED
  BY <1>2, Invariance, PTL DEF Spec, NoneLeftBehind

(* Order reads the list off the pointers. *)
LEMMA OrderIsList ==
  ASSUME NEW p, Listed(p), length \in Nat
  PROVE  \A k \in 1 .. length : Order[k] = p[k]
<1> DEFINE P(g) == g = [k \in 1 .. length |-> IF k = 1 THEN oldest ELSE next[g[k - 1]]]
<1>1. PICK n \in Nat : n = length
  OBVIOUS
<1>2. \A k \in 1 .. n : p[k] = IF k = 1 THEN oldest ELSE next[p[k - 1]]
  <2> SUFFICES ASSUME NEW k \in 1 .. n PROVE p[k] = IF k = 1 THEN oldest ELSE next[p[k - 1]]
    OBVIOUS
  <2>1. CASE k = 1
    BY <1>1, <2>1 DEF Listed, Chain
  <2>2. CASE k # 1
    <3>1. k - 1 \in 1 .. n /\ k - 1 # n /\ k - 1 + 1 = k
      BY <2>2
    <3>2. next[p[k - 1]] = p[k - 1 + 1]
      BY <1>1, <3>1 DEF Listed, Chain
    <3> QED
      BY <2>2, <3>1, <3>2
  <2> QED
    BY <2>1, <2>2
<1>3. P(p)
  <2>1. p \in [1 .. n -> Slot]
    BY <1>1 DEF Listed, Chain
  <2> QED
    BY <1>1, <1>2, <2>1
<1>4. PICK g : g = Order
  OBVIOUS
<1>5. P(g)
  <2>1. g = CHOOSE h : P(h)
    BY <1>4 DEF Order
  <2> HIDE DEF P
  <2> QED
    BY <1>3, <2>1
<1>6. \A k \in 1 .. n : g[k] = IF k = 1 THEN oldest ELSE next[g[k - 1]]
  BY <1>1, <1>5
<1> HIDE DEF P
<1> DEFINE S == {k \in 1 .. n : g[k] # p[k]}
<1>7. SUFFICES ASSUME S # {} PROVE FALSE
  BY <1>1, <1>4
<1>8. PICK m \in S : \A k \in S : m <= k
  <2>1. S \in SUBSET Int
    OBVIOUS
  <2>2. IsFiniteSet(1 .. n)
    BY FS_Interval
  <2>3. IsFiniteSet(S)
    BY <2>2, FS_Subset
  <2> QED
    BY <1>7, <2>1, <2>3, LeastExists
<1>9. m # 1 /\ m - 1 \in 1 .. n
  BY <1>2, <1>6, <1>8
<1>10. g[m - 1] = p[m - 1]
  BY <1>8, <1>9
<1>11. g[m] = p[m]
  BY <1>2, <1>6, <1>9, <1>10
<1> QED
  BY <1>8, <1>11

(* Selection by age takes the oldest ready instruction that could use the  *)
(* lane (select_and_issue).                                                *)
THEOREM OldestFirst == Spec => OldestIssues
<1>1. ASSUME IInv, age_based, todo.op = "select", NEW k \in 1 .. length, NEW m \in 1 .. length,
             k < m, Order[m] = todo.i, q[Order[k]].waiting = {}
      PROVE  q[Order[k]].lanes \subseteq rr
  <2>1. length \in Nat
    BY <1>1, IssueQueueAssumption DEF IInv, TypeOK
  <2>2. PICK p : Listed(p) /\ ScanAt(p)
    BY <1>1 DEF IInv, OnList
  <2>3. Order[k] = p[k] /\ Order[m] = p[m]
    BY <2>1, <2>2, OrderIsList
  <2>4. PICK l \in 1 .. length : p[l] = todo.i /\ \A j \in 1 .. l - 1 : Caught(p[j])
    BY <1>1, <2>2 DEF ScanAt, Reached
  <2>5. l = m
    BY <1>1, <2>2, <2>3, <2>4 DEF Listed, Chain
  <2>6. Caught(p[k])
    BY <1>1, <2>1, <2>4, <2>5
  <2> QED
    BY <1>1, <2>3, <2>6 DEF Caught
<1>2. IInv =>
        (age_based /\ todo.op = "select" /\ ~q'[todo.i].valid =>
           LET older == {k \in 1 .. length : \E m \in 1 .. length : k < m /\ Order[m] = todo.i}
           IN  \A k \in older : q[Order[k]].waiting = {} => rr' \cap q[Order[k]].lanes \subseteq rr)
  BY <1>1
<1> QED
  BY <1>2, Invariance, PTL DEF Spec, OldestIssues
=============================================================================
