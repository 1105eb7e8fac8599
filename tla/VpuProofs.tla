------------------------------ MODULE VpuProofs ------------------------------
(***************************************************************************)
(* For every VPQ size, SVP geometry, number of checkpoints and bundle      *)
(* width: the instance counters are exact, the walks of repair() stay in   *)
(* the window and the asserts of vpu.cc hold. For instructions with        *)
(* strided values, the predictions that the table is sure of are right.    *)
(***************************************************************************)
EXTENDS VpuStrided, FiniteSetTheorems, TLAPS

(* A pointer moved by one slot, and the window it bounds.                  *)
LEMMA SlotType ==
  ASSUME NEW p \in Pointer
  PROVE  Next_slot(p) \in Pointer /\ Prev_slot(p) \in Pointer
BY VpuAssumption DEF Pointer, Slot, Next_slot, Prev_slot

LEMMA DistanceType ==
  ASSUME NEW h \in Pointer, NEW p \in Pointer
  PROVE  distance(h, p) \in Int /\ (distance(h, p) = 0 => p = h)
BY VpuAssumption DEF Pointer, Slot, distance

LEMMA DistanceInjective ==
  ASSUME NEW h \in Pointer, NEW p \in Pointer, NEW q \in Pointer,
         distance(h, p) = distance(h, q)
  PROVE  p = q
<1>1. p.phase = q.phase
  BY VpuAssumption DEF Pointer, Slot, distance
<1>2. p.pos = q.pos
  BY <1>1, VpuAssumption DEF Pointer, Slot, distance
<1> QED
  BY <1>1, <1>2 DEF Pointer

LEMMA GrowTail ==
  ASSUME NEW h \in Pointer, NEW t \in Pointer, distance(h, t) \in 0 .. (VpqSize - 1)
  PROVE  /\ Window(h, Next_slot(t)) = Window(h, t) \cup {t.pos}
         /\ t.pos \notin Window(h, t)
         /\ distance(h, Next_slot(t)) = distance(h, t) + 1
BY VpuAssumption DEF Pointer, Slot, Next_slot, Window, distance

LEMMA ShrinkTail ==
  ASSUME NEW h \in Pointer, NEW t \in Pointer, distance(h, t) \in 1 .. VpqSize
  PROVE  /\ Window(h, Prev_slot(t)) = Window(h, t) \ {Prev_slot(t).pos}
         /\ Prev_slot(t).pos \in Window(h, t)
         /\ distance(h, Prev_slot(t)) = distance(h, t) - 1
BY VpuAssumption DEF Pointer, Slot, Prev_slot, Window, distance

LEMMA ShrinkHead ==
  ASSUME NEW h \in Pointer, NEW t \in Pointer, distance(h, t) \in 1 .. VpqSize
  PROVE  /\ Window(Next_slot(h), t) = Window(h, t) \ {h.pos}
         /\ h.pos \in Window(h, t)
         /\ distance(Next_slot(h), t) = distance(h, t) - 1
BY VpuAssumption DEF Pointer, Slot, Next_slot, Window, distance

-----------------------------------------------------------------------------
(* A bundle that loses its first instruction has that one fewer to predict *)
(* or to checkpoint.                                                       *)
BundleItems(b, k) == {i \in DOMAIN b : b[i].kind = k}

LEMMA BundleTail ==
  ASSUME NEW b \in Seq(Eligible \cup Branch), b # << >>, NEW k
  PROVE  /\ IsFiniteSet(BundleItems(b, k))
         /\ IsFiniteSet(BundleItems(Tail(b), k))
         /\ Cardinality(BundleItems(Tail(b), k)) =
              IF Head(b).kind = k THEN Cardinality(BundleItems(b, k)) - 1
                                  ELSE Cardinality(BundleItems(b, k))
<1> DEFINE S == BundleItems(b, k)
           T == BundleItems(Tail(b), k)
           f == [i \in T |-> i + 1]
<1>1. Len(b) \in Nat \ {0} /\ DOMAIN b = 1 .. Len(b)
  OBVIOUS
<1>2. DOMAIN Tail(b) = 1 .. (Len(b) - 1)
  BY <1>1
<1>3. \A i \in 1 .. (Len(b) - 1) : Tail(b)[i] = b[i + 1]
  BY <1>1
<1>4. IsFiniteSet(S) /\ IsFiniteSet(T)
  <2>1. S \subseteq 1 .. Len(b) /\ T \subseteq 1 .. Len(b)
    BY <1>1, <1>2 DEF BundleItems
  <2>2. IsFiniteSet(1 .. Len(b))
    BY <1>1, FS_Interval
  <2> QED
    BY <2>1, <2>2, FS_Subset
<1>5. f \in Bijection(T, S \ {1})
  <2>1. f \in Injection(T, S \ {1})
    BY <1>1, <1>2, <1>3 DEF BundleItems, Injection, IsInjective
  <2>2. ASSUME NEW j \in S \ {1}
        PROVE  j - 1 \in T /\ f[j - 1] = j
    BY <1>1, <1>2, <1>3 DEF BundleItems
  <2>3. f \in Surjection(T, S \ {1})
    BY <2>1, <2>2 DEF Surjection, Injection
  <2> QED
    BY <2>1, <2>3 DEF Bijection
<1>6. Cardinality(T) = Cardinality(S \ {1})
  BY <1>4, <1>5, FS_Bijection, FS_RemoveElement DEF ExistsBijection
<1>7. 1 \in S <=> Head(b).kind = k
  BY <1>1 DEF BundleItems
<1> QED
  BY <1>4, <1>6, <1>7, FS_RemoveElement, FS_CardinalityType

-----------------------------------------------------------------------------
(* The inductive invariant: the parts hold together. The decrements need   *)
(* exact counters, these need walks inside the window, these the order of  *)
(* the saved tails, and all of them a tail that never passes the head.     *)
IInv == TypeOK /\ InstanceExact /\ CheckpointsInWindow /\ BranchesOrdered /\ BundleFits

LEMMA IndexTypes ==
  ASSUME NEW pc \in PCs \cup {0}
  PROVE  get_svp_index(pc) \in SvpIndex /\ get_svp_tag(pc) \in SvpTag
<1>1. pc \in Nat /\ pc \div 4 \in Nat
  BY VpuAssumption
<1>2. (pc \div 4) \div SvpNumEntries \in Nat
  BY <1>1, VpuAssumption
<1> QED
  BY <1>1, <1>2, VpuAssumption DEF get_svp_index, get_svp_tag, SvpIndex, SvpTag

LEMMA FreeEntries ==
  ASSUME TypeOK, CheckpointsInWindow
  PROVE  vpq_free_entries = VpqSize - Offset(vpq_tail)
BY VpuAssumption DEF TypeOK, Pointer, Slot, CheckpointsInWindow, Offset, distance, vpq_free_entries

LEMMA CountFinite ==
  ASSUME NEW i
  PROVE  /\ IsFiniteSet(CountedInFlight(i))
         /\ Cardinality(CountedInFlight(i)) \in Nat
<1>1. CountedInFlight(i) \subseteq Slot
  BY DEF CountedInFlight, InFlight, Window
<1>2. IsFiniteSet(Slot)
  BY FS_Interval, VpuAssumption DEF Slot
<1> QED
  BY <1>1, <1>2, FS_Subset, FS_CardinalityType

LEMMA BranchesFinite ==
  ASSUME NEW S \in SUBSET BranchID
  PROVE  IsFiniteSet(S) /\ Cardinality(S) \in 0 .. NumCheckpoints
<1>1. IsFiniteSet(BranchID) /\ Cardinality(BranchID) = NumCheckpoints
  BY FS_Interval, VpuAssumption DEF BranchID
<1> QED
  BY <1>1, FS_Subset, FS_CardinalityType, VpuAssumption

LEMMA EmptyBundle ==
  bundle_vp_eligible(<< >>) = 0 /\ bundle_branch(<< >>) = 0
BY FS_EmptySet DEF bundle_vp_eligible, bundle_branch

LEMMA InitInv == Init => IInv
<1> SUFFICES ASSUME Init PROVE IInv
  OBVIOUS
<1>1. TypeOK
  <2>1. svp \in [SvpIndex -> SvpEntry]
    BY VpuAssumption DEF Init, SvpEntry, SvpTag, Word
  <2>2. vpq \in [Slot -> VpqEntry]
    BY VpuAssumption DEF Init, VpqEntry, SvpIndex, Word
  <2>3. /\ vpq_head \in Pointer /\ vpq_tail \in Pointer /\ restored_tail \in Pointer
        /\ vpq_tail_checkpoint \in [BranchID -> Pointer]
    BY VpuAssumption DEF Init, Pointer, Slot
  <2>4. rename_bundle \in Seq(Eligible \cup Branch)
    BY DEF Init
  <2> QED
    BY <2>1, <2>2, <2>3, <2>4 DEF Init, TypeOK
<1>2. InFlight = {}
  BY DEF Init, InFlight, Window, Slot
<1>3. InstanceExact
  BY <1>2, FS_EmptySet DEF Init, InstanceExact, CountedInFlight
<1>4. CheckpointsInWindow
  BY VpuAssumption DEF Init, CheckpointsInWindow, Offset, distance
<1>5. BranchesOrdered
  BY DEF Init, BranchesOrdered
<1>6. BundleFits
  BY EmptyBundle, FS_EmptySet, VpuAssumption DEF Init, BundleFits, vpq_free_entries
<1> QED
  BY <1>1, <1>3, <1>4, <1>5, <1>6 DEF IInv

-----------------------------------------------------------------------------
(* Renaming an instruction with a prediction.                              *)
LEMMA PredictInv == IInv /\ Predict => IInv'
<1> SUFFICES ASSUME IInv, Predict PROVE IInv'
  OBVIOUS
<1> USE DEF IInv
<1>1. rename_bundle \in Seq(Eligible \cup Branch) /\ rename_bundle # << >>
      /\ Head(rename_bundle).kind = "predict"
  BY DEF TypeOK, Predict
<1>2. Head(rename_bundle).pc \in PCs /\ Tail(rename_bundle) \in Seq(Eligible \cup Branch)
  BY <1>1 DEF Eligible, Branch
<1> PICK pc \in PCs : pc = Head(rename_bundle).pc
  BY <1>2
<1> PICK hit \in BOOLEAN : hit = svp_lookup_hit(pc)
  BY DEF svp_lookup_hit, tag_matches
<1> PICK t \in Pointer : t = vpq_tail
  BY DEF TypeOK
<1> DEFINE idx == get_svp_index(pc)
<1>3. idx \in SvpIndex /\ get_svp_tag(pc) \in SvpTag
  BY IndexTypes
<1>4. /\ vpq_head' = vpq_head
      /\ vpq_tail' = Next_slot(t)
      /\ svp' = IF hit THEN [svp EXCEPT ![idx] = with_instance(svp[idx], svp[idx].instance + 1)]
                       ELSE svp
      /\ vpq' = [vpq EXCEPT ![t.pos] =
                   [pc |-> pc, svp_index |-> idx, svp_hit |-> hit,
                    predicted_value |-> IF hit THEN predicted_val(svp[idx]) ELSE 0,
                    confident |-> hit /\ svp[idx].conf >= SvpConfMax]]
      /\ rename_bundle' = Tail(rename_bundle)
      /\ UNCHANGED <<vpq_tail_checkpoint, GBM, checkpoint_GBM, repairing, restored_tail>>
  BY DEF Predict, branch_vars, repair_vars
<1>5. /\ vpq_head \in Pointer /\ t.pos \in Slot /\ Next_slot(t) \in Pointer
      /\ svp \in [SvpIndex -> SvpEntry] /\ vpq \in [Slot -> VpqEntry]
      /\ GBM \subseteq BranchID
      /\ checkpoint_GBM \in [BranchID -> SUBSET BranchID]
      /\ vpq_tail_checkpoint \in [BranchID -> Pointer] /\ restored_tail \in Pointer
  BY SlotType DEF TypeOK, Pointer
<1>6. /\ bundle_vp_eligible(Tail(rename_bundle)) = bundle_vp_eligible(rename_bundle) - 1
      /\ bundle_vp_eligible(rename_bundle) \in Nat
      /\ bundle_vp_eligible(Tail(rename_bundle)) \in Nat
      /\ bundle_branch(Tail(rename_bundle)) = bundle_branch(rename_bundle)
      /\ bundle_branch(rename_bundle) \in Nat
  BY <1>1, BundleTail, FS_CardinalityType, ZenonT(30) DEF bundle_vp_eligible, bundle_branch, BundleItems
<1>7. ~repairing /\ distance(vpq_head, t) \in 0 .. (VpqSize - 1)
  <2>1. bundle_vp_eligible(rename_bundle) <= VpqSize - Offset(vpq_tail)
    BY FreeEntries DEF BundleFits
  <2> QED
    BY <1>1, <1>6, <2>1, VpuAssumption DEF BundleFits, CheckpointsInWindow, Offset
<1> HIDE DEF idx
<1>8. TypeOK'
  <2>1. predicted_val(svp[idx]) \in Word
    BY <1>3, VpuAssumption, SMTT(30) DEF predicted_val, TypeOK, SvpEntry, Word
  <2>2. svp' \in [SvpIndex -> SvpEntry]
    BY <1>3, <1>4, <1>5 DEF SvpEntry, with_instance
  <2>3. vpq' \in [Slot -> VpqEntry]
    <3>1. (hit /\ svp[idx].conf >= SvpConfMax) \in BOOLEAN
      OBVIOUS
    <3>2. (IF hit THEN predicted_val(svp[idx]) ELSE 0) \in Word
      BY <2>1, VpuAssumption DEF Word
    <3> QED
      BY <1>3, <1>4, <1>5, <3>1, <3>2 DEF VpqEntry
  <2> QED
    BY <1>2, <1>4, <1>5, <2>2, <2>3 DEF TypeOK
<1>9. CheckpointsInWindow'
  <2>1. distance(vpq_head, vpq_tail') = distance(vpq_head, t) + 1
    BY <1>4, <1>5, <1>7, GrowTail
  <2> QED
    BY <1>4, <1>7, <2>1, DistanceType, VpuAssumption DEF CheckpointsInWindow, Offset
<1>10. BranchesOrdered'
  BY <1>4 DEF BranchesOrdered
<1>11. BundleFits'
  <2>1. vpq_free_entries = VpqSize - Offset(vpq_tail)
    BY FreeEntries
  <2>2. (vpq_free_entries = VpqSize - Offset(vpq_tail))'
    BY <1>8, <1>9, FreeEntries, PTL
  <2>3. Offset(vpq_tail)' = Offset(vpq_tail) + 1 /\ Offset(vpq_tail) \in Int
    BY <1>4, <1>5, <1>7, GrowTail DEF Offset
  <2> QED
    BY <1>4, <1>6, <1>7, <2>1, <2>2, <2>3, VpuAssumption DEF BundleFits
<1>12. InstanceExact'
  <2>1. InFlight' = InFlight \cup {t.pos} /\ t.pos \notin InFlight
    BY <1>4, <1>5, <1>7, GrowTail DEF InFlight
  <2>2. \A i \in SvpIndex, p \in PCs \cup {0} : tag_matches(i, p)' <=> tag_matches(i, p)
    BY <1>3, <1>4, <1>5 DEF tag_matches, with_instance, SvpEntry
  <2>3. \A s \in InFlight, i \in SvpIndex : Counted(s, i)' <=> Counted(s, i)
    BY <1>4, <1>5, <2>1, <2>2 DEF Counted, VpqEntry, InFlight, Window
  <2>4. \A i \in SvpIndex : Counted(t.pos, i)' <=> (i = idx /\ hit)
    <3>1. /\ vpq'[t.pos].svp_index = idx
          /\ vpq'[t.pos].svp_hit = hit
          /\ vpq'[t.pos].pc = pc
      BY <1>4, <1>5
    <3>2. hit => tag_matches(idx, pc)
      BY DEF svp_lookup_hit, tag_matches, idx
    <3> QED
      BY <1>3, <2>2, <3>1, <3>2 DEF Counted
  <2>5. ASSUME NEW i \in SvpIndex
        PROVE  CountedInFlight(i)' = IF i = idx /\ hit
                 THEN CountedInFlight(i) \cup {t.pos} ELSE CountedInFlight(i)
    BY <2>1, <2>3, <2>4 DEF CountedInFlight
  <2>6. ASSUME NEW i \in SvpIndex
        PROVE  Cardinality(CountedInFlight(i)') = IF i = idx /\ hit
                 THEN Cardinality(CountedInFlight(i)) + 1 ELSE Cardinality(CountedInFlight(i))
    <3>1. t.pos \notin CountedInFlight(i)
      BY <2>1 DEF CountedInFlight
    <3>2. Cardinality(CountedInFlight(i) \cup {t.pos}) = Cardinality(CountedInFlight(i)) + 1
      BY <3>1, CountFinite, FS_AddElement
    <3> QED
      BY <2>5, <3>2
  <2>7. ASSUME NEW i \in SvpIndex
        PROVE  svp'[i].instance = IF i = idx /\ hit
                 THEN svp[i].instance + 1 ELSE svp[i].instance
    BY <1>3, <1>4, <1>5 DEF with_instance
  <2> QED
    BY <2>6, <2>7 DEF InstanceExact
<1> QED
  BY <1>8, <1>9, <1>10, <1>11, <1>12

-----------------------------------------------------------------------------
(* The actions that leave the table, the slots and both pointers alone     *)
(* keep the counters exact.                                                *)
LEMMA VpuUnchanged ==
  ASSUME InstanceExact, UNCHANGED vpu_vars
  PROVE  InstanceExact' /\ vpq_free_entries' = vpq_free_entries
BY DEF InstanceExact, vpu_vars, CountedInFlight, InFlight, Counted, tag_matches,
       vpq_free_entries

LEMMA Rename2Inv == \A b \in Bundles : IInv /\ Rename2(b) => IInv'
<1> SUFFICES ASSUME NEW b \in Bundles, IInv, Rename2(b) PROVE IInv'
  OBVIOUS
<1> USE DEF IInv
<1>1. b \in Seq(Eligible \cup Branch)
  BY VpuAssumption DEF Bundles
<1>2. TypeOK'
  BY <1>1 DEF Rename2, TypeOK, vpu_vars, branch_vars, repair_vars
<1>3. InstanceExact' /\ vpq_free_entries' = vpq_free_entries
  BY VpuUnchanged DEF Rename2
<1>4. BundleFits'
  BY <1>3 DEF Rename2, BundleFits, Idle, branch_vars, repair_vars
<1> QED
  BY <1>2, <1>3, <1>4 DEF Rename2, CheckpointsInWindow, BranchesOrdered, Offset,
     vpu_vars, branch_vars, repair_vars

LEMMA CheckpointInv == IInv /\ Checkpoint => IInv'
<1> SUFFICES ASSUME IInv, Checkpoint PROVE IInv'
  OBVIOUS
<1> USE DEF IInv
<1> PICK b \in BranchID \ GBM :
       /\ checkpoint_GBM' = [checkpoint_GBM EXCEPT ![b] = GBM]
       /\ GBM' = GBM \cup {b}
       /\ vpq_tail_checkpoint' = [vpq_tail_checkpoint EXCEPT ![b] = vpq_tail]
  BY DEF Checkpoint, saved_tail
<1>1. /\ rename_bundle # << >> /\ Head(rename_bundle).kind = "checkpoint"
      /\ rename_bundle' = Tail(rename_bundle)
      /\ UNCHANGED vpu_vars /\ UNCHANGED repair_vars
  BY DEF Checkpoint
<1>2. /\ rename_bundle \in Seq(Eligible \cup Branch) /\ GBM \subseteq BranchID
      /\ checkpoint_GBM \in [BranchID -> SUBSET BranchID]
      /\ vpq_tail_checkpoint \in [BranchID -> Pointer] /\ vpq_tail \in Pointer
      /\ vpq_head \in Pointer
  BY DEF TypeOK
<1>3. TypeOK'
  BY <1>1, <1>2 DEF TypeOK, vpu_vars, repair_vars
<1>4. InstanceExact' /\ vpq_free_entries' = vpq_free_entries
  BY <1>1, VpuUnchanged
<1>5. /\ bundle_branch(Tail(rename_bundle)) = bundle_branch(rename_bundle) - 1
      /\ bundle_branch(rename_bundle) \in Nat
      /\ bundle_vp_eligible(Tail(rename_bundle)) = bundle_vp_eligible(rename_bundle)
  BY <1>1, <1>2, BundleTail, FS_CardinalityType, ZenonT(30) DEF bundle_vp_eligible, bundle_branch, BundleItems
<1>6. Cardinality(GBM') = Cardinality(GBM) + 1 /\ Cardinality(GBM) \in Nat
  BY <1>2, BranchesFinite, FS_AddElement, FS_CardinalityType
<1>7. BundleFits'
  BY <1>1, <1>4, <1>5, <1>6, VpuAssumption DEF BundleFits, repair_vars
<1>8. ~repairing
  BY <1>1 DEF BundleFits
<1>9. CheckpointsInWindow'
  <2>1. \A p \in Pointer : Offset(p)' = Offset(p) /\ Offset(p) \in Int
    BY <1>1, <1>2, DistanceType DEF Offset, vpu_vars
  <2>2. Offset(vpq_tail)' \in 0 .. VpqSize
    BY <1>1 DEF CheckpointsInWindow, Offset, vpu_vars
  <2>3. ASSUME NEW c \in GBM'
        PROVE  /\ Offset(vpq_tail_checkpoint[c])' \in 0 .. Offset(vpq_tail)'
               /\ \A a \in checkpoint_GBM'[c] :
                    Offset(vpq_tail_checkpoint[a])' <= Offset(vpq_tail_checkpoint[c])'
    <3>1. CASE c = b
      <4>1. vpq_tail_checkpoint'[c] = vpq_tail /\ checkpoint_GBM'[c] = GBM
        BY <1>2, <3>1
      <4>2. \A a \in GBM : vpq_tail_checkpoint'[a] = vpq_tail_checkpoint[a]
                           /\ vpq_tail_checkpoint[a] \in Pointer
        BY <1>2
      <4>3. \A a \in GBM : Offset(vpq_tail_checkpoint[a]) \in 0 .. Offset(vpq_tail)
        BY DEF CheckpointsInWindow
      <4>4. vpq_tail' = vpq_tail /\ vpq_head' = vpq_head
        BY <1>1 DEF vpu_vars
      <4> QED
        BY <1>2, <2>1, <2>2, <4>1, <4>2, <4>3, <4>4 DEF Offset
    <3>2. CASE c # b
      <4>1. /\ vpq_tail_checkpoint'[c] = vpq_tail_checkpoint[c]
            /\ checkpoint_GBM'[c] = checkpoint_GBM[c] /\ c \in GBM
        BY <1>2, <3>2
      <4>2. checkpoint_GBM[c] \subseteq GBM
        BY <4>1 DEF BranchesOrdered
      <4>3. \A a \in checkpoint_GBM[c] : vpq_tail_checkpoint'[a] = vpq_tail_checkpoint[a]
        BY <1>2, <4>2
      <4>4. vpq_tail' = vpq_tail /\ vpq_head' = vpq_head
        BY <1>1 DEF vpu_vars
      <4> QED
        BY <4>1, <4>3, <4>4 DEF CheckpointsInWindow, Offset
    <3> QED
      BY <3>1, <3>2
  <2> QED
    BY <1>1, <1>8, <2>2, <2>3 DEF CheckpointsInWindow, repair_vars
<1>10. BranchesOrdered'
  <2>1. \A c \in GBM : checkpoint_GBM'[c] = checkpoint_GBM[c]
    BY <1>2
  <2>2. checkpoint_GBM'[b] = GBM
    BY <1>2
  <2>3. \A c \in GBM : b \notin checkpoint_GBM[c] /\ c # b
    BY DEF BranchesOrdered
  <2> QED
    BY <2>1, <2>2, <2>3 DEF BranchesOrdered
<1> QED
  BY <1>3, <1>4, <1>7, <1>9, <1>10

-----------------------------------------------------------------------------
LEMMA ResolveCorrectInv == \A b \in BranchID : IInv /\ ResolveCorrect(b) => IInv'
<1> SUFFICES ASSUME NEW b \in BranchID, IInv, ResolveCorrect(b) PROVE IInv'
  OBVIOUS
<1> USE DEF IInv
<1>1. /\ b \in GBM /\ GBM' = GBM \ {b}
      /\ checkpoint_GBM' = [c \in BranchID |-> checkpoint_GBM[c] \ {b}]
      /\ UNCHANGED vpu_vars
      /\ UNCHANGED <<vpq_tail_checkpoint, rename_bundle, repairing, restored_tail>>
      /\ rename_bundle = << >> /\ ~repairing
  BY DEF ResolveCorrect, without_branch, repair_vars, Idle
<1>2. /\ GBM \subseteq BranchID /\ checkpoint_GBM \in [BranchID -> SUBSET BranchID]
  BY DEF TypeOK
<1>3. TypeOK'
  BY <1>1, <1>2 DEF TypeOK, vpu_vars
<1>4. InstanceExact' /\ vpq_free_entries' = vpq_free_entries
  BY <1>1, VpuUnchanged
<1>5. vpq_free_entries >= 0
  BY FreeEntries, VpuAssumption DEF CheckpointsInWindow
<1>6. BundleFits'
  <2>1. GBM' \in SUBSET BranchID
    BY <1>1, <1>2
  <2>2. NumCheckpoints - Cardinality(GBM') >= 0
    BY <2>1, BranchesFinite, VpuAssumption
  <2> QED
    BY <1>1, <1>4, <1>5, <2>2, EmptyBundle DEF BundleFits
<1>7. CheckpointsInWindow'
  BY <1>1, <1>2 DEF CheckpointsInWindow, Offset, vpu_vars
<1>8. BranchesOrdered'
  BY <1>1, <1>2 DEF BranchesOrdered
<1> QED
  BY <1>3, <1>4, <1>6, <1>7, <1>8

LEMMA ResolveMispredictInv == \A b \in BranchID : IInv /\ ResolveMispredict(b) => IInv'
<1> SUFFICES ASSUME NEW b \in BranchID, IInv, ResolveMispredict(b) PROVE IInv'
  OBVIOUS
<1> USE DEF IInv
<1>1. /\ b \in GBM /\ GBM' = checkpoint_GBM[b]
      /\ repairing' = TRUE /\ restored_tail' = vpq_tail_checkpoint[b]
      /\ UNCHANGED vpu_vars
      /\ UNCHANGED <<vpq_tail_checkpoint, checkpoint_GBM, rename_bundle>>
      /\ rename_bundle = << >> /\ ~repairing
  BY DEF ResolveMispredict, Idle
<1>2. /\ GBM \subseteq BranchID /\ checkpoint_GBM \in [BranchID -> SUBSET BranchID]
      /\ vpq_tail_checkpoint \in [BranchID -> Pointer]
  BY DEF TypeOK
<1>3. TypeOK'
  BY <1>1, <1>2 DEF TypeOK, vpu_vars
<1>4. InstanceExact' /\ vpq_free_entries' = vpq_free_entries
  BY <1>1, VpuUnchanged
<1>5. vpq_free_entries >= 0
  BY FreeEntries, VpuAssumption DEF CheckpointsInWindow
<1>6. BundleFits'
  <2>1. GBM' \in SUBSET BranchID
    BY <1>1, <1>2
  <2>2. NumCheckpoints - Cardinality(GBM') >= 0
    BY <2>1, BranchesFinite, VpuAssumption
  <2> QED
    BY <1>1, <1>4, <1>5, <2>2, EmptyBundle DEF BundleFits
<1>7. checkpoint_GBM[b] \subseteq GBM \ {b}
  BY <1>1 DEF BranchesOrdered
<1>8. CheckpointsInWindow'
  BY <1>1, <1>7 DEF CheckpointsInWindow, Offset, vpu_vars
<1>9. BranchesOrdered'
  BY <1>1, <1>7 DEF BranchesOrdered
<1> QED
  BY <1>3, <1>4, <1>6, <1>8, <1>9

LEMMA SquashCompleteInv == IInv /\ SquashComplete => IInv'
<1> SUFFICES ASSUME IInv, SquashComplete PROVE IInv'
  OBVIOUS
<1> USE DEF IInv
<1>1. /\ GBM' = {} /\ repairing' = TRUE /\ restored_tail' = vpq_head
      /\ UNCHANGED vpu_vars
      /\ UNCHANGED <<vpq_tail_checkpoint, checkpoint_GBM, rename_bundle>>
      /\ rename_bundle = << >> /\ ~repairing
  BY DEF SquashComplete, Idle
<1>2. TypeOK'
  BY <1>1 DEF TypeOK, vpu_vars
<1>3. InstanceExact' /\ vpq_free_entries' = vpq_free_entries
  BY <1>1, VpuUnchanged
<1>4. vpq_free_entries >= 0
  BY FreeEntries, VpuAssumption DEF CheckpointsInWindow
<1>5. BundleFits'
  BY <1>1, <1>3, <1>4, EmptyBundle, FS_EmptySet, VpuAssumption DEF BundleFits
<1>6. Offset(vpq_head)' = 0
  BY <1>1 DEF Offset, distance, vpu_vars, TypeOK, Pointer, Slot
<1>7. CheckpointsInWindow'
  BY <1>1, <1>6 DEF CheckpointsInWindow, Offset, vpu_vars
<1>8. BranchesOrdered'
  BY <1>1 DEF BranchesOrdered
<1> QED
  BY <1>2, <1>3, <1>5, <1>7, <1>8

-----------------------------------------------------------------------------
(* What with_instance and TrainedEntry make of an entry.                   *)
LEMMA Recounted ==
  ASSUME NEW e \in SvpEntry, NEW n \in Nat
  PROVE  with_instance(e, n) \in SvpEntry
  BY DEF with_instance, SvpEntry

TrainedFrom(new, e, v, h) ==
  /\ new.tag = e.tag /\ new.valid = TRUE /\ new.retired_value = v
  /\ new.stride = (v - e.retired_value) % WordSize
  /\ new.conf \in Nat /\ new.conf <= e.conf + 1
  /\ new.instance = (IF h THEN e.instance - 1 ELSE e.instance)
  /\ (h => e.instance > 0) => new \in SvpEntry

LEMMA Trained ==
  ASSUME NEW e \in SvpEntry, NEW v \in Word, NEW h \in BOOLEAN
  PROVE  TrainedFrom(TrainedEntry(e, v, h), e, v, h)
<1> PICK new : new = TrainedEntry(e, v, h)
  OBVIOUS
<1> PICK s : s = (v - e.retired_value) % WordSize
  OBVIOUS
<1> PICK c : c = IF s # e.stride THEN 0 ELSE IF e.conf < SvpConfMax THEN e.conf + 1 ELSE e.conf
  OBVIOUS
<1> PICK i : i = IF h THEN e.instance - 1 ELSE e.instance
  OBVIOUS
<1>1. new = [tag |-> e.tag, stride |-> s, retired_value |-> v,
             conf |-> c, valid |-> TRUE, instance |-> i]
  BY DEF TrainedEntry
<1>2. /\ e.tag \in SvpTag /\ e.retired_value \in Word /\ e.conf \in 0 .. SvpConfMax
      /\ e.instance \in Nat
  BY DEF SvpEntry
<1>3. s \in Word
  BY <1>2, VpuAssumption DEF Word
<1>4. c \in 0 .. SvpConfMax /\ c \in Nat /\ c <= e.conf + 1
  BY <1>2, VpuAssumption
<1>5. (h => e.instance > 0) => i \in Nat
  BY <1>2
<1>6. i \in Nat => [tag |-> e.tag, stride |-> s, retired_value |-> v, conf |-> c,
                    valid |-> TRUE, instance |-> i] \in SvpEntry
  BY <1>2, <1>3, <1>4 DEF SvpEntry
<1>7. TrainedFrom(new, e, v, h)
  BY <1>1, <1>4, <1>5, <1>6 DEF TrainedFrom
<1> QED
  BY <1>7, Zenon

-----------------------------------------------------------------------------
(* One iteration of repair() takes the youngest entry out of the window    *)
(* and its increment, if it made one and the entry is still its own, out   *)
(* of the counter.                                                         *)
LEMMA RepairStepInv == IInv /\ RepairStep => IInv'
<1> SUFFICES ASSUME IInv, RepairStep PROVE IInv'
  OBVIOUS
<1> USE DEF IInv
<1> PICK p \in Pointer : p = Prev_slot(vpq_tail)
  BY SlotType DEF TypeOK
<1> PICK idx \in SvpIndex : idx = vpq[p.pos].svp_index
  BY DEF TypeOK, Pointer, VpqEntry
<1> PICK hit \in BOOLEAN : hit = (vpq[p.pos].svp_hit /\ tag_matches(idx, vpq[p.pos].pc))
  BY DEF tag_matches
<1>1. /\ repairing /\ vpq_tail # restored_tail /\ vpq_tail' = p
      /\ svp' = IF hit THEN [svp EXCEPT ![idx] = with_instance(svp[idx], svp[idx].instance - 1)]
                       ELSE svp
      /\ UNCHANGED <<vpq, vpq_head, vpq_tail_checkpoint, GBM, checkpoint_GBM,
                     rename_bundle, repairing, restored_tail>>
  BY DEF RepairStep, branch_vars, repair_vars
<1>2. /\ vpq_head \in Pointer /\ vpq_tail \in Pointer /\ restored_tail \in Pointer
      /\ svp \in [SvpIndex -> SvpEntry] /\ vpq \in [Slot -> VpqEntry]
      /\ vpq_tail_checkpoint \in [BranchID -> Pointer] /\ GBM \subseteq BranchID
  BY DEF TypeOK
<1>3. /\ distance(vpq_head, vpq_tail) \in 1 .. VpqSize
      /\ distance(vpq_head, restored_tail) \in 0 .. (distance(vpq_head, vpq_tail) - 1)
  <2>1. distance(vpq_head, restored_tail) # distance(vpq_head, vpq_tail)
    BY <1>1, <1>2, DistanceInjective
  <2> QED
    BY <1>1, <1>2, <2>1, DistanceType, VpuAssumption DEF CheckpointsInWindow, Offset
<1>4. /\ distance(vpq_head, p) = distance(vpq_head, vpq_tail) - 1
      /\ InFlight' = InFlight \ {p.pos} /\ p.pos \in InFlight
  BY <1>1, <1>2, <1>3, ShrinkTail DEF InFlight
<1>5. p.pos \in CountedInFlight(idx) <=> hit
  BY <1>4 DEF CountedInFlight, Counted
<1>6. hit => svp[idx].instance > 0
  <2>1. Cardinality(CountedInFlight(idx)) > 0 \/ CountedInFlight(idx) = {}
    BY CountFinite, FS_EmptySet
  <2> QED
    BY <1>5, <2>1 DEF InstanceExact
<1>7. TypeOK'
  <2>1. svp' \in [SvpIndex -> SvpEntry]
    <3>1. CASE hit
      <4>1. svp[idx] \in SvpEntry
        BY <1>2
      <4>2. svp[idx].instance - 1 \in Nat
        BY <1>6, <3>1, <4>1 DEF SvpEntry
      <4>3. with_instance(svp[idx], svp[idx].instance - 1) \in SvpEntry
        BY <4>1, <4>2, Recounted
      <4> QED
        BY <1>1, <1>2, <3>1, <4>3
    <3>2. CASE ~hit
      BY <1>1, <1>2, <3>2
    <3> QED
      BY <3>1, <3>2
  <2> QED
    BY <1>1, <2>1 DEF TypeOK
<1>8. CheckpointsInWindow'
  <2>1. Offset(vpq_tail)' \in 0 .. VpqSize /\ Offset(restored_tail)' \in 0 .. Offset(vpq_tail)'
    BY <1>1, <1>3, <1>4, VpuAssumption DEF Offset
  <2>2. ASSUME NEW b \in GBM
        PROVE  /\ Offset(vpq_tail_checkpoint[b])' \in 0 .. Offset(vpq_tail)'
               /\ Offset(vpq_tail_checkpoint[b])' <= Offset(restored_tail)'
    <3>1. distance(vpq_head, vpq_tail_checkpoint[b]) <= distance(vpq_head, restored_tail)
          /\ distance(vpq_head, vpq_tail_checkpoint[b]) \in Nat
      BY <1>1 DEF CheckpointsInWindow, Offset
    <3> QED
      BY <1>1, <2>1, <1>3, <1>4, <3>1 DEF Offset
  <2>3. \A b \in GBM : \A a \in checkpoint_GBM[b] :
            Offset(vpq_tail_checkpoint[a])' <= Offset(vpq_tail_checkpoint[b])'
    BY <1>1 DEF CheckpointsInWindow, Offset
  <2> QED
    BY <1>1, <2>1, <2>2, <2>3 DEF CheckpointsInWindow
<1>9. BranchesOrdered'
  BY <1>1 DEF BranchesOrdered
<1>10. BundleFits'
  <2>1. (vpq_free_entries = VpqSize - Offset(vpq_tail))'
    BY <1>7, <1>8, FreeEntries, PTL
  <2>2. vpq_free_entries' >= 0
    BY <1>1, <1>3, <1>4, <2>1, VpuAssumption DEF Offset
  <2> QED
    BY <1>1, <2>2, EmptyBundle DEF BundleFits
<1>11. InstanceExact'
  <2>1. \A i \in SvpIndex, pc \in PCs \cup {0} : tag_matches(i, pc)' <=> tag_matches(i, pc)
    BY <1>1, <1>2 DEF tag_matches, with_instance, SvpEntry
  <2>2. \A s \in InFlight, i \in SvpIndex : Counted(s, i)' <=> Counted(s, i)
    BY <1>1, <1>2, <2>1 DEF Counted, VpqEntry, InFlight, Window
  <2>3. ASSUME NEW i \in SvpIndex
        PROVE  CountedInFlight(i)' = CountedInFlight(i) \ {p.pos}
    BY <1>4, <2>2 DEF CountedInFlight
  <2>4. \A i \in SvpIndex : p.pos \in CountedInFlight(i) <=> (i = idx /\ hit)
    BY <1>5 DEF CountedInFlight, Counted
  <2>5. ASSUME NEW i \in SvpIndex
        PROVE  Cardinality(CountedInFlight(i)') = IF i = idx /\ hit
                 THEN Cardinality(CountedInFlight(i)) - 1 ELSE Cardinality(CountedInFlight(i))
    <3>1. Cardinality(CountedInFlight(i) \ {p.pos}) =
            IF p.pos \in CountedInFlight(i) THEN Cardinality(CountedInFlight(i)) - 1
                                            ELSE Cardinality(CountedInFlight(i))
      BY CountFinite, FS_RemoveElement
    <3> QED
      BY <2>3, <2>4, <3>1
  <2>6. ASSUME NEW i \in SvpIndex
        PROVE  svp'[i].instance = IF i = idx /\ hit
                 THEN svp[i].instance - 1 ELSE svp[i].instance
    BY <1>1, <1>2 DEF with_instance
  <2> QED
    BY <2>5, <2>6 DEF InstanceExact
<1> QED
  BY <1>7, <1>8, <1>9, <1>10, <1>11

LEMMA RepairEndInv == IInv /\ RepairEnd => IInv'
<1> SUFFICES ASSUME IInv, RepairEnd PROVE IInv'
  OBVIOUS
<1> USE DEF IInv
<1>1. InstanceExact' /\ vpq_free_entries' = vpq_free_entries
  BY VpuUnchanged DEF RepairEnd
<1> QED
  BY <1>1 DEF RepairEnd, TypeOK, CheckpointsInWindow, BranchesOrdered, BundleFits, Offset,
     vpu_vars, branch_vars

-----------------------------------------------------------------------------
(* Retiring the instruction at the head: its entry leaves the window and   *)
(* either takes its own increment with it or gives the SVP entry to a new  *)
(* owner, whose counter starts at what is left in flight.                  *)
LEMMA TrainInv == \A v \in Word : IInv /\ Train(v) => IInv'
<1> SUFFICES ASSUME NEW v \in Word, IInv, Train(v) PROVE IInv'
  OBVIOUS
<1> USE DEF IInv
<1> PICK h \in Pointer : h = vpq_head
  BY DEF TypeOK
<1> PICK e \in VpqEntry : e = vpq[h.pos]
  BY DEF TypeOK, Pointer
<1> PICK pc \in PCs \cup {0} : pc = e.pc
  BY DEF VpqEntry
<1> PICK idx \in SvpIndex : idx = e.svp_index
  BY DEF VpqEntry
<1> PICK old \in SvpEntry : old = svp[idx]
  BY DEF TypeOK
<1> PICK match \in BOOLEAN : match = (old.valid /\ tag_matches(idx, pc))
  BY DEF tag_matches
<1> PICK hit \in BOOLEAN : hit = e.svp_hit
  BY DEF VpqEntry
<1> PICK trained : trained = TrainedEntry(old, v, hit)
  OBVIOUS
<1> DEFINE new == IF match THEN trained ELSE ReplacedEntry(idx, pc, v)
<1>1. /\ rename_bundle = << >> /\ ~repairing /\ h # vpq_tail
      /\ \A b \in GBM : vpq_tail_checkpoint[b] # h
      /\ svp' = [svp EXCEPT ![idx] = new]
      /\ vpq_head' = Next_slot(h)
      /\ UNCHANGED <<vpq, vpq_tail, vpq_tail_checkpoint, GBM, checkpoint_GBM,
                     rename_bundle, repairing, restored_tail>>
  BY DEF Train, branch_vars, repair_vars, Idle
<1>2. /\ vpq_tail \in Pointer /\ h.pos \in Slot
      /\ svp \in [SvpIndex -> SvpEntry] /\ vpq \in [Slot -> VpqEntry]
      /\ vpq_tail_checkpoint \in [BranchID -> Pointer] /\ GBM \subseteq BranchID
      /\ checkpoint_GBM \in [BranchID -> SUBSET BranchID]
      /\ Next_slot(h) \in Pointer
  BY SlotType DEF TypeOK, Pointer
<1>3. distance(h, vpq_tail) \in 1 .. VpqSize
  BY <1>1, <1>2, DistanceType, VpuAssumption DEF CheckpointsInWindow, Offset
<1>4. /\ InFlight' = InFlight \ {h.pos} /\ h.pos \in InFlight
      /\ Window(Next_slot(h), vpq_tail) = InFlight \ {h.pos}
      /\ distance(Next_slot(h), vpq_tail) = distance(h, vpq_tail) - 1
  BY <1>1, <1>2, <1>3, ShrinkHead DEF InFlight
<1>5. match /\ e.svp_hit => h.pos \in CountedInFlight(idx)
  BY <1>4 DEF CountedInFlight, Counted
<1>6. match /\ e.svp_hit => old.instance > 0
  <2>1. Cardinality(CountedInFlight(idx)) > 0 \/ CountedInFlight(idx) = {}
    BY CountFinite, FS_EmptySet
  <2> QED
    BY <1>5, <2>1 DEF InstanceExact
<1>7. get_svp_tag(pc) \in SvpTag
  BY IndexTypes
<1>8. DEFINE rest == {s \in InFlight \ {h.pos} :
                        /\ vpq[s].svp_index = idx /\ vpq[s].svp_hit
                        /\ SvpNumTags = 1 \/ get_svp_tag(vpq[s].pc) = get_svp_tag(pc)}
<1>9. IsFiniteSet(rest) /\ Cardinality(rest) \in Nat
  <2>1. rest \subseteq Slot
    BY DEF InFlight, Window
  <2>2. IsFiniteSet(Slot)
    BY FS_Interval, VpuAssumption DEF Slot
  <2> QED
    BY <2>1, <2>2, FS_Subset, FS_CardinalityType
<1>10. ~match => new = [tag |-> get_svp_tag(pc), stride |-> v, retired_value |-> v,
                        conf |-> 0, valid |-> TRUE, instance |-> Cardinality(rest)]
  BY <1>4 DEF ReplacedEntry, count_inflight_instances
<1>10a. TrainedFrom(trained, old, v, hit)
  BY Trained, Zenon
<1>11. match => /\ new.tag = old.tag /\ new.valid /\ old.valid
                /\ new.instance = IF e.svp_hit THEN old.instance - 1 ELSE old.instance
  BY <1>10a DEF TrainedFrom
<1>12. new \in SvpEntry
  <2>1. CASE match
    <3>1. hit => old.instance > 0
      BY <1>6, <2>1
    <3>2. trained \in SvpEntry
      BY <1>10a, <3>1 DEF TrainedFrom
    <3> QED
      BY <2>1, <3>2
  <2>2. CASE ~match
    <3>1. 0 \in 0 .. SvpConfMax
      BY VpuAssumption
    <3> PICK n \in Nat : n = Cardinality(rest)
      BY <1>9
    <3> PICK tag \in SvpTag : tag = get_svp_tag(pc)
      BY <1>7
    <3>2. [tag |-> tag, stride |-> v, retired_value |-> v, conf |-> 0,
           valid |-> TRUE, instance |-> n] \in SvpEntry
      BY <3>1 DEF SvpEntry
    <3> HIDE DEF new, rest
    <3> QED
      BY <1>10, <2>2, <3>2
  <2> QED
    BY <2>1, <2>2
<1> HIDE DEF new
<1>13. TypeOK'
  <2>1. svp' \in [SvpIndex -> SvpEntry]
    BY <1>1, <1>2, <1>12
  <2> QED
    BY <1>1, <1>2, <2>1 DEF TypeOK
<1>14. CheckpointsInWindow'
  <2>1. ASSUME NEW b \in GBM
        PROVE  distance(Next_slot(h), vpq_tail_checkpoint[b]) =
                 distance(h, vpq_tail_checkpoint[b]) - 1
               /\ distance(h, vpq_tail_checkpoint[b]) \in 1 .. distance(h, vpq_tail)
    <3>1. vpq_tail_checkpoint[b] \in Pointer /\ vpq_tail_checkpoint[b] # h
      BY <1>1, <1>2
    <3>2. distance(h, vpq_tail_checkpoint[b]) \in 0 .. distance(h, vpq_tail)
      BY DEF CheckpointsInWindow, Offset
    <3>3. distance(h, vpq_tail_checkpoint[b]) \in 1 .. VpqSize
      BY <1>3, <3>1, <3>2, DistanceType, VpuAssumption
    <3> QED
      BY <3>1, <3>2, <3>3, ShrinkHead
  <2>2. \A b \in GBM : checkpoint_GBM[b] \subseteq GBM
    BY DEF BranchesOrdered
  <2> QED
    BY <1>1, <1>3, <1>4, <2>1, <2>2, VpuAssumption DEF CheckpointsInWindow, Offset
<1>15. BranchesOrdered'
  BY <1>1 DEF BranchesOrdered
<1>16. BundleFits'
  <2>1. (vpq_free_entries = VpqSize - Offset(vpq_tail))'
    BY <1>13, <1>14, FreeEntries, PTL
  <2>2. vpq_free_entries' >= 0
    BY <1>1, <1>3, <1>4, <2>1, VpuAssumption DEF Offset
  <2> QED
    BY <1>1, <2>2, EmptyBundle DEF BundleFits
<1>17. InstanceExact'
  <2>1. ASSUME NEW i \in SvpIndex, i # idx
        PROVE  svp'[i].instance = Cardinality(CountedInFlight(i)')
    <3>1. svp'[i] = svp[i]
      BY <1>1, <1>2, <2>1
    <3>2. \A s \in Slot : Counted(s, i)' <=> Counted(s, i)
      BY <1>1, <3>1 DEF Counted, tag_matches
    <3>3. h.pos \notin CountedInFlight(i)
      BY <2>1 DEF CountedInFlight, Counted
    <3>4. CountedInFlight(i)' = CountedInFlight(i)
      BY <1>4, <3>2, <3>3 DEF CountedInFlight, InFlight, Window
    <3> QED
      BY <3>1, <3>4 DEF InstanceExact
  <2>2. svp'[idx] = new
    BY <1>1, <1>2
  <2>3. CASE match
    <3>1. \A s \in Slot : Counted(s, idx)' <=> Counted(s, idx)
      BY <1>1, <1>11, <2>2, <2>3 DEF Counted, tag_matches
    <3>2. CountedInFlight(idx)' = CountedInFlight(idx) \ {h.pos}
      BY <1>4, <3>1 DEF CountedInFlight, InFlight, Window
    <3>3. h.pos \in CountedInFlight(idx) <=> e.svp_hit
      BY <1>4, <2>3 DEF CountedInFlight, Counted
    <3>4. Cardinality(CountedInFlight(idx) \ {h.pos}) =
            IF e.svp_hit THEN Cardinality(CountedInFlight(idx)) - 1
                         ELSE Cardinality(CountedInFlight(idx))
      BY <3>3, CountFinite, FS_RemoveElement
    <3> QED
      BY <1>11, <2>1, <2>2, <2>3, <3>2, <3>4 DEF InstanceExact
  <2>4. CASE ~match
    <3>1. /\ new.tag = get_svp_tag(pc) /\ new.valid
          /\ new.instance = Cardinality(rest)
      BY <1>10, <2>4, SMTT(30)
    <3>2. \A s \in Slot : Counted(s, idx)' <=>
            /\ vpq[s].svp_index = idx /\ vpq[s].svp_hit
            /\ SvpNumTags = 1 \/ get_svp_tag(vpq[s].pc) = get_svp_tag(pc)
      BY <1>1, <2>2, <3>1 DEF Counted, tag_matches
    <3>3. CountedInFlight(idx)' = rest
      BY <1>4, <3>2 DEF CountedInFlight, InFlight, Window
    <3> QED
      BY <2>1, <2>2, <3>1, <3>3 DEF InstanceExact
  <2> QED
    BY <2>3, <2>4
<1> QED
  BY <1>13, <1>14, <1>15, <1>16, <1>17

-----------------------------------------------------------------------------
LEMMA NextInv == IInv /\ [Next]_vars => IInv'
<1>1. IInv /\ UNCHANGED vars => IInv'
  <2> SUFFICES ASSUME IInv, UNCHANGED vars PROVE IInv'
    OBVIOUS
  <2>1. InstanceExact' /\ vpq_free_entries' = vpq_free_entries
    BY VpuUnchanged DEF IInv, vars
  <2> QED
    BY <2>1 DEF IInv, vars, vpu_vars, branch_vars, repair_vars, TypeOK,
       CheckpointsInWindow, Offset, BranchesOrdered, BundleFits
<1> QED
  BY <1>1, Rename2Inv, CheckpointInv, PredictInv, TrainInv, ResolveCorrectInv,
     ResolveMispredictInv, SquashCompleteInv, RepairStepInv, RepairEndInv DEF Next

LEMMA Invariant == Spec => []IInv
BY InitInv, NextInv, PTL DEF Spec

(* Every value of the variables stays in its type; the instance counter,   *)
(* an unsigned in the code, never goes below zero (vpu.cc:224, :283).      *)
THEOREM TypeCorrect == Spec => []TypeOK
BY Invariant, PTL DEF IInv

(* The instance counter of every SVP entry equals the number of in-flight  *)
(* copies that will decrement it, whatever is replaced or squashed.        *)
THEOREM InstanceCorrect == Spec => []InstanceExact
BY Invariant, PTL DEF IInv

(* A repair never walks past the head of the queue, and the saved tails of *)
(* the live branches are in the order of their ages.                       *)
THEOREM WalksInWindow == Spec => []CheckpointsInWindow
BY Invariant, PTL DEF IInv

(* The branches saved with an unresolved branch are its elders, whichever  *)
(* of them have resolved and whichever IDs were used again: a misprediction *)
(* squashes the younger ones and no other.                                 *)
THEOREM BranchesInOrder == Spec => []BranchesOrdered
BY Invariant, PTL DEF IInv

(* No bundle that passed the stall checks finds the VPQ or the branch IDs  *)
(* used up.                                                                *)
THEOREM BundlesFit == Spec => []BundleFits
BY Invariant, PTL DEF IInv

(* What is in flight is never overwritten: only predict() writes a slot,   *)
(* and the slot at the tail is free when it does.                          *)
THEOREM SlotsStable == Spec => EntriesStable
<1> DEFINE Stable == \A s \in InFlight \cap InFlight' : vpq'[s] = vpq[s]
<1>1. IInv /\ [Next]_vars => [Stable]_vars
  <2> SUFFICES ASSUME IInv, Next PROVE Stable
    OBVIOUS
  <2>1. CASE Predict
    <3>1. /\ vpq_tail \in Pointer /\ vpq_head \in Pointer /\ vpq_tail.pos \in Slot
          /\ vpq \in [Slot -> VpqEntry]
      BY DEF IInv, TypeOK, Pointer
    <3>2. distance(vpq_head, vpq_tail) \in 0 .. (VpqSize - 1)
      <4>1. rename_bundle \in Seq(Eligible \cup Branch) /\ rename_bundle # << >>
            /\ Head(rename_bundle).kind = "predict"
        BY <2>1 DEF Predict, IInv, TypeOK
      <4>2. bundle_vp_eligible(rename_bundle) \in Nat \ {0}
        <5>1. bundle_vp_eligible(Tail(rename_bundle)) = bundle_vp_eligible(rename_bundle) - 1
              /\ bundle_vp_eligible(Tail(rename_bundle)) \in Nat
              /\ bundle_vp_eligible(rename_bundle) \in Nat
          BY <4>1, BundleTail, FS_CardinalityType DEF bundle_vp_eligible, BundleItems
        <5> QED
          BY <5>1
      <4>3. vpq_free_entries = VpqSize - Offset(vpq_tail)
        BY FreeEntries DEF IInv
      <4> QED
        BY <4>2, <4>3, VpuAssumption DEF IInv, BundleFits, CheckpointsInWindow, Offset
    <3>3. vpq_tail.pos \notin InFlight
      BY <3>1, <3>2, GrowTail DEF InFlight
    <3> QED
      BY <2>1, <3>1, <3>3 DEF Predict, InFlight, Window
  <2>2. CASE ~Predict
    BY <2>2 DEF Next, Rename2, Checkpoint, Train, ResolveCorrect, ResolveMispredict,
       SquashComplete, RepairStep, RepairEnd, vpu_vars
  <2> QED
    BY <2>1, <2>2
<1> QED
  BY <1>1, Invariant, PTL DEF Spec, EntriesStable
-----------------------------------------------------------------------------
(* Arithmetic of words. *)

(* A remainder is known by any quotient that goes with it.                 *)
LEMMA RemainderIs ==
  ASSUME NEW w \in Nat \ {0}, NEW a \in Int, NEW k \in Int, NEW r \in 0 .. w - 1, a = k * w + r
  PROVE  a % w = r
<1> DEFINE m == a \div w
           x == a % w
<1>1. m \in Int /\ x \in 0 .. w - 1 /\ a = m * w + x
  OBVIOUS
<1> HIDE DEF m, x
<1>2. (k - m) * w = x - r
  BY <1>1
<1>3. k - m >= 1 => (k - m) * w >= w
  BY <1>1
<1>4. k - m <= -1 => (k - m) * w <= -w
  BY <1>1
<1>5. k = m
  BY <1>1, <1>2, <1>3, <1>4
<1>6. x = r
  BY <1>1, <1>2, <1>5
<1> QED
  BY <1>6 DEF x

(* Sums may be reduced on the way.                                         *)
LEMMA SumOfRemainder ==
  ASSUME NEW w \in Nat \ {0}, NEW a \in Int, NEW b \in Int
  PROVE  ((a % w) + b) % w = (a + b) % w
<1> DEFINE m == a \div w
           x == a % w
           l == (x + b) \div w
           y == (x + b) % w
<1>1. m \in Int /\ x \in 0 .. w - 1 /\ a = m * w + x
  OBVIOUS
<1>2. l \in Int /\ y \in 0 .. w - 1 /\ x + b = l * w + y
  BY <1>1
<1> HIDE DEF m, x, l, y
<1>3. a + b = (m + l) * w + y /\ m + l \in Int /\ a + b \in Int
  BY <1>1, <1>2
<1>4. (a + b) % w = y
  BY <1>2, <1>3, RemainderIs
<1> QED
  BY <1>4 DEF x, y

(* A word that has been added comes out again.                             *)
LEMMA Difference ==
  ASSUME NEW w \in Nat \ {0}, NEW c \in 0 .. w - 1, NEW s \in 0 .. w - 1
  PROVE  (((c + s) % w) - c) % w = s
<1>0. c + s \in Int /\ -c \in Int
  OBVIOUS
<1>1. (((c + s) % w) + (-c)) % w = ((c + s) + (-c)) % w
  BY <1>0, SumOfRemainder, Zenon
<1>2. ((c + s) + (-c)) = 0 * w + s
  OBVIOUS
<1>3. ((c + s) + (-c)) % w = s
  BY <1>2, RemainderIs
<1>4. (((c + s) % w) + (-c)) = (((c + s) % w) - c)
  OBVIOUS
<1> QED
  BY <1>1, <1>3, <1>4

(* The value n copies on, seen from the next copy.                         *)
LEMMA OneCopyOn ==
  ASSUME NEW w \in Nat \ {0}, NEW c \in 0 .. w - 1, NEW s \in 0 .. w - 1, NEW n \in Int
  PROVE  (((c + s) % w) + (n * s)) % w = (c + ((n + 1) * s)) % w
<1>1. n * s \in Int /\ c + s \in Int /\ (n + 1) * s = n * s + s
  OBVIOUS
<1>2. (((c + s) % w) + (n * s)) % w = ((c + s) + (n * s)) % w
  BY <1>1, SumOfRemainder, Zenon
<1>3. (c + s) + (n * s) = c + ((n + 1) * s)
  BY <1>1
<1> QED
  BY <1>2, <1>3, Zenon

(* Both, for the words of the machine: of the value v that follows c with  *)
(* stride s.                                                               *)
Follows(v, c, s) == v = (c + s) % WordSize
StrideBack(v, c, s) == (v - c) % WordSize = s
CopiesOn(v, c, s, n) == (v + (n * s)) % WordSize = (c + ((n + 1) * s)) % WordSize

LEMMA WordFollows ==
  ASSUME NEW c \in Word, NEW s \in Word, NEW v, Follows(v, c, s)
  PROVE  v \in Word
<1> PICK x \in Int : x = c + s
  BY VpuAssumption DEF Word
<1>1. x % WordSize \in Word
  BY VpuAssumption DEF Word
<1> QED
  BY <1>1, Zenon DEF Follows

LEMMA WordDifference ==
  ASSUME NEW c \in Word, NEW s \in Word, NEW v, Follows(v, c, s)
  PROVE  StrideBack(v, c, s)
<1>1. WordSize \in Nat \ {0} /\ c \in 0 .. WordSize - 1 /\ s \in 0 .. WordSize - 1
  BY VpuAssumption DEF Word
<1>2. (((c + s) % WordSize) - c) % WordSize = s
  BY <1>1, Difference, Zenon
<1> QED
  BY <1>2, Zenon DEF Follows, StrideBack

LEMMA WordOneCopyOn ==
  ASSUME NEW c \in Word, NEW s \in Word, NEW n \in Int, NEW v, Follows(v, c, s)
  PROVE  CopiesOn(v, c, s, n)
<1>1. WordSize \in Nat \ {0} /\ c \in 0 .. WordSize - 1 /\ s \in 0 .. WordSize - 1
  BY VpuAssumption DEF Word
<1>2. (((c + s) % WordSize) + (n * s)) % WordSize = (c + ((n + 1) * s)) % WordSize
  BY <1>1, OneCopyOn, Zenon
<1> QED
  BY <1>2, Zenon DEF Follows, CopiesOn

-----------------------------------------------------------------------------
(* VpuStrided. The invariant relates each entry in flight to the copies of *)
(* its instruction in front of it.                                        *)

(* How many entries have been renamed before slot s among those in flight, *)
(* and those of the same instruction up to s.                              *)
Age(s)  == IF vpq_head.pos <= s THEN s - vpq_head.pos ELSE s - vpq_head.pos + VpqSize
UpTo(s) == {r \in InFlight : vpq[r].pc = vpq[s].pc /\ Age(r) <= Age(s)}

(* The entry an instruction looks up, and whether it is its own.           *)
EntryOf(pc) == svp[get_svp_index(pc)]
Owns(pc)    == EntryOf(pc).valid /\ tag_matches(get_svp_index(pc), pc)

(* predict() records the instruction and the entry it has looked up.       *)
Recorded == \A s \in InFlight : /\ vpq[s].pc \in PCs
                                /\ vpq[s].svp_index = get_svp_index(vpq[s].pc)

(* An entry has the last value that its only owner committed, and the      *)
(* right stride once it has seen the same one twice.                       *)
Learned ==
  /\ committed_value \in [PCs -> Word]
  /\ \A i \in SvpIndex : svp[i].conf > 0 => svp[i].valid
  /\ \A pc \in PCs : Owns(pc) /\ Alone(pc) =>
       /\ EntryOf(pc).retired_value = committed_value[pc]
       /\ EntryOf(pc).conf > 0 => EntryOf(pc).stride = Stride[pc]

(* A confident prediction is right when the copies in front that had not   *)
(* missed have committed.                                                  *)
Foretold == \A s \in InFlight :
  vpq[s].confident /\ SvpConfMax # 0 /\ Alone(vpq[s].pc) =>
    vpq[s].predicted_value =
      (committed_value[vpq[s].pc] + (Cardinality(UpTo(s)) - uncounted[s]) * Stride[vpq[s].pc]) % WordSize

StridedInv == Recorded /\ Learned /\ uncounted \in [Slot -> Nat] /\ Foretold

(* Slots have different ages, and those in flight the lowest.              *)
LEMMA Ages ==
  ASSUME TypeOK, CheckpointsInWindow
  PROVE  /\ \A s \in Slot : Age(s) \in 0 .. VpqSize - 1
         /\ \A r, s \in Slot : Age(r) = Age(s) => r = s
         /\ \A s : s \in InFlight <=> s \in Slot /\ Age(s) < Offset(vpq_tail)
<1>1. /\ vpq_head.pos \in 0 .. VpqSize - 1 /\ vpq_head.phase \in BOOLEAN
      /\ vpq_tail.pos \in 0 .. VpqSize - 1 /\ vpq_tail.phase \in BOOLEAN
      /\ VpqSize \in Nat \ {0} /\ Offset(vpq_tail) \in 0 .. VpqSize
  BY VpuAssumption DEF TypeOK, Pointer, Slot, CheckpointsInWindow
<1>2. /\ \A s \in Slot : Age(s) \in 0 .. VpqSize - 1
      /\ \A r, s \in Slot : Age(r) = Age(s) => r = s
  BY <1>1 DEF Age, Slot
<1>3. \A s : s \in InFlight <=> s \in Slot /\ Age(s) < Offset(vpq_tail)
  BY <1>1 DEF Age, Slot, InFlight, Window, Offset, distance
<1> QED
  BY <1>2, <1>3

(* The copies in front of a slot are finitely many.                        *)
LEMMA UpToFinite ==
  ASSUME NEW s
  PROVE  IsFiniteSet(UpTo(s)) /\ Cardinality(UpTo(s)) \in Nat
<1>1. UpTo(s) \subseteq Slot
  BY DEF UpTo, InFlight, Window
<1>2. IsFiniteSet(Slot)
  BY FS_Interval, VpuAssumption DEF Slot
<1> QED
  BY <1>1, <1>2, FS_Subset, FS_CardinalityType

(* The copies that missed as well.                                         *)
LEMMA MissedFinite ==
  ASSUME NEW pc
  PROVE  IsFiniteSet(Missed(pc)) /\ Cardinality(Missed(pc)) \in Nat
<1>1. Missed(pc) \subseteq Slot
  BY DEF Missed, InFlight, Window
<1>2. IsFiniteSet(Slot)
  BY FS_Interval, VpuAssumption DEF Slot
<1> QED
  BY <1>1, <1>2, FS_Subset, FS_CardinalityType

(* The entry of an instruction that is alone belongs to no other.          *)
LEMMA OneOwner ==
  ASSUME NEW p \in PCs, NEW q \in PCs, Alone(p), get_svp_index(p) = get_svp_index(q),
         Owns(p), Owns(q)
  PROVE  p = q
<1>1. get_svp_tag(p) \in SvpTag /\ get_svp_tag(q) \in SvpTag
  BY IndexTypes
<1>2. get_svp_tag(p) = get_svp_tag(q)
  <2>1. CASE SvpNumTags = 1
    BY <1>1, <2>1 DEF SvpTag
  <2>2. CASE SvpNumTags # 1
    BY <2>2 DEF Owns, EntryOf, tag_matches
  <2> QED
    BY <2>1, <2>2
<1> QED
  BY <1>2 DEF Alone

(* A step that changes nothing of the table but counters.                  *)
CountersOnly == \A i \in SvpIndex :
  /\ svp'[i].tag = svp[i].tag /\ svp'[i].stride = svp[i].stride
  /\ svp'[i].retired_value = svp[i].retired_value
  /\ svp'[i].conf = svp[i].conf /\ svp'[i].valid = svp[i].valid

(* It changes no owner and nothing that an entry has learned.              *)
LEMMA KeepsLearned ==
  ASSUME CountersOnly, UNCHANGED committed_value
  PROVE  /\ Learned => Learned'
         /\ \A pc \in PCs : /\ Owns(pc)' <=> Owns(pc)
                            /\ EntryOf(pc)'.conf = EntryOf(pc).conf
<1>1. \A pc \in PCs : get_svp_index(pc) \in SvpIndex
  BY IndexTypes
<1>2. \A pc \in PCs : /\ Owns(pc)' <=> Owns(pc)
                      /\ EntryOf(pc)'.conf = EntryOf(pc).conf
                      /\ EntryOf(pc)'.stride = EntryOf(pc).stride
                      /\ EntryOf(pc)'.retired_value = EntryOf(pc).retired_value
  BY <1>1 DEF CountersOnly, Owns, EntryOf, tag_matches
<1>3. \A i \in SvpIndex : svp'[i].conf = svp[i].conf /\ svp'[i].valid = svp[i].valid
  BY DEF CountersOnly
<1>4. Learned => Learned'
  BY <1>2, <1>3 DEF Learned
<1> QED
  BY <1>2, <1>4

-----------------------------------------------------------------------------
(* predict() appends a copy: it is the youngest.                           *)
LEMMA PredictKeeps ==
  ASSUME IInv, StridedInv, StridedPredict, TypeOK'
  PROVE  StridedInv'
<1>0. Head(rename_bundle).pc \in PCs /\ vpq_tail.pos \in Slot
  <2>1. /\ Head(rename_bundle) \in Eligible \cup Branch
        /\ Head(rename_bundle).kind = "predict"
    BY DEF StridedPredict, Predict, IInv, TypeOK
  <2> QED
    BY <2>1 DEF IInv, TypeOK, Pointer, Eligible, Branch
<1> PICK pc \in PCs : pc = Head(rename_bundle).pc
  BY <1>0
<1> PICK t \in Slot : t = vpq_tail.pos
  BY <1>0
<1> PICK hit \in BOOLEAN : hit = svp_lookup_hit(pc)
  BY DEF svp_lookup_hit, tag_matches
<1> DEFINE idx == get_svp_index(pc)
           new == [pc |-> pc, svp_index |-> idx, svp_hit |-> hit,
                   predicted_value |-> IF hit THEN predicted_val(svp[idx]) ELSE 0,
                   confident |-> hit /\ svp[idx].conf >= SvpConfMax]
<1>1. /\ rename_bundle \in Seq(Eligible \cup Branch) /\ rename_bundle # << >>
      /\ Head(rename_bundle).kind = "predict"
      /\ svp' = IF hit THEN [svp EXCEPT ![idx] = with_instance(svp[idx], svp[idx].instance + 1)]
                       ELSE svp
      /\ vpq' = [vpq EXCEPT ![t] = new]
      /\ vpq_tail' = Next_slot(vpq_tail) /\ vpq_head' = vpq_head
      /\ committed_value' = committed_value
      /\ uncounted' = [uncounted EXCEPT ![t] = Cardinality(Missed(pc))]
  BY DEF StridedPredict, Predict, IInv, TypeOK
<1>2. /\ vpq_head \in Pointer /\ vpq_tail \in Pointer /\ t \in Slot
      /\ svp \in [SvpIndex -> SvpEntry] /\ vpq \in [Slot -> VpqEntry]
  BY DEF IInv, TypeOK, Pointer
<1>3. idx \in SvpIndex
  BY IndexTypes
<1>4. distance(vpq_head, vpq_tail) \in 0 .. (VpqSize - 1)
  <2>1. /\ bundle_vp_eligible(Tail(rename_bundle)) = bundle_vp_eligible(rename_bundle) - 1
        /\ bundle_vp_eligible(Tail(rename_bundle)) \in Nat
        /\ bundle_vp_eligible(rename_bundle) \in Nat
    BY <1>1, BundleTail, FS_CardinalityType DEF bundle_vp_eligible, BundleItems
  <2>2. vpq_free_entries = VpqSize - Offset(vpq_tail)
    BY FreeEntries DEF IInv
  <2> QED
    BY <2>1, <2>2, VpuAssumption DEF IInv, BundleFits, CheckpointsInWindow, Offset
<1> HIDE DEF idx, new
<1>5. InFlight' = InFlight \cup {t} /\ t \notin InFlight
  BY <1>1, <1>2, <1>4, GrowTail DEF InFlight
<1>6. \A s \in Slot : Age(s)' = Age(s)
  BY <1>1 DEF Age
<1>7. /\ \A s \in Slot : Age(s) \in 0 .. VpqSize - 1
      /\ \A s : s \in InFlight <=> s \in Slot /\ Age(s) < Offset(vpq_tail)
      /\ Age(t) = Offset(vpq_tail)
  <2>1. /\ \A s \in Slot : Age(s) \in 0 .. VpqSize - 1
        /\ \A s : s \in InFlight <=> s \in Slot /\ Age(s) < Offset(vpq_tail)
    BY Ages DEF IInv
  <2>2. Age(t) = Offset(vpq_tail)
    BY <1>2, <1>4, VpuAssumption DEF Age, Offset, distance, Pointer, Slot
  <2> QED
    BY <2>1, <2>2
<1>8. \A s \in InFlight : vpq'[s] = vpq[s]
  BY <1>1, <1>2, <1>5, <1>7
<1>9. vpq'[t] = new
  BY <1>1, <1>2
<1>10. CountersOnly
  BY <1>1, <1>2, <1>3 DEF CountersOnly, with_instance
<1>11. /\ Learned /\ Learned'
       /\ \A p \in PCs : /\ Owns(p)' <=> Owns(p)
                         /\ EntryOf(p)'.conf = EntryOf(p).conf
  BY <1>1, <1>10, KeepsLearned DEF StridedInv
<1>12. /\ new.pc = pc /\ new.svp_index = idx /\ new.svp_hit = hit
       /\ new.predicted_value = (IF hit THEN predicted_val(svp[idx]) ELSE 0)
       /\ new.confident = (hit /\ svp[idx].conf >= SvpConfMax)
  BY DEF new
<1>13. Recorded'
  BY <1>3, <1>5, <1>8, <1>9, <1>12 DEF Recorded, StridedInv, idx
<1>14. hit /\ svp[idx].valid <=> Owns(pc)
  BY DEF idx, svp_lookup_hit, Owns, EntryOf, tag_matches
<1>15. /\ uncounted' \in [Slot -> Nat] /\ uncounted'[t] = Cardinality(Missed(pc))
       /\ \A s \in InFlight : uncounted'[s] = uncounted[s]
  <2>1. uncounted \in [Slot -> Nat] /\ Cardinality(Missed(pc)) \in Nat
    BY MissedFinite DEF StridedInv
  <2>2. \A s \in InFlight : s \in Slot /\ s # t
    BY <1>5, <1>7
  <2> QED
    BY <1>1, <1>2, <2>1, <2>2
<1>16. \A s \in InFlight : UpTo(s)' = UpTo(s)
  <2> SUFFICES ASSUME NEW s \in InFlight PROVE UpTo(s)' = UpTo(s)
    OBVIOUS
  <2>1. s \in Slot /\ t \in Slot /\ Age(s) \in Int /\ Age(t) \in Int /\ Age(s) < Age(t)
    BY <1>2, <1>7
  <2>2. ~(Age(t)' <= Age(s)')
    BY <1>6, <2>1
  <2>3. \A r \in InFlight : /\ vpq'[r].pc = vpq[r].pc /\ Age(r)' = Age(r)
    BY <1>6, <1>7, <1>8
  <2> QED
    BY <1>5, <2>2, <2>3 DEF UpTo
<1>17. ASSUME hit, svp[idx].conf >= SvpConfMax, SvpConfMax # 0, Alone(pc)
       PROVE  predicted_val(svp[idx]) =
                (committed_value[pc] + (Cardinality(UpTo(t)') - uncounted'[t]) * Stride[pc]) % WordSize
  <2> DEFINE C == {r \in InFlight : vpq[r].pc = pc}
             H == CountedInFlight(idx)
  <2>1. svp[idx].conf > 0
    BY <1>2, <1>3, <1>17, VpuAssumption DEF SvpEntry
  <2>2. Owns(pc) /\ EntryOf(pc) = svp[idx]
    <3>1. svp[idx].valid
      BY <1>3, <1>11, <2>1 DEF Learned
    <3> QED
      BY <1>14, <1>17, <3>1 DEF EntryOf, idx
  <2>3. svp[idx].retired_value = committed_value[pc] /\ svp[idx].stride = Stride[pc]
    BY <1>3, <1>11, <1>17, <2>1, <2>2 DEF Learned
  <2>4. C = H \cup Missed(pc) /\ H \cap Missed(pc) = {}
    <3>1. ASSUME NEW r \in InFlight, vpq[r].pc = pc, vpq[r].svp_hit PROVE Counted(r, idx)
      BY <2>2, <3>1 DEF Counted, Owns, StridedInv, Recorded, idx
    <3>2. ASSUME NEW r \in InFlight, Counted(r, idx) PROVE vpq[r].pc = pc /\ vpq[r].svp_hit
      <4>1. vpq[r].pc \in PCs /\ get_svp_index(vpq[r].pc) = get_svp_index(pc)
        BY <3>2 DEF StridedInv, Recorded, Counted, idx
      <4>2. Owns(vpq[r].pc)
        BY <2>2, <3>2, <4>1 DEF Counted, Owns, EntryOf, idx
      <4>3. vpq[r].pc = pc
        BY <1>17, <2>2, <4>1, <4>2, OneOwner
      <4> QED
        BY <3>2, <4>3 DEF Counted
    <3> QED
      BY <3>1, <3>2 DEF CountedInFlight, Missed
  <2>5. svp[idx].instance = Cardinality(H)
    BY <1>3 DEF IInv, InstanceExact
  <2>6. UpTo(t)' = C \cup {t} /\ t \notin C
    <3>1. \A r \in InFlight : /\ vpq'[r].pc = vpq[r].pc /\ Age(r)' <= Age(t)'
      <4>1. \A r \in InFlight : /\ r \in Slot /\ Age(r) \in Int /\ Age(t) \in Int /\ Age(r) < Age(t)
        BY <1>2, <1>7
      <4> QED
        BY <1>2, <1>6, <1>8, <4>1
    <3>2. Age(t)' <= Age(t)' /\ vpq'[t].pc = pc
      <4>1. Age(t)' \in Int
        BY <1>2, <1>6, <1>7
      <4> QED
        BY <1>9, <1>12, <4>1
    <3> QED
      BY <1>5, <3>1, <3>2 DEF UpTo
  <2>7. Cardinality(UpTo(t)') = (svp[idx].instance + uncounted'[t]) + 1
    <3>1. /\ IsFiniteSet(H) /\ Cardinality(H) \in Nat
          /\ IsFiniteSet(Missed(pc)) /\ Cardinality(Missed(pc)) \in Nat
      BY CountFinite, MissedFinite
    <3> HIDE DEF C, H
    <3>2. IsFiniteSet(C) /\ Cardinality(C) = Cardinality(H) + Cardinality(Missed(pc))
      <4>1. /\ IsFiniteSet(H \cup Missed(pc))
            /\ Cardinality(H \cup Missed(pc)) =
                 Cardinality(H) + Cardinality(Missed(pc)) - Cardinality(H \cap Missed(pc))
        BY <3>1, FS_Union, Zenon
      <4>2. Cardinality(H \cap Missed(pc)) = 0
        BY <2>4, FS_EmptySet
      <4> QED
        BY <2>4, <3>1, <4>1, <4>2
    <3>3. Cardinality(C \cup {t}) = Cardinality(C) + 1
      BY <2>6, <3>2, FS_AddElement, Zenon
    <3> QED
      BY <1>15, <2>5, <2>6, <3>2, <3>3
  <2>8. Cardinality(UpTo(t)') - uncounted'[t] = svp[idx].instance + 1
    <3>1. svp[idx].instance \in Nat /\ uncounted'[t] \in Nat
      BY <1>2, <1>3, <1>15 DEF SvpEntry
    <3> QED
      BY <2>7, <3>1
  <2> QED
    BY <2>3, <2>8 DEF predicted_val
<1>18. Foretold'
  <2> SUFFICES ASSUME NEW s \in InFlight', vpq'[s].confident, SvpConfMax # 0, Alone(vpq'[s].pc)
               PROVE  vpq'[s].predicted_value =
                        (committed_value'[vpq'[s].pc]
                           + (Cardinality(UpTo(s)') - uncounted'[s]) * Stride[vpq'[s].pc]) % WordSize
    BY DEF Foretold, Alone
  <2>1. CASE s = t
    BY <1>1, <1>9, <1>12, <1>17, <2>1
  <2>2. CASE s \in InFlight
    BY <1>1, <1>8, <1>15, <1>16, <2>2 DEF Foretold, StridedInv
  <2> QED
    BY <1>5, <2>1, <2>2
<1> QED
  BY <1>11, <1>13, <1>15, <1>18 DEF StridedInv

(* repair() takes the youngest entry away.                                 *)
LEMMA RepairKeeps ==
  ASSUME IInv, StridedInv, RepairStep, UNCHANGED <<committed_value, uncounted>>
  PROVE  StridedInv'
<1> PICK p \in Pointer : p = Prev_slot(vpq_tail)
  BY SlotType DEF IInv, TypeOK
<1> DEFINE idx == vpq[p.pos].svp_index
<1>1. /\ repairing /\ vpq_tail # restored_tail /\ vpq_tail' = p
      /\ svp' = IF vpq[p.pos].svp_hit /\ tag_matches(idx, vpq[p.pos].pc)
                  THEN [svp EXCEPT ![idx] = with_instance(svp[idx], svp[idx].instance - 1)]
                  ELSE svp
      /\ UNCHANGED <<vpq, vpq_head>>
  BY DEF RepairStep
<1>2. /\ vpq_head \in Pointer /\ vpq_tail \in Pointer /\ restored_tail \in Pointer
      /\ p \in Pointer /\ svp \in [SvpIndex -> SvpEntry] /\ vpq \in [Slot -> VpqEntry]
  BY SlotType DEF IInv, TypeOK
<1>3. distance(vpq_head, vpq_tail) \in 1 .. VpqSize
  <2>1. distance(vpq_head, restored_tail) # distance(vpq_head, vpq_tail)
    BY <1>1, <1>2, DistanceInjective
  <2> QED
    BY <1>1, <1>2, <2>1, DistanceType, VpuAssumption DEF IInv, CheckpointsInWindow, Offset
<1>4. InFlight' = InFlight \ {p.pos} /\ p.pos \in InFlight
  BY <1>1, <1>2, <1>3, ShrinkTail DEF InFlight
<1>5. \A s : Age(s)' = Age(s)
  BY <1>1 DEF Age
<1>6. /\ \A s \in Slot : Age(s) \in 0 .. VpqSize - 1
      /\ \A r, s \in Slot : Age(r) = Age(s) => r = s
      /\ \A s : s \in InFlight <=> s \in Slot /\ Age(s) < Offset(vpq_tail)
  BY Ages DEF IInv
<1>7. Age(p.pos) = Offset(vpq_tail) - 1
  BY <1>2, <1>3, VpuAssumption DEF Age, Offset, distance, Pointer, Slot, Prev_slot
<1>8. CountersOnly
  <2>1. idx \in SvpIndex
    BY <1>2 DEF Pointer, VpqEntry
  <2> QED
    BY <1>1, <1>2, <2>1 DEF CountersOnly, with_instance
<1>9. /\ Learned' /\ \A q \in PCs : /\ Owns(q)' <=> Owns(q)
                                    /\ EntryOf(q)'.conf = EntryOf(q).conf
  BY <1>8, KeepsLearned DEF StridedInv
<1> HIDE DEF idx
<1>10. Recorded'
  BY <1>1, <1>4 DEF Recorded, StridedInv
<1>11. uncounted' \in [Slot -> Nat]
  BY DEF StridedInv
<1>12. \A s \in InFlight' : UpTo(s)' = UpTo(s)
  <2> SUFFICES ASSUME NEW s \in InFlight, s # p.pos PROVE UpTo(s)' = UpTo(s)
    BY <1>4
  <2>1. ~(Age(p.pos) <= Age(s))
    <3>1. s \in Slot /\ p.pos \in Slot
      BY <1>4, <1>6
    <3>2. Age(s) # Age(p.pos) /\ Age(s) \in Int /\ Age(p.pos) \in Int /\ Age(s) < Offset(vpq_tail)
      BY <1>6, <3>1
    <3>3. Offset(vpq_tail) \in Int
      BY <1>2, DistanceType DEF Offset
    <3> QED
      BY <1>7, <3>2, <3>3
  <2> QED
    BY <1>1, <1>4, <1>5, <2>1 DEF UpTo
<1>13. Foretold'
  BY <1>1, <1>4, <1>12 DEF Foretold, StridedInv
<1> QED
  BY <1>9, <1>10, <1>11, <1>13 DEF StridedInv

(* train() takes the oldest copy, with the value it commits.               *)
LEMMA TrainKeeps ==
  ASSUME IInv, StridedInv, StridedTrain
  PROVE  StridedInv'
<1>0. vpq_head # vpq_tail /\ vpq_head \in Pointer /\ vpq_tail \in Pointer
      /\ svp \in [SvpIndex -> SvpEntry] /\ vpq \in [Slot -> VpqEntry]
      /\ distance(vpq_head, vpq_tail) \in 1 .. VpqSize
  <2>1. vpq_head # vpq_tail /\ vpq_head \in Pointer /\ vpq_tail \in Pointer
        /\ svp \in [SvpIndex -> SvpEntry] /\ vpq \in [Slot -> VpqEntry]
    BY DEF StridedTrain, IInv, TypeOK
  <2> QED
    BY <2>1, DistanceType, VpuAssumption DEF IInv, CheckpointsInWindow, Offset
<1> PICK h \in Slot : h = vpq_head.pos
  BY <1>0 DEF Pointer
<1>1. /\ InFlight' = InFlight \ {h} /\ h \in InFlight
      /\ vpq' = vpq
  <2>1. vpq_head' = Next_slot(vpq_head) /\ vpq_tail' = vpq_tail /\ vpq' = vpq
    BY DEF StridedTrain, Train
  <2> QED
    BY <1>0, <2>1, ShrinkHead DEF InFlight
<1> PICK pc \in PCs : pc = vpq[h].pc
  BY <1>1 DEF StridedInv, Recorded
<1> PICK v : v = next_value(pc)
  OBVIOUS
<1> PICK i \in SvpIndex : i = get_svp_index(pc)
  BY IndexTypes
<1> PICK old \in SvpEntry : old = svp[i]
  BY <1>0
<1> PICK hit \in BOOLEAN : hit = vpq[h].svp_hit
  BY <1>0 DEF VpqEntry
<1> PICK owned \in BOOLEAN : owned = Owns(pc)
  BY DEF Owns, EntryOf, tag_matches
<1> PICK trained : trained = TrainedEntry(old, v, hit)
  OBVIOUS
<1> DEFINE new == IF owned THEN trained ELSE ReplacedEntry(i, pc, v)
<1>2. /\ svp' = [svp EXCEPT ![i] = new]
      /\ vpq_head' = Next_slot(vpq_head)
      /\ committed_value' = [committed_value EXCEPT ![pc] = v]
  <2>1. vpq[h].svp_index = i
    BY <1>1 DEF StridedInv, Recorded
  <2>2. owned <=> svp[i].valid /\ tag_matches(i, pc)
    BY DEF Owns, EntryOf
  <2> QED
    BY <2>1, <2>2 DEF StridedTrain, Train
<1>3. /\ committed_value \in [PCs -> Word] /\ committed_value[pc] \in Word
      /\ Stride[pc] \in Word /\ WordSize \in Nat \ {0}
      /\ v = (committed_value[pc] + Stride[pc]) % WordSize /\ v \in Word
  <2>1. /\ committed_value \in [PCs -> Word] /\ committed_value[pc] \in Word
        /\ Stride[pc] \in Word /\ WordSize \in Nat \ {0}
    BY VpuAssumption, StrideAssumption DEF StridedInv, Learned
  <2>2. v = (committed_value[pc] + Stride[pc]) % WordSize
    BY DEF next_value
  <2>3. v \in Word
    <3>1. Follows(v, committed_value[pc], Stride[pc])
      BY <2>2, Zenon DEF Follows
    <3> QED
      BY <2>1, <3>1, WordFollows, Zenon
  <2> QED
    BY <2>1, <2>2, <2>3
<1>3f. /\ committed_value[pc] \in Word /\ Stride[pc] \in Word
       /\ Follows(v, committed_value[pc], Stride[pc])
  BY <1>3 DEF Follows
<1>3t. /\ trained.tag = old.tag /\ trained.valid = TRUE /\ trained.retired_value = v
      /\ trained.stride = (v - old.retired_value) % WordSize
      /\ trained.conf \in Nat /\ trained.conf <= old.conf + 1
  <2>1. TrainedFrom(trained, old, v, hit)
    BY <1>3, Trained, Zenon
  <2> QED
    BY <2>1 DEF TrainedFrom
<1>4. /\ new.valid = TRUE /\ new.retired_value = v
      /\ new.tag = IF owned THEN old.tag ELSE get_svp_tag(pc)
  BY <1>3t DEF ReplacedEntry
<1>5. /\ ~owned => new.conf = 0
      /\ owned => new.conf \in Nat /\ new.conf <= old.conf + 1
      /\ old.conf \in Nat
  <2>1. old.conf \in Nat
    BY VpuAssumption DEF SvpEntry
  <2>2. ~owned => new.conf = 0
    BY DEF ReplacedEntry
  <2>3. owned => new.conf \in Nat /\ new.conf <= old.conf + 1
    BY <1>3t
  <2> QED
    BY <2>1, <2>2, <2>3, Zenon
<1>6. Alone(pc) /\ new.conf > 0 => new.stride = Stride[pc]
  <2>1. CASE owned /\ Alone(pc)
    <3>1. old.retired_value = committed_value[pc]
      BY <2>1 DEF StridedInv, Learned, EntryOf
    <3>2. (v - committed_value[pc]) % WordSize = Stride[pc]
      <4>1. StrideBack(v, committed_value[pc], Stride[pc])
        BY <1>3f, WordDifference, Zenon
      <4> QED
        BY <4>1, Zenon DEF StrideBack
    <3>3. new.stride = (v - old.retired_value) % WordSize
      BY <1>3t, <2>1
    <3> QED
      BY <3>1, <3>2, <3>3
  <2>2. CASE ~owned
    BY <1>5, <2>2
  <2> QED
    BY <2>1, <2>2
<1> HIDE DEF new
<1>7. \A q \in PCs : get_svp_index(q) # i => /\ EntryOf(q)' = EntryOf(q)
                                             /\ Owns(q)' <=> Owns(q)
                                             /\ committed_value'[q] = committed_value[q]
                                             /\ q # pc
  <2> SUFFICES ASSUME NEW q \in PCs, get_svp_index(q) # i
               PROVE  /\ EntryOf(q)' = EntryOf(q) /\ (Owns(q)' <=> Owns(q))
                      /\ committed_value'[q] = committed_value[q] /\ q # pc
    OBVIOUS
  <2>1. get_svp_index(q) \in SvpIndex /\ q # pc
    BY IndexTypes
  <2>2. svp'[get_svp_index(q)] = svp[get_svp_index(q)]
    BY <1>0, <1>2, <2>1
  <2>3. committed_value'[q] = committed_value[q]
    BY <1>2, <1>3, <2>1
  <2> QED
    BY <2>1, <2>2, <2>3 DEF Owns, EntryOf, tag_matches
<1>8. EntryOf(pc)' = new /\ committed_value'[pc] = v
  BY <1>0, <1>2, <1>3 DEF EntryOf
<1>9. \A q \in PCs : get_svp_index(q) = i /\ Owns(q)' /\ Alone(q) => q = pc
  <2> SUFFICES ASSUME NEW q \in PCs, get_svp_index(q) = i, Owns(q)', Alone(q) PROVE q = pc
    OBVIOUS
  <2>1. get_svp_tag(q) \in SvpTag /\ get_svp_tag(pc) \in SvpTag
    BY IndexTypes
  <2>2. svp'[i] = new
    BY <1>0, <1>2
  <2>3. get_svp_tag(q) = get_svp_tag(pc)
    <3>1. CASE SvpNumTags = 1
      BY <2>1, <3>1 DEF SvpTag
    <3>2. CASE SvpNumTags # 1
      <4>1. new.tag = get_svp_tag(q)
        BY <2>2, <3>2 DEF Owns, EntryOf, tag_matches
      <4>2. owned => old.tag = get_svp_tag(pc)
        BY <3>2 DEF Owns, EntryOf, tag_matches
      <4> QED
        BY <1>4, <4>1, <4>2
    <3> QED
      BY <3>1, <3>2
  <2> QED
    BY <2>3 DEF Alone
<1>10. /\ \A s \in Slot : Age(s) \in 0 .. VpqSize - 1
       /\ \A r, s \in Slot : Age(r) = Age(s) => r = s
       /\ InFlight \subseteq Slot
       /\ VpqSize \in Nat
  BY Ages, VpuAssumption DEF IInv
<1>11. Age(h) = 0
  BY <1>0 DEF Age, Pointer, Slot
<1>12. \A s \in Slot : s # h => Age(s)' = Age(s) - 1
  BY <1>0, <1>2, VpuAssumption DEF Age, Pointer, Slot, Next_slot
<1>13. Recorded'
  BY <1>1 DEF StridedInv, Recorded
<1>14. Learned'
  <2>1. committed_value' \in [PCs -> Word]
    BY <1>2, <1>3
  <2>2. \A j \in SvpIndex : svp'[j].conf > 0 => svp'[j].valid
    BY <1>0, <1>2, <1>4 DEF StridedInv, Learned
  <2>3. ASSUME NEW q \in PCs, Owns(q)', Alone(q)
        PROVE  /\ EntryOf(q)'.retired_value = committed_value'[q]
               /\ EntryOf(q)'.conf > 0 => EntryOf(q)'.stride = Stride[q]
    <3>1. CASE get_svp_index(q) = i
      BY <1>4, <1>6, <1>8, <1>9, <2>3, <3>1
    <3>2. CASE get_svp_index(q) # i
      BY <1>7, <2>3, <3>2 DEF StridedInv, Learned
    <3> QED
      BY <3>1, <3>2
  <2> QED
    BY <2>1, <2>2, <2>3 DEF Learned, Alone
<1>15. /\ uncounted' = uncounted /\ uncounted \in [Slot -> Nat]
       /\ \A s \in InFlight : uncounted[s] \in Nat
  <2>1. uncounted' = uncounted /\ uncounted \in [Slot -> Nat]
    BY DEF StridedTrain, StridedInv
  <2> QED
    BY <1>10, <2>1
<1>16. Foretold'
  <2> SUFFICES ASSUME NEW s \in InFlight', vpq'[s].confident, SvpConfMax # 0,
                      NEW q \in PCs, q = vpq'[s].pc, Alone(q)
               PROVE  vpq'[s].predicted_value =
                        (committed_value'[q] + (Cardinality(UpTo(s)') - uncounted'[s]) * Stride[q]) % WordSize
    BY <1>13 DEF Foretold, Recorded, Alone
  <2>1. /\ s \in InFlight /\ s \in Slot /\ s # h /\ q = vpq[s].pc
        /\ vpq[s].predicted_value =
             (committed_value[q] + (Cardinality(UpTo(s)) - uncounted[s]) * Stride[q]) % WordSize
    BY <1>1, <1>10 DEF StridedInv, Foretold
  <2>2. UpTo(s)' = UpTo(s) \ {h}
    <3>1. \A r \in InFlight \ {h} : Age(r)' <= Age(s)' <=> Age(r) <= Age(s)
      <4>1. \A r \in InFlight \ {h} : Age(r)' = Age(r) - 1 /\ Age(r) \in Int
        BY <1>10, <1>12
      <4>2. Age(s)' = Age(s) - 1 /\ Age(s) \in Int
        BY <1>10, <1>12, <2>1
      <4> QED
        BY <4>1, <4>2
    <3> QED
      BY <1>1, <3>1 DEF UpTo
  <2>3. h \in UpTo(s) <=> q = pc
    <3>1. Age(h) <= Age(s)
      BY <1>10, <1>11, <2>1
    <3> QED
      BY <1>1, <2>1, <3>1 DEF UpTo
  <2>4. IsFiniteSet(UpTo(s)) /\ Cardinality(UpTo(s)) \in Nat
        /\ IsFiniteSet(UpTo(s) \ {h}) /\ Cardinality(UpTo(s) \ {h}) \in Nat
    BY UpToFinite, FS_RemoveElement, FS_CardinalityType
  <2>5. CASE q = pc
    <3> PICK n \in Int : n = Cardinality(UpTo(s)') - uncounted[s]
      BY <1>15, <2>1, <2>2, <2>4
    <3>1. Cardinality(UpTo(s)) - uncounted[s] = n + 1
      <4>1. Cardinality(UpTo(s) \ {h}) = Cardinality(UpTo(s)) - 1
        BY <2>3, <2>4, <2>5, FS_RemoveElement
      <4> QED
        BY <1>15, <2>1, <2>2, <2>4, <4>1
    <3>2. (v + (n * Stride[pc])) % WordSize =
            (committed_value[pc] + ((n + 1) * Stride[pc])) % WordSize
      <4>1. CopiesOn(v, committed_value[pc], Stride[pc], n)
        BY <1>3f, WordOneCopyOn, Zenon
      <4> QED
        BY <4>1, Zenon DEF CopiesOn
    <3> QED
      BY <1>1, <1>8, <1>15, <2>1, <2>5, <3>1, <3>2
  <2>6. CASE q # pc
    <3>1. UpTo(s)' = UpTo(s)
      BY <2>2, <2>3, <2>6
    <3>2. committed_value'[q] = committed_value[q]
      BY <1>2, <1>3, <2>6
    <3> QED
      BY <1>1, <1>15, <2>1, <3>1, <3>2
  <2> QED
    BY <2>5, <2>6
<1> QED
  BY <1>13, <1>14, <1>15, <1>16 DEF StridedInv

(* Whatever leaves the table, the queue and the committed values alone.    *)
LEMMA StandsStill ==
  ASSUME StridedInv, UNCHANGED vpu_vars, UNCHANGED <<committed_value, uncounted>>
  PROVE  StridedInv'
<1>1. InFlight' = InFlight /\ vpq' = vpq /\ svp' = svp /\ \A s : Age(s)' = Age(s)
  BY DEF vpu_vars, InFlight, Age
<1>2. \A s : UpTo(s)' = UpTo(s)
  BY <1>1 DEF UpTo
<1>3. \A pc : EntryOf(pc)' = EntryOf(pc) /\ (Owns(pc)' <=> Owns(pc))
  BY <1>1 DEF EntryOf, Owns, tag_matches
<1>4. Recorded'
  BY <1>1 DEF StridedInv, Recorded
<1>5. Learned'
  BY <1>1, <1>3 DEF StridedInv, Learned
<1>6. uncounted' \in [Slot -> Nat]
  BY DEF StridedInv
<1>7. Foretold'
  BY <1>1, <1>2 DEF StridedInv, Foretold
<1> QED
  BY <1>4, <1>5, <1>6, <1>7 DEF StridedInv

LEMMA StridedStep ==
  ASSUME IInv, StridedInv, [StridedNext]_strided_vars
  PROVE  IInv' /\ StridedInv'
<1>1. CASE StridedTrain
  <2>1. \E u \in Word : Train(u)
    <3>1. vpq_head.pos \in InFlight
      <4>1. vpq_head # vpq_tail /\ vpq_head \in Pointer /\ vpq_tail \in Pointer
        BY <1>1 DEF StridedTrain, IInv, TypeOK
      <4>2. distance(vpq_head, vpq_tail) \in 1 .. VpqSize
        BY <4>1, DistanceType, VpuAssumption DEF IInv, CheckpointsInWindow, Offset
      <4> QED
        BY <4>1, <4>2, ShrinkHead DEF InFlight
    <3> PICK pc \in PCs : pc = vpq[vpq_head.pos].pc
      BY <3>1 DEF StridedInv, Recorded
    <3>2. committed_value[pc] \in Word /\ Stride[pc] \in Word
      BY StrideAssumption DEF StridedInv, Learned
    <3>3. next_value(pc) \in Word
      BY <3>2, VpuAssumption DEF next_value, Word
    <3> QED
      BY <1>1, <3>3 DEF StridedTrain
  <2>2. IInv'
    BY <2>1, TrainInv
  <2> QED
    BY <1>1, <2>2, TrainKeeps
<1>2. CASE StridedPredict
  <2>1. IInv'
    BY <1>2, PredictInv DEF StridedPredict
  <2>2. TypeOK'
    BY <2>1 DEF IInv
  <2> QED
    BY <1>2, <2>1, <2>2, PredictKeeps
<1>3. CASE RepairStep /\ UNCHANGED <<committed_value, uncounted>>
  BY <1>3, RepairStepInv, RepairKeeps
<1>4. CASE /\ \/ \E b \in Bundles : Rename2(b)
              \/ Checkpoint
              \/ \E b \in BranchID : ResolveCorrect(b) \/ ResolveMispredict(b)
              \/ SquashComplete
              \/ RepairEnd
           /\ UNCHANGED <<committed_value, uncounted>>
  <2>1. Next /\ UNCHANGED vpu_vars
    BY <1>4 DEF Next, Rename2, Checkpoint, ResolveCorrect, ResolveMispredict,
       SquashComplete, RepairEnd
  <2>2. IInv'
    BY <2>1, NextInv
  <2> QED
    BY <1>4, <2>1, <2>2, StandsStill
<1>5. CASE UNCHANGED strided_vars
  <2>1. UNCHANGED vars /\ UNCHANGED vpu_vars /\ UNCHANGED <<committed_value, uncounted>>
    BY <1>5 DEF strided_vars, vars
  <2>2. IInv'
    BY <2>1, NextInv
  <2> QED
    BY <2>1, <2>2, StandsStill
<1> QED
  BY <1>1, <1>2, <1>3, <1>4, <1>5 DEF StridedNext

LEMMA StridedStarts == StridedInit => IInv /\ StridedInv
<1> SUFFICES ASSUME StridedInit PROVE IInv /\ StridedInv
  OBVIOUS
<1>1. IInv
  BY InitInv DEF StridedInit
<1>2. InFlight = {}
  <2>1. vpq_head.pos = 0 /\ vpq_tail.pos = 0 /\ vpq_head.phase = vpq_tail.phase
    BY DEF StridedInit, Init
  <2>2. InFlight = {s \in Slot : vpq_head.pos <= s /\ s < vpq_tail.pos}
    BY <2>1, Zenon DEF InFlight, Window
  <2> QED
    BY <2>1, <2>2, VpuAssumption DEF Slot
<1>3. \A i \in SvpIndex : svp[i].valid = FALSE /\ svp[i].conf = 0
  BY DEF StridedInit, Init
<1>4. \A pc \in PCs : ~Owns(pc)
  BY <1>3, IndexTypes DEF Owns, EntryOf
<1>5. committed_value \in [PCs -> Word] /\ uncounted \in [Slot -> Nat]
  BY StrideAssumption DEF StridedInit
<1> QED
  BY <1>1, <1>2, <1>3, <1>4, <1>5 DEF StridedInv, Recorded, Learned, Foretold

(* Whatever strides a program has, whatever the sizes are, and whatever is *)
(* squashed, replaced or missed on the way: what predict() calls confident *)
(* is, when the instruction commits, its value less one stride for every   *)
(* copy that had missed and was in flight at the prediction, so its value  *)
(* when there was none (vpu.cc predict, train and repair). It is so for    *)
(* every instruction that its tag tells from the others, and any           *)
(* confidence that takes at least one equal stride.                        *)
THEOREM ConfidenceIsRight == StridedSpec => []ConfidentRight
<1>1. IInv /\ StridedInv => ConfidentRight
  <2> SUFFICES ASSUME IInv, StridedInv, vpq_head # vpq_tail, vpq[vpq_head.pos].confident,
                      SvpConfMax # 0, Alone(vpq[vpq_head.pos].pc)
               PROVE  vpq[vpq_head.pos].predicted_value =
                        (committed_value[vpq[vpq_head.pos].pc]
                           + (1 - uncounted[vpq_head.pos]) * Stride[vpq[vpq_head.pos].pc]) % WordSize
    BY DEF ConfidentRight
  <2> PICK h \in Slot : h = vpq_head.pos
    BY DEF IInv, TypeOK, Pointer
  <2>1. h \in InFlight
    <3>1. vpq_head \in Pointer /\ vpq_tail \in Pointer
      BY DEF IInv, TypeOK
    <3>2. distance(vpq_head, vpq_tail) \in 1 .. VpqSize
      BY <3>1, DistanceType, VpuAssumption DEF IInv, CheckpointsInWindow, Offset
    <3> QED
      BY <3>1, <3>2, ShrinkHead DEF InFlight
  <2>2. UpTo(h) = {h}
    <3>1. /\ \A s \in Slot : Age(s) \in 0 .. VpqSize - 1
          /\ \A r, s \in Slot : Age(r) = Age(s) => r = s
          /\ InFlight \subseteq Slot
      BY Ages DEF IInv
    <3>2. Age(h) = 0
      BY DEF IInv, TypeOK, Age, Pointer, Slot
    <3>3. \A r \in InFlight : Age(r) <= Age(h) => r = h
      BY <3>1, <3>2
    <3> QED
      BY <2>1, <3>2, <3>3 DEF UpTo
  <2>3. Cardinality(UpTo(h)) = 1
    BY <2>2, FS_Singleton
  <2> QED
    BY <2>1, <2>3 DEF StridedInv, Foretold
<1>2. IInv /\ StridedInv /\ [StridedNext]_strided_vars => IInv' /\ StridedInv'
  BY StridedStep
<1> QED
  BY <1>1, <1>2, StridedStarts, PTL DEF StridedSpec
=============================================================================
