--------------------------------- MODULE Vpu ---------------------------------
(***************************************************************************)
(* The value prediction unit of 721sim (uarchsim/vpu.{h,cc}): the stride   *)
(* value predictor (SVP), a direct-mapped table, and the value prediction  *)
(* queue (VPQ), a circular buffer with phase bits, together with the calls *)
(* the pipeline makes on them: rename2 (rename.cc), the retire stage       *)
(* (retire.cc) and the two kinds of squash (squash.cc).                    *)
(*                                                                         *)
(* The renamer is present only as far as the VPU sees it: the branch IDs   *)
(* in use (GBM) and, for each, the older branches saved in its checkpoint. *)
(* A loop of the source is one step per iteration; while a loop runs no    *)
(* other action is enabled, as the simulator is single-threaded.           *)
(***************************************************************************)
EXTENDS Integers, Sequences, FiniteSets

CONSTANTS
  VpqSize,        (* vpq_size                                              *)
  SvpNumEntries,  (* svp_num_entries = 2^svp_index_bits                    *)
  SvpNumTags,     (* 2^svp_tag_bits; 1 stands for "no tag bits"            *)
  SvpConfMax,     (* svp_conf_max                                          *)
  WordSize,       (* 2^64 in the code: register values wrap modulo it      *)
  PCs,            (* byte addresses of the value-predictable instructions  *)
  NumCheckpoints, (* branch checkpoints of the renamer                     *)
  DispatchWidth   (* instructions in a rename bundle                       *)

ASSUME VpuAssumption ==
  /\ VpqSize \in Nat \ {0}
  /\ SvpNumEntries \in Nat \ {0}
  /\ SvpNumTags \in Nat \ {0}
  /\ SvpConfMax \in Nat
  /\ WordSize \in Nat \ {0}
  /\ PCs \subseteq Nat
  /\ NumCheckpoints \in Nat \ {0}
  /\ DispatchWidth \in Nat \ {0}

VARIABLES
  svp,                 (* the predictor table                              *)
  vpq,                 (* the slots of the queue                           *)
  vpq_head, vpq_tail,  (* position and phase bit of each end               *)
  vpq_tail_checkpoint, (* tail saved for each branch ID (pipeline.h)       *)
  GBM,                 (* branch IDs in use (renamer)                      *)
  checkpoint_GBM,      (* branches older than each branch (renamer)        *)
  rename_bundle,       (* instructions rename2 has still to rename         *)
  repairing,           (* TRUE while repair() walks                        *)
  restored_tail        (* argument of that call of repair()                *)

vpu_vars    == <<svp, vpq, vpq_head, vpq_tail>>
branch_vars == <<vpq_tail_checkpoint, GBM, checkpoint_GBM>>
repair_vars == <<repairing, restored_tail>>
vars == <<vpu_vars, branch_vars, rename_bundle, repair_vars>>

-----------------------------------------------------------------------------
Word     == 0 .. WordSize - 1
Slot     == 0 .. VpqSize - 1
SvpIndex == 0 .. SvpNumEntries - 1
SvpTag   == 0 .. SvpNumTags - 1
BranchID == 0 .. NumCheckpoints - 1
Pointer  == [pos : Slot, phase : BOOLEAN]

SvpEntry == [tag : SvpTag, stride : Word, retired_value : Word,
             instance : Nat, conf : 0 .. SvpConfMax, valid : BOOLEAN]
VpqEntry == [pc : PCs \cup {0}, svp_index : SvpIndex, predicted_value : Word,
             svp_hit : BOOLEAN, confident : BOOLEAN]

(* What rename2 does with an instruction as far as the VPU is concerned:   *)
(* predict its value or take a checkpoint. decode() gives jumps and        *)
(* branches F_CTRL only, so no instruction does both, and the instructions *)
(* that do neither are left out of a bundle.                               *)
Eligible == [kind : {"predict"}, pc : PCs]
Branch   == [kind : {"checkpoint"}]
Bundles  == UNION {[1 .. n -> Eligible \cup Branch] : n \in 1 .. DispatchWidth}

bundle_vp_eligible(b) == Cardinality({i \in DOMAIN b : b[i].kind = "predict"})
bundle_branch(b)      == Cardinality({i \in DOMAIN b : b[i].kind = "checkpoint"})

-----------------------------------------------------------------------------
get_svp_index(pc) == (pc \div 4) % SvpNumEntries
get_svp_tag(pc)   == ((pc \div 4) \div SvpNumEntries) % SvpNumTags

tag_matches(idx, pc) ==
  \/ SvpNumTags = 1
  \/ svp[idx].valid /\ svp[idx].tag = get_svp_tag(pc)

(* Mutant: the wrap of the tail forgotten.                                 *)
Next_slot_NoWrap(p) == [p EXCEPT !.pos = @ + 1]

(* Mutant: the phase left alone when a pointer wraps backwards.            *)
Prev_slot_NoPhase(p) == [p EXCEPT !.pos = IF @ = 0 THEN VpqSize - 1 ELSE @ - 1]

Next_slot(p) ==
  IF p.pos + 1 = VpqSize THEN [pos |-> 0, phase |-> ~p.phase]
                         ELSE [pos |-> p.pos + 1, phase |-> p.phase]
Prev_slot(p) ==
  IF p.pos = 0 THEN [pos |-> VpqSize - 1, phase |-> ~p.phase]
               ELSE [pos |-> p.pos - 1, phase |-> p.phase]

(* The slots a walk from pointer p up to, and without, pointer q visits.   *)
Window(p, q) ==
  IF p.phase = q.phase THEN {s \in Slot : p.pos <= s /\ s < q.pos}
                       ELSE {s \in Slot : p.pos <= s \/ s < q.pos}

InFlight == Window(vpq_head, vpq_tail)

(* Mutant: a full queue taken for an empty one, the phases not compared.   *)
vpq_free_entries_NoPhase ==
  IF vpq_tail.pos >= vpq_head.pos THEN VpqSize - (vpq_tail.pos - vpq_head.pos)
                                  ELSE vpq_head.pos - vpq_tail.pos

vpq_free_entries ==
  IF vpq_head.pos = vpq_tail.pos
    THEN IF vpq_head.phase = vpq_tail.phase THEN VpqSize ELSE 0
    ELSE IF vpq_tail.pos > vpq_head.pos
           THEN VpqSize - (vpq_tail.pos - vpq_head.pos)
           ELSE vpq_head.pos - vpq_tail.pos

(* An entry that increments instance at predict and decrements it at train *)
(* or repair.                                                              *)
Counted(s, idx) == /\ vpq[s].svp_index = idx
                   /\ vpq[s].svp_hit
                   /\ tag_matches(idx, vpq[s].pc)

CountedInFlight(idx) == {s \in InFlight : Counted(s, idx)}

Init ==
  /\ svp = [i \in SvpIndex |-> [tag |-> 0, stride |-> 0, retired_value |-> 0,
                                instance |-> 0, conf |-> 0, valid |-> FALSE]]
  /\ vpq = [s \in Slot |-> [pc |-> 0, svp_index |-> 0, predicted_value |-> 0,
                            svp_hit |-> FALSE, confident |-> FALSE]]
  /\ vpq_head = [pos |-> 0, phase |-> FALSE]
  /\ vpq_tail = [pos |-> 0, phase |-> FALSE]
  /\ vpq_tail_checkpoint = [b \in BranchID |-> [pos |-> 0, phase |-> FALSE]]
  /\ GBM = {}
  /\ checkpoint_GBM = [b \in BranchID |-> {}]
  /\ rename_bundle = << >>
  /\ repairing = FALSE
  /\ restored_tail = [pos |-> 0, phase |-> FALSE]

Idle == rename_bundle = << >> /\ ~repairing

-----------------------------------------------------------------------------
(* Mutant: no stall when the VPQ is short of slots.                        *)
Rename2_NoVpqStall(b) ==
  /\ Idle
  /\ bundle_branch(b) <= NumCheckpoints - Cardinality(GBM)
  /\ rename_bundle' = b
  /\ UNCHANGED <<vpu_vars, branch_vars, repair_vars>>

(* rename2: the whole bundle stalls unless the renamer has a checkpoint    *)
(* for each of its branches and the VPQ a slot for each eligible one.      *)
Rename2(b) ==
  /\ Idle
  /\ bundle_branch(b) <= NumCheckpoints - Cardinality(GBM)
  /\ bundle_vp_eligible(b) <= vpq_free_entries
  /\ rename_bundle' = b
  /\ UNCHANGED <<vpu_vars, branch_vars, repair_vars>>

(* Mutant: only the position of the tail is saved, not its phase.          *)
saved_tail_NoPhase == [pos |-> vpq_tail.pos, phase |-> FALSE]

(* What is saved is the tail before the instruction's own predict.         *)
saved_tail == vpq_tail

(* An instruction that needs a checkpoint: the renamer gives it the lowest *)
(* free branch ID and the tail of the VPQ is saved under that ID.          *)
Checkpoint ==
  /\ rename_bundle # << >>
  /\ Head(rename_bundle).kind = "checkpoint"
  /\ \E b \in BranchID \ GBM :
       /\ \A c \in BranchID \ GBM : b <= c
       /\ checkpoint_GBM' = [checkpoint_GBM EXCEPT ![b] = GBM]
       /\ GBM' = GBM \cup {b}
       /\ vpq_tail_checkpoint' = [vpq_tail_checkpoint EXCEPT ![b] = saved_tail]
  /\ rename_bundle' = Tail(rename_bundle)
  /\ UNCHANGED <<vpu_vars, repair_vars>>

svp_lookup_hit(pc) ==
  LET idx == get_svp_index(pc)
  IN  SvpNumTags = 1 \/ (svp[idx].valid /\ tag_matches(idx, pc))

with_instance(e, n) ==
  [tag |-> e.tag, stride |-> e.stride, retired_value |-> e.retired_value,
   instance |-> n, conf |-> e.conf, valid |-> e.valid]

(* Mutant: the prediction computed before instance goes up.                *)
predicted_val_Early(e) == (e.retired_value + e.instance * e.stride) % WordSize

predicted_val(e) == (e.retired_value + (e.instance + 1) * e.stride) % WordSize

(* predict(): on a hit the instance counter goes up before the prediction  *)
(* is computed; hit or miss, a VPQ slot is allocated at the tail.          *)
Predict ==
  /\ rename_bundle # << >>
  /\ Head(rename_bundle).kind = "predict"
  /\ LET pc   == Head(rename_bundle).pc
         idx  == get_svp_index(pc)
         e    == svp[idx]
         hit  == svp_lookup_hit(pc)
     IN  /\ svp' = IF hit THEN [svp EXCEPT ![idx] = with_instance(e, e.instance + 1)]
                   ELSE svp
         /\ vpq' = [vpq EXCEPT ![vpq_tail.pos] =
                      [pc |-> pc, svp_index |-> idx, svp_hit |-> hit,
                       predicted_value |-> IF hit THEN predicted_val(e) ELSE 0,
                       confident |-> hit /\ e.conf >= SvpConfMax]]
  /\ vpq_tail' = Next_slot(vpq_tail)
  /\ rename_bundle' = Tail(rename_bundle)
  /\ UNCHANGED <<vpq_head, branch_vars, repair_vars>>

(* train() on a matching entry: stride, confidence, retired value, and the *)
(* instance counter when the copy had incremented it.                      *)
TrainedEntry(e, committed_val, svp_hit) ==
  LET new_stride == (committed_val - e.retired_value) % WordSize
  IN  [tag |-> e.tag, stride |-> new_stride, retired_value |-> committed_val,
       conf |-> IF new_stride # e.stride THEN 0
                ELSE IF e.conf < SvpConfMax THEN e.conf + 1 ELSE e.conf,
       valid |-> TRUE,
       instance |-> IF svp_hit THEN e.instance - 1 ELSE e.instance]

(* Mutant: copies that missed are counted too.                             *)
count_inflight_instances_Misses(idx, tag, from) ==
  Cardinality({s \in Window(from, vpq_tail) :
                 /\ vpq[s].svp_index = idx
                 /\ SvpNumTags = 1 \/ get_svp_tag(vpq[s].pc) = tag})

(* train() on a miss: the entry is replaced; instance counts the copies    *)
(* still in flight behind the head that will decrement it.                 *)
count_inflight_instances(idx, tag, from) ==
  Cardinality({s \in Window(from, vpq_tail) :
                 /\ vpq[s].svp_index = idx
                 /\ vpq[s].svp_hit
                 /\ SvpNumTags = 1 \/ get_svp_tag(vpq[s].pc) = tag})

ReplacedEntry(idx, pc, committed_val) ==
  [tag |-> get_svp_tag(pc), stride |-> committed_val,
   retired_value |-> committed_val, conf |-> 0, valid |-> TRUE,
   instance |-> count_inflight_instances(idx, get_svp_tag(pc),
                                         Next_slot(vpq_head))]

(* The retire stage commits the eligible instruction that owns the VPQ     *)
(* head. It is complete and at the head of the active list, so no older    *)
(* branch is unresolved: a branch whose saved tail is the head is older.   *)
Train(committed_val) ==
  /\ Idle
  /\ vpq_head # vpq_tail
  /\ \A b \in GBM : vpq_tail_checkpoint[b] # vpq_head
  /\ LET h   == vpq[vpq_head.pos]
         idx == h.svp_index
     IN  svp' = [svp EXCEPT ![idx] =
                   IF svp[idx].valid /\ tag_matches(idx, h.pc)
                     THEN TrainedEntry(svp[idx], committed_val, h.svp_hit)
                     ELSE ReplacedEntry(idx, h.pc, committed_val)]
  /\ vpq_head' = Next_slot(vpq_head)
  /\ UNCHANGED <<vpq, vpq_tail, branch_vars, rename_bundle, repair_vars>>

-----------------------------------------------------------------------------
(* Mutant: the freed ID stays in the checkpoints of younger branches.      *)
without_branch_Stale(b) == checkpoint_GBM

without_branch(b) == [c \in BranchID |-> checkpoint_GBM[c] \ {b}]

(* A branch was predicted correctly: its ID is freed everywhere.           *)
ResolveCorrect(b) ==
  /\ Idle
  /\ b \in GBM
  /\ GBM' = GBM \ {b}
  /\ checkpoint_GBM' = without_branch(b)
  /\ UNCHANGED <<vpu_vars, vpq_tail_checkpoint, rename_bundle, repair_vars>>

(* A branch was mispredicted: the renamer goes back to the branches older  *)
(* than it, and repair() is called with the tail saved for it.             *)
ResolveMispredict(b) ==
  /\ Idle
  /\ b \in GBM
  /\ GBM' = checkpoint_GBM[b]
  /\ repairing' = TRUE
  /\ restored_tail' = vpq_tail_checkpoint[b]
  /\ UNCHANGED <<vpu_vars, vpq_tail_checkpoint, checkpoint_GBM, rename_bundle>>

(* squash_complete: every in-flight instruction goes, so the target of the *)
(* repair is the head of the queue.                                        *)
SquashComplete ==
  /\ Idle
  /\ GBM' = {}
  /\ repairing' = TRUE
  /\ restored_tail' = vpq_head
  /\ UNCHANGED <<vpu_vars, vpq_tail_checkpoint, checkpoint_GBM, rename_bundle>>

(* One iteration of the loop of repair().                                  *)
RepairStep ==
  /\ repairing
  /\ vpq_tail # restored_tail
  /\ LET p   == Prev_slot(vpq_tail)
         idx == vpq[p.pos].svp_index
     IN  /\ vpq_tail' = p
         /\ svp' = IF vpq[p.pos].svp_hit /\ tag_matches(idx, vpq[p.pos].pc)
                     THEN [svp EXCEPT ![idx] =
                             with_instance(svp[idx], svp[idx].instance - 1)]
                     ELSE svp
  /\ UNCHANGED <<vpq, vpq_head, branch_vars, rename_bundle, repair_vars>>

RepairEnd ==
  /\ repairing
  /\ vpq_tail = restored_tail
  /\ repairing' = FALSE
  /\ UNCHANGED <<vpu_vars, branch_vars, rename_bundle, restored_tail>>

Next ==
  \/ \E b \in Bundles : Rename2(b)
  \/ Checkpoint
  \/ Predict
  \/ \E v \in Word : Train(v)
  \/ \E b \in BranchID : ResolveCorrect(b)
  \/ \E b \in BranchID : ResolveMispredict(b)
  \/ SquashComplete
  \/ RepairStep
  \/ RepairEnd

Spec == Init /\ [][Next]_vars

(* The loops run to completion within the cycle that calls them.           *)
Fairness == WF_vars(Checkpoint \/ Predict) /\ WF_vars(RepairStep \/ RepairEnd)

FairSpec == Spec /\ Fairness

-----------------------------------------------------------------------------
TypeOK ==
  /\ svp \in [SvpIndex -> SvpEntry]
  /\ vpq \in [Slot -> VpqEntry]
  /\ vpq_head \in Pointer
  /\ vpq_tail \in Pointer
  /\ vpq_tail_checkpoint \in [BranchID -> Pointer]
  /\ GBM \in SUBSET BranchID
  /\ checkpoint_GBM \in [BranchID -> SUBSET BranchID]
  /\ rename_bundle \in Seq(Eligible \cup Branch)
  /\ repairing \in BOOLEAN
  /\ restored_tail \in Pointer

(* The instance counter of an SVP entry is exactly the number of in-flight *)
(* VPQ entries that incremented it and will decrement it: what train() and *)
(* repair() assume when they count, skip or decrement (vpu.cc:77-97).      *)
InstanceExact ==
  \A i \in SvpIndex : svp[i].instance = Cardinality(CountedInFlight(i))

(* How far a pointer is from the head of the queue, 0 .. VpqSize when it   *)
(* lies between head and tail.                                             *)
distance(h, p) == IF p.phase = h.phase THEN p.pos - h.pos
                                       ELSE p.pos - h.pos + VpqSize
Offset(p) == distance(vpq_head, p)

(* The tail is at most one turn ahead of the head, and the saved tail of   *)
(* every live branch lies between them, in the order of the branches'      *)
(* ages: a repair to it ends, and discards younger instructions only       *)
(* (rename.cc:239-249, squash.cc).                                         *)
CheckpointsInWindow ==
  /\ Offset(vpq_tail) \in 0 .. VpqSize
  /\ \A b \in GBM :
       /\ Offset(vpq_tail_checkpoint[b]) \in 0 .. Offset(vpq_tail)
       /\ \A a \in checkpoint_GBM[b] :
            Offset(vpq_tail_checkpoint[a]) <= Offset(vpq_tail_checkpoint[b])
  /\ repairing =>
       /\ Offset(restored_tail) \in 0 .. Offset(vpq_tail)
       /\ \A b \in GBM :
            Offset(vpq_tail_checkpoint[b]) <= Offset(restored_tail)

(* Two live branches are ordered by age: exactly one of them is in the     *)
(* checkpoint of the other, and a branch's elders' elders are its elders.  *)
BranchesOrdered ==
  \A b \in GBM :
    /\ checkpoint_GBM[b] \subseteq GBM \ {b}
    /\ \A a \in checkpoint_GBM[b] : checkpoint_GBM[a] \subseteq checkpoint_GBM[b]
    /\ \A a \in GBM \ {b} : a \in checkpoint_GBM[b] <=> b \notin checkpoint_GBM[a]

(* The bundle that passed the stall checks never runs out of VPQ slots or  *)
(* branch IDs half way: the assert of predict() (vpu.cc:169) holds and     *)
(* checkpoint() always finds a free ID.                                    *)
BundleFits ==
  /\ repairing => rename_bundle = << >>
  /\ bundle_vp_eligible(rename_bundle) <= vpq_free_entries
  /\ bundle_branch(rename_bundle) <= NumCheckpoints - Cardinality(GBM)

(* A step never changes a VPQ entry that is in flight before and after it: *)
(* what predict() recorded is what train() or repair() finds.              *)
EntriesStable ==
  [][\A s \in InFlight \cap InFlight' : vpq'[s] = vpq[s]]_vars

(* The storage accounting sizes the counter at ceil(log2(VPQsize)) bits    *)
(* (vpu.cc:295, :308): 2^bits is the least power of two >= VpqSize.        *)
instance_range ==
  CHOOSE r \in {2 ^ k : k \in 0 .. VpqSize} :
    r >= VpqSize /\ \A q \in {2 ^ k : k \in 0 .. VpqSize} : q >= VpqSize => r <= q

(* Every value of instance fits in the bits the accounting prints for it.  *)
InstanceFitsStorage == \A i \in SvpIndex : svp[i].instance < instance_range

(* A repair that begins ends, with the queue cut to the target.            *)
RepairEnds == repairing ~> ~repairing
=============================================================================
