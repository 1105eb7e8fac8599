----------------------------- MODULE VpuStrided -----------------------------
(***************************************************************************)
(* Vpu under a program whose value-predictable instructions produce        *)
(* strided values: the n-th committed copy of an instruction writes        *)
(* base + n * Stride[pc], for a base in Base. It is the kind of            *)
(* instruction the SVP is built for, and here a confident prediction       *)
(* should be right.                                                        *)
(***************************************************************************)
EXTENDS Vpu

CONSTANTS Stride, (* what each instruction adds per committed copy         *)
          Base    (* the values an instruction may start from              *)

ASSUME StrideAssumption == Stride \in [PCs -> Word] /\ Base \subseteq Word

VARIABLES
  committed_value, (* last value each instruction committed: AMT+PRF       *)
  uncounted        (* history: for each slot, how many copies of its       *)
                   (* instruction that missed were in flight when it was   *)
                   (* predicted. Only ConfidentRight reads it.             *)

strided_vars == <<vars, committed_value, uncounted>>

next_value(pc) == (committed_value[pc] + Stride[pc]) % WordSize

Missed(pc) == {s \in InFlight : vpq[s].pc = pc /\ ~vpq[s].svp_hit}

StridedInit == /\ Init /\ committed_value \in [PCs -> Base]
               /\ uncounted = [s \in Slot |-> 0]

StridedTrain ==
  /\ vpq_head # vpq_tail
  /\ LET pc == vpq[vpq_head.pos].pc
     IN  /\ Train(next_value(pc))
         /\ committed_value' = [committed_value EXCEPT ![pc] = next_value(pc)]
  /\ UNCHANGED uncounted

StridedPredict ==
  /\ Predict
  /\ uncounted' = [uncounted EXCEPT ![vpq_tail.pos] =
                     Cardinality(Missed(Head(rename_bundle).pc))]
  /\ UNCHANGED committed_value

StridedNext ==
  \/ StridedTrain
  \/ StridedPredict
  \/ /\ \/ \E b \in Bundles : Rename2(b)
        \/ Checkpoint
        \/ \E b \in BranchID : ResolveCorrect(b) \/ ResolveMispredict(b)
        \/ SquashComplete
        \/ RepairStep
        \/ RepairEnd
     /\ UNCHANGED <<committed_value, uncounted>>

StridedSpec == StridedInit /\ [][StridedNext]_strided_vars

(* No other instruction has the entry of this one and its tag.             *)
Alone(pc) == \A q \in PCs :
  get_svp_index(q) = get_svp_index(pc) /\ get_svp_tag(q) = get_svp_tag(pc) => q = pc

(* How right a confident prediction is, for an instruction whose tag tells *)
(* it from the others and a confidence that takes at least one equal       *)
(* stride: when it is about to commit, it is short by one stride for every *)
(* copy that had missed and was in flight when it was predicted, and right *)
(* when there was none. The instance counter is the distance, in copies,   *)
(* from the last commit to the copy predicted, whatever was squashed,      *)
(* replaced or missed on the way, but for the copies that missed: these    *)
(* commit without having been counted (vpu.cc predict, train and repair).  *)
ConfidentRight ==
  LET h == vpq[vpq_head.pos]
  IN  vpq_head # vpq_tail /\ h.confident /\ SvpConfMax # 0 /\ Alone(h.pc) =>
        h.predicted_value =
          (committed_value[h.pc] + (1 - uncounted[vpq_head.pos]) * Stride[h.pc]) % WordSize
=============================================================================
