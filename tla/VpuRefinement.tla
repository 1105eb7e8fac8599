---------------------------- MODULE VpuRefinement ----------------------------
(***************************************************************************)
(* The VPQ, its phase bits, the tails saved per branch and the walk of     *)
(* repair() implement the in-order window of InOrderWindow.                *)
(***************************************************************************)
EXTENDS Vpu, SequencesExt

VARIABLE last_trained  (* history: the PC of the entry trained last        *)

refinement_vars == <<vars, last_trained>>

RefinementInit == Init /\ last_trained = 0

(* A Train moves the head; nothing else does.                              *)
RefinementNext ==
  /\ Next
  /\ last_trained' = IF vpq_head' # vpq_head THEN vpq[vpq_head.pos].pc
                                             ELSE last_trained

(* With the fairness of Vpu: its loops run to completion.                  *)
RefinementSpec == RefinementInit /\ [][RefinementNext]_refinement_vars /\ Fairness

(* A squash takes effect in the window when the walk starts.               *)
end_of_window == IF repairing THEN restored_tail ELSE vpq_tail

(* The live branches saved with k entries before them, oldest first.       *)
branches_at(k) ==
  LET at == {b \in GBM : Offset(vpq_tail_checkpoint[b]) = k}
      Older(a, b) == a \in checkpoint_GBM[b]
  IN  [i \in 1 .. Cardinality(at) |->
         [kind |-> "checkpoint", id |-> SetToSortSeq(at, Older)[i]]]

(* The k-th oldest entry of the queue, as a sequence of one item.          *)
entry_at(k) ==
  IF k = Offset(end_of_window) THEN << >>
  ELSE LET s == (vpq_head.pos + k) % VpqSize
       IN  <<[kind |-> "predict", id |-> vpq[s].pc]>>

in_order_window ==
  FlattenSeq([k \in 1 .. Offset(end_of_window) + 1 |->
                branches_at(k - 1) \o entry_at(k - 1)])

Window_spec == INSTANCE InOrderWindow WITH
                 MaxWindow <- VpqSize + NumCheckpoints,
                 window <- in_order_window, trained <- last_trained

(* Every step of the VPU and of its callers is a step of the window or     *)
(* leaves it alone.                                                        *)
ImplementsWindow == Window_spec!WindowSpec
=============================================================================
