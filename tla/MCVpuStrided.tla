---------------------------- MODULE MCVpuStrided ----------------------------
(* Instances of VpuStrided for TLC.                                        *)
EXTENDS VpuStrided

(* Two PCs that share SVP entry 0 with different tags.                     *)
AliasedPCs == {4096, 4104}

(* Step 1 for one instruction and step 3 for the other.                    *)
Strides == [pc \in PCs |-> IF pc = 4096 THEN 1 ELSE 3]

(* What the future depends on: slots that are not in flight, the saved     *)
(* state of branch IDs not in use and the target of a finished repair are  *)
(* overwritten before they are read; ConfidentRight reads the predictions, *)
(* and the history of the confident ones.                                  *)
LiveState ==
  <<svp, vpq_head, vpq_tail, [s \in InFlight |-> vpq[s]],
    [s \in InFlight |-> IF vpq[s].confident THEN uncounted[s] ELSE 0],
    [b \in GBM |-> <<vpq_tail_checkpoint[b], checkpoint_GBM[b]>>],
    rename_bundle, repairing, IF repairing THEN restored_tail ELSE vpq_tail,
    committed_value>>
=============================================================================
