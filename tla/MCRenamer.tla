----------------------------- MODULE MCRenamer -----------------------------
(* The instance of Renamer for TLC, with the refinement to check.          *)
EXTENDS Renamer

Kind(dst, kind) == [dst |-> dst, checkpoint |-> kind = "branch", vp_pred |-> kind = "vp",
                    at_retire |-> kind = "amo"]

(* A branch without and one with a destination (a jump that links), an     *)
(* instruction that is value-predicted, and an atomic.                     *)
AllKinds == {Kind(None, "branch"), Kind(0, "branch"), Kind(1, "vp"), Kind(0, "amo")}

(* What the future depends on: entries outside the active list, masks of   *)
(* completed instructions and checkpoints of IDs not in use are            *)
(* overwritten before they are read; phases are only compared; exception   *)
(* and load_viol lead to the same squash, whatever other flag is set.      *)
LiveState ==
  LET Relative(p) == <<p.pos, p.phase = FL_tail.phase>>
      Outcome(e)  == IF e.flags \cap {"exception", "load_viol"} # {} THEN "squash"
                     ELSE IF e.flags # {} THEN "misp" ELSE "ok"
      Live(e)     == IF e.completed THEN <<e.dst, e.phys_reg, e.at_retire, e.woken, Outcome(e)>>
                     ELSE <<[e EXCEPT !.flags = {}], Outcome(e)>>
  IN  <<map_vars, FL, Relative(FL_head), FL_tail.pos, FL_count,
        [k \in 1 .. AL_count |-> Live(ActiveList[k])], AL_head.pos, PRF_ready,
        GBM, checkpoint_count,
        [b \in GBM |-> <<checkpoints[b].shadow_RMT, Relative(checkpoints[b].FL_head),
                         checkpoints[b].GBM>>],
        front_vars>>
=============================================================================
