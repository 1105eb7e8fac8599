------------------------------ MODULE MCWindows ------------------------------
(***************************************************************************)
(* What the three queues that hold instructions in flight promise in the   *)
(* long run: the value prediction queue ("vpq") with its refinement, the   *)
(* issue queue with round-robin selection behind the active list ("iq"),   *)
(* and the load/store unit without speculative disambiguation ("lsu"). A   *)
(* behaviour is one of them, the others stand still.                       *)
(***************************************************************************)
EXTENDS VpuRefinement

CONSTANTS p1, NoBranch

VARIABLES
    subject,
    q, length, prev, next, oldest, youngest, fl, fl_head, fl_tail, fl_length,   \* IssueQueue
    part_next, rr, ready, open, todo, age_based, since,
    LQ, lq_head, lq_tail, lq_head_phase, lq_tail_phase, lq_length,              \* Lsu
    SQ, sq_head, sq_tail, sq_head_phase, sq_tail_phase, sq_length,
    window, mem, load_reservation

(* Two PCs that share an entry of the SVP. *)
AliasedPCs == {4096, 4104}

Insns == {[srcs |-> {}, inum |-> {}, lanes |-> {0}], [srcs |-> {p1}, inum |-> {}, lanes |-> {0, 1}]}
Iq == INSTANCE IssueQueueWindow
    WITH Size <- 3, NumParts <- 1, Selections <- {FALSE}, Lane <- 0..1, PhysReg <- {p1}, Inum <- {},
         Branch <- {}, NumActive <- 4
Memory == INSTANCE Lsu
    WITH LqSize <- 1, SqSize <- 1, NumActive <- 2, MaxBranches <- 1, Byte <- {0, 1}, Val <- {0},
         Zero <- 0, Size <- {1, 2}, Fault <- {}, AmoKinds <- {FALSE}, SpecDisambig <- FALSE

ASSUME WindowsAssumption == Iq!WindowAssumption
-----------------------------------------------------------------------------
iq_state  == <<q, length, prev, next, oldest, youngest, fl, fl_head, fl_tail, fl_length,
               part_next, rr, ready, open, todo, age_based, since>>
lsu_state == <<LQ, lq_head, lq_tail, lq_head_phase, lq_tail_phase, lq_length,
               SQ, sq_head, sq_tail, sq_head_phase, sq_tail_phase, sq_length,
               window, mem, load_reservation>>
state     == <<refinement_vars, iq_state, lsu_state>>

MCInit == subject \in {"vpq", "iq", "lsu"} /\ RefinementInit /\ Iq!WindowInit /\ Memory!Init

Vpq_step == subject = "vpq" /\ RefinementNext /\ UNCHANGED <<iq_state, lsu_state>>
Iq_step  == subject = "iq"  /\ Iq!WindowNext  /\ UNCHANGED <<refinement_vars, lsu_state>>
Lsu_step == subject = "lsu" /\ Memory!Next    /\ UNCHANGED <<refinement_vars, iq_state>>

(* The fairness of Vpu, IssueQueueWindow and Lsu for the one that moves.   *)
MCSpec ==
    /\ MCInit /\ [][(Vpq_step \/ Iq_step \/ Lsu_step) /\ UNCHANGED subject]_<<subject, state>>
    /\ WF_vars(subject = "vpq" /\ (Checkpoint \/ Predict))
    /\ WF_vars(subject = "vpq" /\ (RepairStep \/ RepairEnd))
    /\ WF_iq_state(subject = "iq" /\ Iq!WindowOther /\ Iq!SelectBegin)
    /\ WF_iq_state(subject = "iq" /\ Iq!WindowOther /\ Iq!SelectEntry)
    /\ \A part \in Memory!Fair : WF_lsu_state(subject = "lsu" /\ Memory!Does(part))
-----------------------------------------------------------------------------
(* A ready instruction issues in the end, though round-robin selection may *)
(* give its lane to later ones: the active list bounds them                *)
(* (select_and_issue), see IssueQueueWindow.                               *)
ReadyIssues == Iq!ReadyIssuesInWindow

(* A load that stalls on an address, a partial overlap, a miss or the head *)
(* of the queue gets its value in the end, or is squashed (load_unstall,   *)
(* execute_load), see Lsu.                                                 *)
StalledLoadsEnd == Memory!StalledLoadsEnd
=============================================================================
