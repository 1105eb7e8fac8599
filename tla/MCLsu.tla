-------------------------------- MODULE MCLsu --------------------------------
(***************************************************************************)
(* The load/store unit with three instructions in flight and two entries   *)
(* in each queue, over two bytes that hold one of two values: with bytes,  *)
(* one of which traps, conditional accesses and a branch ("traps"); with   *)
(* loads and stores of one and two bytes that overlap in part ("sizes");   *)
(* and with a branch and loads that wait for the addresses of the stores   *)
(* before them ("conservative").                                           *)
(***************************************************************************)
EXTENDS Lsu

VARIABLE variant

Traps == INSTANCE Lsu
    WITH MaxBranches <- 1, Size <- {1}, Fault <- {1}, AmoKinds <- {FALSE, TRUE}
Conservative == INSTANCE Lsu
    WITH MaxBranches <- 1, Size <- {1}, SpecDisambig <- FALSE

(* In "sizes" the bytes of a store tell its size: 0 for one, 1 for two.    *)
SizeTold == \A i \in SSlot : SQ'[i].value \in {<<>>, [k \in {0} |-> 0], [k \in {0, 1} |-> 1]}

MCInit == \/ variant = "traps" /\ Traps!Init
          \/ variant = "sizes" /\ Init
          \/ variant = "conservative" /\ Conservative!Init
MCNext == \/ variant = "traps" /\ Traps!Next /\ UNCHANGED variant
          \/ variant = "sizes" /\ Next /\ SizeTold /\ UNCHANGED variant
          \/ variant = "conservative" /\ Conservative!Next /\ UNCHANGED variant
MCSpec == MCInit /\ [][MCNext]_<<variant, vars>>

(* What the unit can still read: the valid entries, of a load that has its *)
(* value not what it waited for, and of a phase bit whether it is that of  *)
(* its queue's head. Nothing reads more: phases are compared or flipped.   *)
LiveLoads  == [i \in {j \in DOMAIN LQ : LQ[j].valid} |->
                  [LQ[i] EXCEPT !.sq_index_phase = @ = sq_head_phase,
                                !.missed = @ /\ ~LQ[i].value_avail,
                                !.mdp_stall = @ /\ ~LQ[i].value_avail]]
LiveStores == [i \in {j \in DOMAIN SQ : SQ[j].valid} |-> SQ[i]]
LiveWindow == [k \in DOMAIN window |->
                  [window[k] EXCEPT !.at.lq_phase = @ = lq_head_phase,
                                    !.at.sq_phase = @ = sq_head_phase]]
LiveState == <<variant, LiveLoads, lq_head, lq_tail, lq_head_phase = lq_tail_phase, lq_length,
               LiveStores, sq_head, sq_tail, sq_head_phase = sq_tail_phase, sq_length,
               LiveWindow, mem, load_reservation>>
=============================================================================
