-------------------------- MODULE IssueQueueWindow --------------------------
(***************************************************************************)
(* The issue queue behind the active list. An instruction that has not     *)
(* issued cannot retire, so it and all that were dispatched after it hold  *)
(* a place in the active list; since[i] counts the latter for entry i. The *)
(* active list stalls dispatch when it is full (REN->stall_dispatch), and  *)
(* that is what keeps the round-robin scheduler from passing over a ready  *)
(* instruction for ever. Branches are left out: squashes only empty it.    *)
(***************************************************************************)
EXTENDS IssueQueue

CONSTANT NumActive      \* entries of the active list

WindowAssumption == NumActive \in Nat \ {0}

VARIABLE since

WindowInit == Init /\ since = [i \in Slot |-> 0]

(* mutant: dispatch does not ask the active list. *)
stall_dispatch_Never == FALSE

stall_dispatch == \E i \in Valid : since[i] + 1 >= NumActive

WindowDispatch(insn) ==
    /\ ~stall_dispatch
    /\ Dispatch(insn, NoBranch)
    /\ since' = [i \in Slot |-> IF i = fl[fl_head] \/ ~q[i].valid THEN 0
                               ELSE IF since[i] = NumActive THEN NumActive
                               ELSE since[i] + 1]

WindowOther ==
    /\ \/ \E t \in PhysReg : Wakeup(t) \/ Allocate(t, FALSE)
       \/ SelectBegin
       \/ SelectEntry
    /\ since' = [i \in Slot |-> IF q'[i].valid THEN since[i] ELSE 0]

WindowNext ==
    \/ \E insn \in Insns : WindowDispatch(insn)
    \/ WindowOther

WindowVars == <<vars, since>>
WindowSpec == WindowInit /\ [][WindowNext]_WindowVars
                         /\ WF_WindowVars(WindowOther /\ SelectBegin)
                         /\ WF_WindowVars(WindowOther /\ SelectEntry)

(* Round-robin priority with a bounded window starves nobody: a ready      *)
(* instruction issues, though later ones may take its lane before it.      *)
ReadyIssuesInWindow == \A i \in Slot : IsReady(i) ~> ~q[i].valid
=============================================================================
