---------------------------- MODULE MCIssueQueue ----------------------------
(***************************************************************************)
(* The issue queue with three entries, two lanes, one physical register    *)
(* and one predicted store, behind two branches. It selects by age, or     *)
(* takes turns to scan from each of three partitions.                      *)
(***************************************************************************)
EXTENDS IssueQueue

CONSTANTS p1, s1

MCLane == 0..1
Insn(srcs, inum, lanes) == [srcs |-> srcs, inum |-> inum, lanes |-> lanes]

(* An instruction that is ready at once, and a load that waits for p1 and  *)
(* for the store that it is predicted to depend on.                        *)
MCInsns == {Insn({}, {}, {0}), Insn({p1}, {s1}, {0, 1})}

(* To save states, one branch at a time is unresolved where the scan is    *)
(* round-robin.                                                            *)
Bound  == ~age_based => Len(open') <= 1
MCSpec == Init /\ [][Next /\ Bound]_vars

(* What the queue can still read: the contents and pointers of the valid   *)
(* entries, the free list between its head and its tail, and the entry to  *)
(* scan first where that is not the oldest.                                *)
Live(f) == [i \in Valid |-> f[i]]
LiveState ==
    <<Live(q), Live(prev), Live(next), oldest, youngest,
      [k \in 0..(fl_length - 1) |-> fl[(fl_head + k) % Size]], fl_head,
      IF age_based THEN 0 ELSE part_next, rr, ready, open, todo, age_based>>
-----------------------------------------------------------------------------
(* The queue implements the line of instructions and branches in program   *)
(* order, with either selection.                                           *)
Window == INSTANCE DispatchWindow WITH line <- Line
ImplementsLine == Window!Spec
=============================================================================
