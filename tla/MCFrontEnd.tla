----------------------------- MODULE MCFrontEnd -----------------------------
(* Model checking the front end. *)
EXTENDS FrontEnd

I(op, fn, rd) == [op |-> op, fn |-> fn, rd |-> rd, rs1 |-> 0, rs2 |-> 0, rs3 |-> 0]
(* Which classes a program mixes: all five at once are too many states. *)
Classes == {{"branch", "amo"}, {"store", "fault"}, {"load"}}
KindCode == [branch |-> I("BRANCH", "none", 0), store |-> I("STORE", "none", 0),
             load |-> I("LOAD", "none", 1), amo |-> I("AMO", "ADD", 1),
             fault |-> I("OP_IMM", "NOP", 0)]
=============================================================================
