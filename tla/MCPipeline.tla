----------------------------- MODULE MCPipeline -----------------------------
(* Model checking the pipeline: programs of a few instructions that loop.  *)
EXTENDS Pipeline

I(op, rd, rs1, rs2)  == [op |-> op, rd |-> rd, rs1 |-> rs1, rs2 |-> rs2, target |-> 1]
Br(rs1, t) == [I("branch", 0, rs1, 0) EXCEPT !.target = t]
Depths == <<1, 2>>
Loops ==
    {<<I("store", 0, 0, 1), I("load", 1, 0, 0), I("alu", 1, 1, 0)>>,
     <<I("mul", 2, 1, 2), I("load", 1, 2, 0), I("trap", 0, 0, 0)>>,
     <<I("load", 2, 0, 0), I("alu", 1, 2, 0), I("amo", 1, 0, 2), Br(1, 1)>>,
     <<I("mul", 1, 1, 1), I("alu", 1, 1, 0), Br(1, 1)>>,
     <<I("alu", 1, 1, 0), I("amo", 2, 1, 2), I("csr", 1, 2, 0), I("sret", 0, 0, 0)>>}
=============================================================================
