-------------------------------- MODULE Isa --------------------------------
(***************************************************************************)
(* What the pipeline promises: the instructions of a program take effect   *)
(* one after another. The effect of an instruction is that of the          *)
(* functional simulator against which the pipeline is checked as it        *)
(* retires: registers, one word of memory, one control register and the    *)
(* program counter saved by a trap.                                        *)
(***************************************************************************)
EXTENDS Integers, Sequences

CONSTANTS
    Reg,         \* logical registers
    Word,        \* values are 0..(Word - 1); address 0 is mapped
    Handler      \* where traps go (evec)

VARIABLES program, pc, regs, mem, csr, epc

(* An instruction is [op, rd, rs1, rs2, target]; register 0 is x0. *)
Value      == 0..(Word - 1)
Inc(p)     == (p % Len(program)) + 1
Read(r)    == IF r = 0 THEN 0 ELSE regs[r]
Write(r, v) == regs' = IF r = 0 THEN regs ELSE [regs EXCEPT ![r] = v]

(* What an operation computes from its two sources, and which address      *)
(* traps. Division by zero stands for the operations that trap in a lane.  *)
Result(op, a, b) == IF op = "mul" THEN (a + b) % Word ELSE (a + 1) % Word
BadAddress(a)    == a # 0
Taken(a)         == a = 0
Store(op, m, b)  == IF op = "amo" THEN (m + b) % Word ELSE b

Init ==
    /\ pc = 1
    /\ regs = [r \in Reg |-> 0] /\ mem = 0 /\ csr = 0 /\ epc = 1

i == program[pc]
a == Read(i.rs1)
b == Read(i.rs2)

Compute ==
    /\ i.op \in {"alu", "mul"}
    /\ Write(i.rd, Result(i.op, a, b))
    /\ pc' = Inc(pc)
    /\ UNCHANGED <<mem, csr, epc>>
Branch ==
    /\ i.op = "branch"
    /\ pc' = IF Taken(a) THEN i.target ELSE Inc(pc)
    /\ UNCHANGED <<regs, mem, csr, epc>>
Memory ==
    /\ i.op \in {"load", "store", "amo"} /\ ~BadAddress(a)
    /\ IF i.op = "store" THEN UNCHANGED regs ELSE Write(i.rd, mem)
    /\ mem' = IF i.op = "load" THEN mem ELSE Store(i.op, mem, b)
    /\ pc' = Inc(pc)
    /\ UNCHANGED <<csr, epc>>
System ==
    \/ /\ i.op = "csr"
       /\ Write(i.rd, csr) /\ csr' = a
       /\ pc' = Inc(pc)
       /\ UNCHANGED <<mem, epc>>
    \/ /\ i.op = "sret"
       /\ pc' = epc
       /\ UNCHANGED <<regs, mem, csr, epc>>
Trap ==
    /\ \/ i.op = "trap"
       \/ i.op \in {"load", "store", "amo"} /\ BadAddress(a)
    /\ pc' = Handler /\ epc' = pc
    /\ UNCHANGED <<regs, mem, csr>>

Step == (Compute \/ Branch \/ Memory \/ System \/ Trap) /\ UNCHANGED program

Spec == Init /\ [][Step]_<<program, pc, regs, mem, csr, epc>>
=============================================================================
