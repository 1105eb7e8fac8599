------------------------------- MODULE Decode -------------------------------
(***************************************************************************)
(* What the decode stage writes into the payload of an instruction         *)
(* (decode.cc), and the rules by which later stages read it.               *)
(*                                                                         *)
(* An instruction is its opcode, the one function field its opcode selects *)
(* on (fn) and its register fields. A register operand is a logical        *)
(* register, floating-point registers after the NXPR integer ones, or      *)
(* NoReg where the code clears the valid bit. Immediates are data.         *)
(***************************************************************************)
EXTENDS Integers

CONSTANTS
    NXPR,           \* integer logical registers; x0 is register 0
    SPLIT_STORES    \* stores are split into an address and a value part

ASSUME DecodeAssumption == NXPR \in Nat \ {0} /\ SPLIT_STORES \in BOOLEAN

NoReg == -1
-----------------------------------------------------------------------------
Ctrl   == {"JAL", "JALR", "BRANCH"}
Fused  == {"MADD", "MSUB", "NMADD", "NMSUB"}
AmoAlu == {"SWAP", "ADD", "XOR", "AND", "OR", "MIN", "MAX", "MINU", "MAXU"}
FpTwo  == {"FADD", "FSUB", "FMUL", "FDIV", "FSGNJ", "FMIN_MAX"}
FpOne  == {"FSQRT", "FCVT_DS"}
ToFp   == {"FCVT_I2FP", "FMV_I2FP"}
FromFp == {"FCVT_FP2I", "FMV_FP2I"}
Csr    == {"CLR", "RW", "SET"}
CsrImm == {"CLR_IMM", "RW_IMM", "SET_IMM"}

(* The function fields that the two switches of decode() tell apart. An    *)
(* AMO whose funct3 is neither W nor D is "LR_bad", "SC_bad" or "bad".     *)
Fn(op) ==
    CASE op \in {"OP", "OP_32"}         -> {"simple", "MULDIV"}
      [] op \in {"OP_IMM", "OP_IMM_32"} -> {"simple", "NOP"}
      [] op = "OP_FP"  -> FpTwo \cup {"FCOMP"} \cup FpOne \cup ToFp \cup FromFp \cup {"bad"}
      [] op = "SYSTEM" -> Csr \cup CsrImm \cup {"SRET", "SCALL", "SBREAK", "bad"}
      [] op = "AMO"    -> AmoAlu \cup {"LR", "SC", "LR_bad", "SC_bad", "bad"}
      [] OTHER -> {"none"}
Opcode == Ctrl \cup Fused \cup {"LOAD", "STORE", "LOAD_FP", "STORE_FP", "OP", "OP_32",
             "OP_IMM", "OP_IMM_32", "LUI", "AUIPC", "OP_FP", "SYSTEM", "MISC_MEM",
             "AMO", "UNKNOWN"}
Field == 0..(NXPR - 1)
Insn == UNION {[op : {o}, fn : Fn(o), rd : Field, rs1 : Field, rs2 : Field,
                rs3 : IF o \in Fused THEN Field ELSE {0}] : o \in Opcode}

(* The NOP is ADDI x0, x0, 0. *)
IsNop(i)      == i.op \in {"OP_IMM", "OP_IMM_32"} /\ i.fn = "NOP"
WellFormed(i) == IsNop(i) => i.rd = 0 /\ i.rs1 = 0
-----------------------------------------------------------------------------
Checkpoint(i) == i.op \in Ctrl

(* An unknown opcode keeps the flags of whoever had the entry before. *)
Flags(i, stale) ==
    CASE i.op \in {"JAL", "JALR"} -> {"CTRL", "UNCOND"}
      [] i.op = "BRANCH"   -> {"CTRL", "COND"}
      [] i.op = "LOAD"     -> {"MEM", "LOAD", "DISP"}
      [] i.op = "STORE"    -> {"MEM", "STORE", "DISP"}
      [] i.op \in {"OP", "OP_32"} ->
            {"ICOMP"} \cup (IF i.fn = "MULDIV" THEN {"LONGLAT"} ELSE {})
      [] i.op \in {"OP_IMM", "OP_IMM_32", "LUI", "AUIPC"} -> {"ICOMP"}
      [] i.op = "LOAD_FP"  -> {"MEM", "FMEM", "LOAD", "DISP"}
      [] i.op = "STORE_FP" -> {"MEM", "FMEM", "STORE", "DISP"}
      [] i.op \in Fused \cup {"OP_FP"} -> {"FCOMP"}
      [] i.op = "SYSTEM"   -> {"TRAP", "CSR"}
      [] i.op = "MISC_MEM" -> {"TRAP"}
      [] i.op = "AMO" /\ i.fn \in {"LR", "LR_bad"} -> {"MEM", "LOAD", "DISP", "AMO"}
      [] i.op = "AMO" /\ i.fn \in {"SC", "SC_bad"} -> {"MEM", "STORE", "DISP", "AMO"}
      [] i.op = "AMO"      -> {"AMO"}
      [] OTHER -> stale

(* The function unit, "stale" for an unknown opcode. *)
Fu(i) ==
    CASE i.op \in Ctrl -> "BR"
      [] i.op \in {"LOAD", "STORE"} -> "LS"
      [] i.op = "AMO" /\ i.fn \in {"LR", "SC", "LR_bad", "SC_bad"} -> "LS"
      [] i.op \in {"OP", "OP_32"} /\ i.fn = "MULDIV" -> "ALU_C"
      [] i.op \in {"LOAD_FP", "STORE_FP"} -> "LS_FP"
      [] i.op \in Fused \cup {"OP_FP"} -> "ALU_FP"
      [] i.op = "UNKNOWN" -> "stale"
      [] OTHER -> "ALU_S"

F(r) == r + NXPR
None == [A |-> NoReg, B |-> NoReg, C |-> NoReg, D |-> NoReg, iq |-> "IQ", trap |-> "none"]
(* Source registers a and b, destination c. *)
Regs(a, b, c) == [None EXCEPT !.A = a, !.B = b, !.C = c]
Skip(trap)    == [None EXCEPT !.iq = "NONE", !.trap = trap]

FpOperands(i) ==
    CASE i.fn \in FpTwo  -> Regs(F(i.rs1), F(i.rs2), F(i.rd))
      [] i.fn = "FCOMP"  -> Regs(F(i.rs1), F(i.rs2), i.rd)
      [] i.fn \in FpOne  -> Regs(F(i.rs1), NoReg, F(i.rd))
      [] i.fn \in ToFp   -> Regs(i.rs1, NoReg, F(i.rd))
      [] i.fn \in FromFp -> Regs(F(i.rs1), NoReg, i.rd)
      [] OTHER -> None

(* SRET goes to the issue queue like a CSR access; SCALL and SBREAK are    *)
(* traps that are complete when they are dispatched.                       *)
SystemOperands(i) ==
    CASE i.fn \in Csr     -> Regs(i.rs1, NoReg, i.rd)
      [] i.fn \in CsrImm  -> Regs(NoReg, NoReg, i.rd)
      [] i.fn = "SRET"    -> None
      [] i.fn = "SCALL"   -> Skip("syscall")
      [] i.fn = "SBREAK"  -> Skip("breakpoint")
      [] OTHER -> Skip("illegal_instruction")

(* Seeded fault: an illegal AMO keeps its destination. *)
AmoOperands_Illegal(i) ==
    CASE i.fn = "LR" -> Regs(i.rs1, NoReg, i.rd)
      [] i.fn \in AmoAlu \cup {"SC"} -> Regs(i.rs1, i.rs2, i.rd)
      [] OTHER -> [Skip("illegal_instruction") EXCEPT !.C = i.rd]
AmoOperands(i) ==
    CASE i.fn = "LR" -> Regs(i.rs1, NoReg, i.rd)
      [] i.fn \in AmoAlu \cup {"SC"} -> Regs(i.rs1, i.rs2, i.rd)
      [] OTHER -> Skip("illegal_instruction")

Operands(i) ==
    CASE i.op \in {"JAL", "LUI", "AUIPC"} -> Regs(NoReg, NoReg, i.rd)
      [] i.op \in {"JALR", "LOAD"} -> Regs(i.rs1, NoReg, i.rd)
      [] i.op = "BRANCH"   -> Regs(i.rs1, i.rs2, NoReg)
      [] i.op = "LOAD_FP"  -> Regs(i.rs1, NoReg, F(i.rd))
      [] i.op = "STORE"    -> Regs(i.rs1, IF SPLIT_STORES THEN NoReg ELSE i.rs2, NoReg)
      [] i.op = "STORE_FP" -> Regs(i.rs1, IF SPLIT_STORES THEN NoReg ELSE F(i.rs2), NoReg)
      [] i.op \in {"OP", "OP_32"} -> Regs(i.rs1, i.rs2, i.rd)
      [] IsNop(i)          -> [Skip("none") EXCEPT !.A = i.rs1]
      [] i.op \in {"OP_IMM", "OP_IMM_32"} -> Regs(i.rs1, NoReg, i.rd)
      [] i.op = "OP_FP"    -> FpOperands(i)
      [] i.op = "SYSTEM"   -> SystemOperands(i)
      [] i.op = "MISC_MEM" -> Skip("none")
      [] i.op = "AMO"      -> AmoOperands(i)
      [] i.op \in Fused    -> [Regs(F(i.rs1), F(i.rs2), F(i.rd)) EXCEPT !.D = F(i.rs3)]
      [] OTHER -> Skip("none")

(* x0 is never renamed: an instruction that writes it has no destination. *)
NoX0(ops) == [ops EXCEPT !.C = IF @ = 0 THEN NoReg ELSE @]

(* trap_storage_t::post(): the trap posted first takes precedence. *)
Post(old, new) == IF old # "none" THEN old ELSE new

Split(i) == SPLIT_STORES /\ i.op \in {"STORE", "STORE_FP"}

(* The payload of instruction i after decode(), in an entry that held the  *)
(* flags stale, with the trap of its fetch. The lower half of a split      *)
(* store is in the next entry, with the value as its source A.             *)
Decoded(i, stale, trap) ==
    LET ops == NoX0(Operands(i))
    IN  [checkpoint |-> Checkpoint(i), flags |-> Flags(i, stale), fu |-> Fu(i),
         split |-> Split(i), upper |-> TRUE, A |-> ops.A, B |-> ops.B, C |-> ops.C,
         D |-> ops.D, iq |-> ops.iq, trap |-> Post(trap, ops.trap)]
LowerHalf(i, p) ==
    [p EXCEPT !.upper = FALSE, !.trap = "none", !.A = IF i.op = "STORE" THEN i.rs2 ELSE F(i.rs2),
              !.B = NoReg, !.C = NoReg, !.D = NoReg]
-----------------------------------------------------------------------------
(* FETCH2 stops fetch behind these and behind an instruction with a trap. *)
Serializing(i) == i.op \in {"AMO", "SYSTEM"}

(* is_eligible() with every class of predictions turned on. *)
is_eligible(p) ==
    /\ p.C # NoReg
    /\ \/ "ICOMP" \in p.flags
       \/ "FCOMP" \in p.flags
       \/ "LOAD" \in p.flags /\ "AMO" \notin p.flags

(* dispatch() sets the exception bit of what skips the issue queue. *)
ExceptionAtDispatch(p) == p.iq = "NONE" /\ p.trap # "none"
(* retire() restarts fetch after these. *)
Restarts(p) == "AMO" \in p.flags \/ "CSR" \in p.flags
(* These lanes wake consumers up or, for loads, the load/store unit does;  *)
(* retire() writes the destinations of AMO and SYSTEM instructions.        *)
WritesDest(p) == p.iq = "IQ" \/ Restarts(p)
=============================================================================
