---------------------------- MODULE DecodedEntry ----------------------------
(***************************************************************************)
(* An entry of the payload buffer as it is used by one instruction after   *)
(* another. Only part of it is written for each of them: an opcode that    *)
(* decode does not know keeps the flags of the entry's previous user.      *)
(***************************************************************************)
EXTENDS Decode

VARIABLES insn, payload     \* the instruction, and its entry after decode

vars == <<insn, payload>>

Unused == [op |-> "OP_IMM", fn |-> "NOP", rd |-> 0, rs1 |-> 0, rs2 |-> 0, rs3 |-> 0]

(* A fetch that faults puts a NOP with a trap into the entry. *)
Init == insn = Unused /\ payload = Decoded(Unused, {}, "none")
DecodeNext ==
    /\ insn' \in {i \in Insn : WellFormed(i)}
    /\ \E fault \in {"none"} \cup IF IsNop(insn') THEN {"fetch"} ELSE {} :
          payload' = Decoded(insn', payload.flags, fault)

Spec == Init /\ [][DecodeNext]_vars
-----------------------------------------------------------------------------
(* Whatever instructions the program or a wrong path puts into the entry,  *)
(* one after another and with whatever fetch faults: a destination that    *)
(* rename allocates is written by someone; fetch, which waits behind a     *)
(* serializing instruction or a fault, is restarted by its retirement; a   *)
(* predicted value is compared in a lane; what the load/store unit sees    *)
(* has an address and a lane that computes it; and a split store's upper   *)
(* half leaves the value to the lower one (the tables of decode.cc against *)
(* those of their readers).                                                *)
DecodeSound ==
    /\ payload.C # NoReg =>
           payload.C # 0 /\ WritesDest(payload) /\ ~ExceptionAtDispatch(payload)
    /\ Serializing(insn) \/ payload.trap = "fetch" =>
           ExceptionAtDispatch(payload) \/ Restarts(payload)
    /\ is_eligible(payload) => payload.iq = "IQ" /\ ~Restarts(payload)
    /\ payload.iq = "IQ" /\ "MEM" \in payload.flags =>
           payload.A # NoReg /\ payload.fu \in {"LS", "LS_FP"}
    /\ Split(insn) => /\ payload.B = NoReg
                      /\ LowerHalf(insn, payload).A \in {insn.rs2, F(insn.rs2)}
=============================================================================
