------------------------------ MODULE Processor ------------------------------
(***************************************************************************)
(* The processor that both simulators derive from (riscv-base/processor.h, *)
(* processor.cc) with its simulator (uarchsim/sim.cc) and the host behind  *)
(* it (riscv-base/htif.cc, fesvr/htif.cc), as functions of one record: the *)
(* functional simulator and the pipeline each own one, and have to take    *)
(* the same steps for their states to agree.                               *)
(*                                                                         *)
(* The code is a program of this module: an instruction is [op, target].   *)
(* The registers are one register x, the general control registers are     *)
(* left out. Interrupts stay disabled, as they are at boot.                *)
(***************************************************************************)
EXTENDS Naturals, Sequences

CONSTANTS
    Width,       \* x and the counters are modulo 2^w
    Interleave,  \* INTERLEAVE
    Handler      \* evec: where traps go

(* Instructions that read or write a control register, and the ones that   *)
(* end in a trap.                                                          *)
Csr   == {"count", "compare", "tohost", "exit", "fromhost", "clear", "sret"}
Traps == {"scall", "fault"}
Op    == Csr \cup Traps \cup {"add", "branch", "jump", "store"}
Exit  == 1           \* the two commands a program gives its host
Read  == 2
Reply == Read        \* the host echoes the command in its answer

(* What write_cr of the host's loop does next, and with which values.      *)
Host == [at : {"tohost", "fromhost", "reset"}, old : 0..2, pending : Seq({Reply}), exit : BOOLEAN]

Boot == [pc |-> 1, x |-> 0, count |-> 0, compare |-> 0, timer |-> FALSE,
         supervisor |-> TRUE, previous |-> FALSE, epc |-> 1, tohost |-> 0, fromhost |-> 0,
         serialized |-> FALSE, run |-> TRUE, step |-> 0,
         host |-> [at |-> "fromhost", old |-> 1, pending |-> <<>>, exit |-> FALSE]]

(* state_t::reset *)
Reset(p) == [Boot EXCEPT !.run = FALSE, !.step = p.step, !.host = p.host,
                         !.serialized = p.serialized]

(* The turn of the host between two packets (htif_t::run): it takes the    *)
(* value the last packet returned, hands a command to its device, which    *)
(* answers at once, and decides on the next packet.                        *)
HostTurn(h) ==
    LET answer == IF h.at = "tohost" /\ h.old = Read
                  THEN Append(h.pending, Reply) ELSE h.pending
        rest   == IF h.at = "fromhost" /\ h.old = 0 THEN Tail(h.pending) ELSE answer
        exit   == h.exit \/ (h.at = "tohost" /\ h.old = Exit)
    IN  [h EXCEPT !.pending = rest, !.exit = exit,
                  !.at = CASE h.at = "tohost" /\ rest # <<>> -> "fromhost"
                           [] OTHER -> IF exit THEN "reset" ELSE "tohost"]

(* htif_isasim_t::tick_once: one packet of the host against the processor. *)
Tick(p) ==
    LET h == HostTurn(p.host)
    IN  IF ~p.run THEN p
        ELSE CASE h.at = "tohost" ->
                    [p EXCEPT !.tohost = 0, !.host = [h EXCEPT !.old = p.tohost]]
               [] h.at = "fromhost" ->
                    [p EXCEPT !.fromhost = IF p.fromhost = 0 THEN Head(h.pending) ELSE p.fromhost,
                              !.host = [h EXCEPT !.old = p.fromhost]]
               [] OTHER -> Reset([p EXCEPT !.host = h])

(* sim_t::step, once the processor has retired n instructions: every       *)
(* INTERLEAVE instructions the host gets a turn.                           *)
Stepped(p, n) ==
    IF p.step + n = Interleave THEN Tick([p EXCEPT !.step = 0])
    ELSE [p EXCEPT !.step = p.step + n]

(* The timer's interrupt becomes pending when count reaches compare.       *)
update_timer(p, n) ==
    [p EXCEPT !.count = (p.count + n) % Width,
              !.timer = p.timer \/ (p.count < p.compare /\ p.count + n >= p.compare)]

take_trap(p, epc) ==
    [p EXCEPT !.supervisor = TRUE, !.previous = p.supervisor, !.epc = epc]

(* What an instruction does to the processor. It completes with next the   *)
(* PC after it, or throws trap_t or serialize_t.                           *)
Done(p, next) == [p |-> p, throws |-> "none", next |-> next]
Trapped(p, pc) == [p |-> p, throws |-> "trap", next |-> pc]

(* processor_t::serialize: the first of two calls throws.                  *)
Serialized(p, pc, then) ==
    IF p.serialized THEN Done([then EXCEPT !.serialized = FALSE], pc + 1)
    ELSE [p |-> [p EXCEPT !.serialized = TRUE], throws |-> "serialize", next |-> pc]

(* CSR instructions read, then write. Reading tohost or fromhost gives the *)
(* host a turn, after which the processor is q; writing tohost is lost     *)
(* while the last command is pending.                                      *)
Command(q, v) == IF q.tohost = 0 THEN [q EXCEPT !.tohost = v] ELSE q
CsrInsn(p, q, pc, op) ==
    IF ~p.supervisor /\ op # "count" THEN Trapped(p, pc)       \* validate_csr
    ELSE CASE op = "count"    -> Serialized(p, pc, [p EXCEPT !.x = p.count])
           [] op = "compare"  -> Serialized(p, pc, [p EXCEPT !.compare = p.x, !.timer = FALSE])
           [] op = "tohost"   -> Done(Command(q, Read), pc + 1)
           [] op = "exit"     -> Done(Command(q, Exit), pc + 1)
           [] op = "fromhost" -> Done([q EXCEPT !.x = q.fromhost], pc + 1)
           [] op = "clear"    -> Done([q EXCEPT !.fromhost = 0], pc + 1)
           [] OTHER           -> Done([p EXCEPT !.supervisor = p.previous], p.epc)

execute_insn(p, pc, i) ==
    IF i.op \in Csr THEN CsrInsn(p, Tick(p), pc, i.op)
    ELSE IF i.op \in Traps THEN Trapped(p, pc)
    ELSE Done(IF i.op = "add" THEN [p EXCEPT !.x = (p.x + 1) % Width] ELSE p,
              IF i.op = "jump" \/ (i.op = "branch" /\ p.x % 2 = 0) THEN i.target ELSE pc + 1)

(* What the checker compares (check_state, and the destination).           *)
Checked(p) == [x |-> p.x, tohost |-> p.tohost, fromhost |-> p.fromhost, count |-> p.count,
               sr |-> <<p.supervisor, p.previous, p.timer>>]
=============================================================================
