------------------------------ MODULE Pipeline ------------------------------
(***************************************************************************)
(* The pipeline from rename2 to retirement, a cycle at a time, in the      *)
(* order in which pipeline_t::step_micro() calls the stages: from the back *)
(* to the front, each lane of a stage by itself.                           *)
(*                                                                         *)
(* The components appear by what their own modules show of them. The       *)
(* active list is a sequence in program order and carries, for each        *)
(* instruction, its payload and the stage it is in; a squash cuts its      *)
(* tail, which is what branch masks select (Renamer, IssueQueue). A source *)
(* maps to its youngest older writer and a destination to any register     *)
(* that nothing holds (InOrderRename). The issue queue issues any ready    *)
(* instruction to a free lane (DispatchWindow). A load takes the value of  *)
(* the youngest older store that has executed, and an executing store      *)
(* finds the oldest younger load that executed before it (Lsu). Branch and *)
(* value predictions are arbitrary, so are misses of the data cache.       *)
(***************************************************************************)
EXTENDS Integers, Sequences, FiniteSets, SequencesExt

CONSTANTS
    Reg, Word, Handler,  \* see Isa
    Programs,            \* sequences of instructions
    Phys,                \* physical registers, 1..n
    RobSize, IqSize,     \* active list and issue queue
    Width,               \* of rename, dispatch and retirement
    Depth                \* [lane -> its execute stages]

ASSUME PipelineAssumption ==
    /\ {RobSize, IqSize, Width} \subseteq Nat \ {0}
    /\ Reg \subseteq Phys /\ Phys \subseteq Nat \ {0}
    /\ Cardinality(Phys) > Cardinality(Reg)
    /\ RobSize >= Width /\ IqSize >= Width
    /\ Depth \in Seq(Nat \ {0}) /\ Len(Depth) = 2

VARIABLES
    program,
    step,          \* the next part of the cycle: [stage, n]
    fetch_pc, fetch_active,
    window,        \* the instructions from DISPATCH to the active list's head
    prf, ready,    \* PRF and its ready bits
    amt,           \* the architectural map
    mem, csr, epc, \* architectural state outside the renamer
    serialized     \* processor_t::serialized

arch  == <<mem, csr, epc, serialized>>
regs  == <<prf, ready>>
fetch == <<fetch_pc, fetch_active>>
vars  == <<program, step, fetch, window, regs, amt, arch>>

ISA == INSTANCE Isa WITH
    pc   <- IF window # <<>> THEN window[1].pc ELSE fetch_pc,
    regs <- [r \in Reg |-> prf[amt[r]]]
-----------------------------------------------------------------------------
Lanes   == DOMAIN Depth
NoValue == -1
Insn(e) == program[e.pc]
Op(e)   == Insn(e).op
(* LaneOf is fu_lane_matrix with one lane per function unit: long-latency  *)
(* operations have the second lane. Traps of decode skip the issue queue.  *)
LaneOf(op) == IF op = "mul" THEN 2 ELSE 1
IsMem(op)  == op \in {"load", "store"}
Serial(op) == op \in {"amo", "csr", "sret"}
Eligible(i) == i.rd # 0 /\ i.op \in {"alu", "mul", "load"}

(* The parts of a cycle, back to front.                                    *)
Lane(n) ==
    LET Part(s) == [stage |-> s, n |-> n]
    IN  IF Depth[n] = 1 THEN <<Part("execute")>> ELSE <<Part("execute"), Part("shift")>>
Cycle ==
    LET PerLane(s) == [n \in Lanes |-> [stage |-> s, n |-> n]]
        Wide(s)    == [n \in 1..Width |-> [stage |-> s, n |-> n]]
        One(s)     == <<[stage |-> s, n |-> 1]>>
    IN  Wide("retire") \o PerLane("writeback") \o One("load_replay")
        \o FlattenSeq([n \in Lanes |-> Lane(n)])
        \o PerLane("register_read") \o One("schedule") \o One("dispatch") \o Wide("rename2")
At(stage) == Cycle[step].stage = stage
N == Cycle[step].n
Advance  == step' = IF step = Len(Cycle) THEN 1 ELSE step + 1
NewCycle == step' = 1

In(stage) == {k \in DOMAIN window : window[k].where = stage}
Least(S)    == CHOOSE x \in S : \A y \in S : x <= y
Greatest(S) == CHOOSE x \in S : \A y \in S : x >= y
InLane(stage, lane, k) ==
    {j \in In(stage) : LaneOf(Op(window[j])) = lane /\ window[j].k = k}

Init ==
    /\ program \in Programs
    /\ step = 1
    /\ fetch_pc = 1 /\ fetch_active = TRUE
    /\ window = <<>>
    /\ prf = [p \in Phys |-> 0] /\ ready = [p \in Phys |-> TRUE]
    /\ amt = [r \in Reg |-> r]
    /\ mem = 0 /\ csr = 0 /\ epc = 1 /\ serialized = FALSE
-----------------------------------------------------------------------------
(* rename2: one instruction of the bundle, while DISPATCH takes bundles.   *)
MapOf(r) ==
    LET writers == {k \in DOMAIN window : Insn(window[k]).rd = r}
    IN  IF r = 0 THEN 0 ELSE IF writers = {} THEN amt[r] ELSE window[Greatest(writers)].phys
Free == Phys \ ({amt[r] : r \in Reg} \cup {window[k].phys : k \in DOMAIN window})

Renamed(i, next, vp) ==
    [pc |-> fetch_pc, next_pc |-> next, c_next_pc |-> 0,
     phys |-> IF i.rd = 0 THEN 0 ELSE Least(Free),
     a |-> MapOf(i.rs1), b |-> MapOf(i.rs2), vp |-> vp,
     where |-> "dispatch", k |-> 0, wait |-> {}, A |-> 0, B |-> 0, C |-> 0,
     exception |-> FALSE, load_viol |-> FALSE, val_misp |-> FALSE]

Rename2 ==
    LET i == program[fetch_pc]
    IN  /\ At("rename2") /\ fetch_active
        /\ Cardinality(In("dispatch")) = N - 1
        /\ i.rd # 0 => Free # {}
        /\ \E next \in IF i.op = "branch" THEN {ISA!Inc(fetch_pc), i.target} ELSE {ISA!Inc(fetch_pc)},
              vp \in {NoValue} \cup (IF Eligible(i) THEN ISA!Value ELSE {}) :
              /\ window' = Append(window, Renamed(i, next, vp))
              /\ fetch_pc' = next
        /\ fetch_active' = ~(Serial(i.op) \/ i.op = "trap")
        /\ Advance
        /\ UNCHANGED <<program, regs, amt, arch>>
(* The bundle ends: fetch supplies no more, a resource is missing, or the  *)
(* previous bundle is still in DISPATCH.                                   *)
RenameEnds ==
    /\ At("rename2")
    /\ NewCycle
    /\ UNCHANGED <<program, fetch, window, regs, amt, arch>>
-----------------------------------------------------------------------------
(* dispatch: the whole bundle or nothing. A predicted value is written and *)
(* its register is ready at once; any other destination becomes not ready. *)
(* Sources see what the instructions in front of them in the bundle did.   *)
ReadyAfter(k) ==  \* ready bits in front of the k-th instruction
    [p \in Phys |->
        LET writers == {j \in In("dispatch") : j < k /\ window[j].phys = p}
        IN  IF writers = {} THEN ready[p] ELSE window[Greatest(writers)].vp # NoValue]
Dispatched(k) ==
    IF Op(window[k]) = "trap"
    THEN [window[k] EXCEPT !.where = "done", !.exception = TRUE]
    ELSE [window[k] EXCEPT !.where = "iq",
             !.wait = {p \in {window[k].a, window[k].b} \ {0} : ~ReadyAfter(k)[p]}]
Dispatch ==
    /\ At("dispatch")
    /\ LET bundle == In("dispatch")
           room == /\ Len(window) <= RobSize
                   /\ Cardinality(bundle) + Cardinality(In("iq")) <= IqSize
       IN  IF room
           THEN /\ window' = [k \in DOMAIN window |->
                       IF k \in bundle THEN Dispatched(k) ELSE window[k]]
                /\ ready' = ReadyAfter(Len(window) + 1)
                /\ prf' = [p \in Phys |->
                       LET predicted == {k \in bundle : window[k].phys = p /\ window[k].vp # NoValue}
                       IN  IF predicted = {} THEN prf[p] ELSE window[Greatest(predicted)].vp]
           ELSE UNCHANGED <<window, regs>>
    /\ Advance
    /\ UNCHANGED <<program, fetch, amt, arch>>

(* schedule: every free lane gets one of the ready instructions it serves. *)
Schedule ==
    /\ At("schedule")
    /\ LET Ready(l) == {k \in In("iq") : LaneOf(Op(window[k])) = l /\ window[k].wait = {}}
       IN  \E issued \in SUBSET In("iq") :
              /\ issued \subseteq UNION {Ready(l) : l \in Lanes}
              /\ \A l \in Lanes : Cardinality(issued \cap Ready(l)) =
                    IF Ready(l) = {} \/ InLane("rr", l, 0) # {} THEN 0 ELSE 1
              /\ window' = [k \in DOMAIN window |->
                    IF k \in issued THEN [window[k] EXCEPT !.where = "rr"] ELSE window[k]]
    /\ Advance
    /\ UNCHANGED <<program, fetch, regs, amt, arch>>
-----------------------------------------------------------------------------
(* The result of instruction e will be there when its consumers read it:   *)
(* IQ.wakeup(), unless they had its predicted value already, and           *)
(* set_ready(). Loads and AMOs are not announced by the lane.              *)
Announces(e) == e.phys # 0 /\ Op(e) \notin {"load", "amo"}
Wakeup(w, e) ==
    IF e.phys = 0 \/ e.vp # NoValue THEN w
    ELSE [k \in DOMAIN w |-> [w[k] EXCEPT !.wait = @ \ {e.phys}]]
SetReady(e) == IF e.phys = 0 THEN ready ELSE [ready EXCEPT ![e.phys] = TRUE]

(* register_read: one stage before the last in a lane of depth one. *)
RegisterRead ==
    /\ At("register_read")
    /\ LET here == InLane("rr", N, 0)
           e == window[Least(here)]
           wakes == Announces(e) /\ Depth[N] = 1
           read == [e EXCEPT !.where = "ex", !.k = 1,
                       !.A = IF e.a = 0 THEN 0 ELSE prf[e.a],
                       !.B = IF e.b = 0 THEN 0 ELSE prf[e.b]]
           moved == [window EXCEPT ![Least(here)] = read]
       IN  IF here = {} THEN UNCHANGED <<window, ready>>
           ELSE /\ window' = IF wakes THEN Wakeup(moved, e) ELSE moved
                /\ ready' = IF wakes THEN SetReady(e) ELSE ready
    /\ Advance
    /\ UNCHANGED <<program, fetch, prf, amt, arch>>

(* What a load at position k reads: disambiguate().                        *)
LoadValue(k) ==
    LET stores == {j \in 1..(k - 1) : /\ Op(window[j]) = "store" /\ ~window[j].exception
                                      /\ window[j].where \in {"wb", "done"}}
    IN  IF stores = {} THEN mem ELSE window[Greatest(stores)].B

(* A result arrives: it is written, and compared with the prediction.      *)
Misp(e, v) == e.vp # NoValue /\ e.vp # v
Written(e, v) == IF e.phys = 0 THEN prf ELSE [prf EXCEPT ![e.phys] = v]

(* A load that hits (or whose address traps) has its value, wakes its      *)
(* consumers and goes on; one that misses leaves the lane and waits in the *)
(* load queue.                                                             *)
ExecuteLoad(k) ==
    LET e == window[k]
        v == IF ISA!BadAddress(e.A) THEN 0 ELSE LoadValue(k)
        loaded == [e EXCEPT !.where = "wb", !.C = v, !.exception = ISA!BadAddress(e.A),
                            !.val_misp = Misp(e, v)]
    IN  \/ /\ window' = Wakeup([window EXCEPT ![k] = loaded], e)
           /\ ready' = SetReady(e)
           /\ prf' = Written(e, v)
        \/ /\ ~ISA!BadAddress(e.A)
           /\ window' = [window EXCEPT ![k].where = "miss"]
           /\ UNCHANGED regs

(* ld_violation(): the oldest younger load that has its value.             *)
ExecuteStore(k) ==
    LET e == window[k]
        bad == ISA!BadAddress(e.A)
        early == {j \in (k + 1)..Len(window) :
                     /\ Op(window[j]) = "load" /\ ~window[j].exception
                     /\ window[j].where \in {"wb", "done"}}
        done == [window EXCEPT ![k] = [e EXCEPT !.where = "wb", !.exception = bad]]
    IN  /\ window' = IF bad \/ early = {} THEN done
                     ELSE [done EXCEPT ![Least(early)].load_viol = TRUE]
        /\ UNCHANGED regs

(* alu(): the results of AMO and CSR instructions are computed, and        *)
(* overwritten, when they retire.                                          *)
ExecuteAlu(k) ==
    LET e == window[k]
        v == ISA!Result(Op(e), e.A, e.B)
        next == IF Op(e) = "branch" /\ ISA!Taken(e.A) THEN Insn(e).target ELSE ISA!Inc(e.pc)
    IN  /\ window' = [window EXCEPT ![k] = [e EXCEPT !.where = "wb", !.C = v, !.c_next_pc = next,
                                                     !.val_misp = Misp(e, v)]]
        /\ prf' = Written(e, v)
        /\ UNCHANGED ready

(* execute: the last stage of the lane, then the stages in front of it:    *)
(* the instruction that enters the last stage announces its result.        *)
Execute ==
    /\ At("execute")
    /\ \E k \in InLane("ex", N, Depth[N]) :
          \/ Op(window[k]) = "load" /\ ExecuteLoad(k)
          \/ Op(window[k]) = "store" /\ ExecuteStore(k)
          \/ ~IsMem(Op(window[k])) /\ ExecuteAlu(k)
    /\ Advance
    /\ UNCHANGED <<program, fetch, amt, arch>>
ExecuteNothing ==
    /\ At("execute") /\ InLane("ex", N, Depth[N]) = {}
    /\ Advance
    /\ UNCHANGED <<program, fetch, window, regs, amt, arch>>

Shift ==
    /\ At("shift")
    /\ LET moved == [k \in DOMAIN window |->
                        IF /\ window[k].where = "ex" /\ LaneOf(Op(window[k])) = N
                           /\ window[k].k < Depth[N]
                        THEN [window[k] EXCEPT !.k = @ + 1] ELSE window[k]]
           last  == InLane("ex", N, Depth[N] - 1)
           e     == window[Least(last)]
           wakes == last # {} /\ Announces(e)
       IN  /\ window' = IF wakes THEN Wakeup(moved, e) ELSE moved
           /\ ready' = IF wakes THEN SetReady(e) ELSE ready
    /\ Advance
    /\ UNCHANGED <<program, fetch, prf, amt, arch>>

(* load_replay: the oldest waiting load that can have its value now.       *)
LoadReplay ==
    /\ At("load_replay")
    /\ \E k \in In("miss") :
          LET e == window[k]
              v == LoadValue(k)
              loaded == [e EXCEPT !.where = "done", !.C = v, !.val_misp = Misp(e, v)]
          IN  /\ window' = Wakeup([window EXCEPT ![k] = loaded], e)
              /\ ready' = SetReady(e)
              /\ prf' = Written(e, v)
    /\ Advance
    /\ UNCHANGED <<program, fetch, amt, arch>>
StillMissing ==
    /\ At("load_replay")
    /\ Advance
    /\ UNCHANGED <<program, fetch, window, regs, amt, arch>>

(* writeback: instructions complete; a mispredicted branch takes           *)
(* everything behind it out of the pipeline and redirects fetch.           *)
Writeback ==
    /\ At("writeback")
    /\ LET here == InLane("wb", N, Depth[N])
           k == Least(here)
           done == [window EXCEPT ![k].where = "done"]
           misp == Op(window[k]) = "branch" /\ window[k].next_pc # window[k].c_next_pc
       IN  IF here = {} THEN UNCHANGED <<window, fetch>>
           ELSE IF misp
           THEN /\ window' = SubSeq(done, 1, k)
                /\ fetch_pc' = window[k].c_next_pc
                /\ fetch_active' = TRUE
           ELSE window' = done /\ UNCHANGED fetch
    /\ Advance
    /\ UNCHANGED <<program, regs, amt, arch>>
-----------------------------------------------------------------------------
(* retire: the completed instruction at the head of the active list.       *)
Completed == window # <<>> /\ window[1].where = "done"
h == window[1]
(* AMO and CSR instructions execute now, if nothing was wrong before.      *)
AmoTraps == Op(h) = "amo" /\ ISA!BadAddress(h.A)
CsrRefetch_Always == Op(h) = "csr"  \* seeded fault: serialized is not kept
CsrRefetch == Op(h) = "csr" /\ ~serialized
Fails == h.exception \/ AmoTraps \/ CsrRefetch

(* A load that read too early is fetched again, whatever its value is.     *)
ReadEarly_Predicted(e) == e.load_viol /\ ~e.val_misp  \* seeded fault
ReadEarly(e) == e.load_viol

Committed == IF h.phys = 0 THEN amt ELSE [amt EXCEPT ![Insn(h).rd] = h.phys]
Restart(p) == fetch_pc' = p /\ fetch_active' = TRUE
SquashComplete(p) == window' = <<>> /\ Restart(p)

RetireSerial ==
    /\ At("retire") /\ Completed /\ ~Fails /\ Serial(Op(h))
    /\ prf' = IF Op(h) = "amo" THEN Written(h, mem)
              ELSE IF Op(h) = "csr" THEN Written(h, csr) ELSE prf
    /\ ready' = SetReady(h)
    /\ mem' = IF Op(h) = "amo" THEN ISA!Store("amo", mem, h.B) ELSE mem
    /\ csr' = IF Op(h) = "csr" THEN h.A ELSE csr
    /\ serialized' = (serialized /\ Op(h) # "csr")
    /\ amt' = Committed
    /\ window' = Tail(window)
    /\ Restart(IF Op(h) = "sret" THEN epc ELSE ISA!Inc(h.pc))
    /\ Advance
    /\ UNCHANGED <<program, epc>>

RetireNormal ==
    /\ At("retire") /\ Completed /\ ~Fails /\ ~Serial(Op(h)) /\ ~ReadEarly(h)
    /\ amt' = Committed
    /\ mem' = IF Op(h) = "store" THEN ISA!Store("store", mem, h.B) ELSE mem
    /\ IF h.val_misp THEN SquashComplete(ISA!Inc(h.pc))
       ELSE window' = Tail(window) /\ UNCHANGED fetch
    /\ Advance
    /\ UNCHANGED <<program, regs, csr, epc, serialized>>

RetireViolation ==
    /\ At("retire") /\ Completed /\ ~Fails /\ ReadEarly(h)
    /\ SquashComplete(h.pc)
    /\ Advance
    /\ UNCHANGED <<program, regs, amt, arch>>

(* An exception squashes its instruction, too. A CSR access that throws    *)
(* serialize_t is fetched again, and executes the second time.             *)
RetireException ==
    /\ At("retire") /\ Completed /\ Fails
    /\ IF ~h.exception /\ CsrRefetch
       THEN SquashComplete(h.pc) /\ serialized' = TRUE /\ UNCHANGED epc
       ELSE SquashComplete(Handler) /\ epc' = h.pc /\ UNCHANGED serialized
    /\ Advance
    /\ UNCHANGED <<program, regs, amt, mem, csr>>

RetireNothing ==
    /\ At("retire") /\ ~Completed
    /\ Advance
    /\ UNCHANGED <<program, fetch, window, regs, amt, arch>>

Retire == RetireSerial \/ RetireNormal \/ RetireViolation \/ RetireException
Next ==
    \/ Retire \/ RetireNothing \/ Writeback \/ LoadReplay \/ StillMissing
    \/ Execute \/ ExecuteNothing \/ Shift \/ RegisterRead
    \/ Schedule \/ Dispatch \/ Rename2 \/ RenameEnds

(* Cycles go on; the front end delivers instructions to a DISPATCH stage   *)
(* that keeps becoming free, and misses are served.                        *)
Fairness == WF_vars(Next) /\ SF_vars(Rename2) /\ SF_vars(LoadReplay)
Spec == Init /\ [][Next]_vars /\ Fairness
-----------------------------------------------------------------------------
(* Retired instructions take effect one after another, as in the           *)
(* functional simulator, through branch and value mispredictions, load     *)
(* violations, traps and refetched CSR accesses.                           *)
ImplementsIsa == ISA!Spec

(* Instructions keep retiring: a squash for a violation, a misprediction   *)
(* or a refetched CSR access does not repeat for ever.                     *)
KeepsRetiring == []<><<RetireSerial \/ RetireNormal \/ (RetireException /\ epc' # epc)>>_vars
=============================================================================
