------------------------------- MODULE Checker -------------------------------
(***************************************************************************)
(* The pipeline checked against the functional simulator (uarchsim/        *)
(* debug.cc, debug.h, checker.cc, payload.cc, and the loop of retire.cc    *)
(* and pipeline.cc around it).                                             *)
(*                                                                         *)
(* The functional simulator runs ahead and leaves what each instruction    *)
(* did in the debug buffer, a ring. When an instruction is fetched, the    *)
(* payload buffer links it to its entry of the ring, as long as fetch is   *)
(* on the path the functional simulator took. When it retires, the checker *)
(* pops its entry and compares. Both simulators tick their host every      *)
(* INTERLEAVE instructions, and what the host does has to agree too.       *)
(*                                                                         *)
(* Between FETCH1 and retirement an instruction is only its place in the   *)
(* payload buffer: what it computes is right when it retires (see          *)
(* Pipeline), unless its fate is to be squashed for a memory order         *)
(* violation or behind a wrong value.                                      *)
(***************************************************************************)
EXTENDS Processor

CONSTANTS
    DebugSize,    \* DEBUG_SIZE (PIPE_QUEUE_SIZE): entries of the ring
    PaySize,      \* instructions in flight
    RetireWidth,  \* RETIRE_WIDTH
    Programs      \* the programs to run, sequences of instructions

CheckerAssumption ==
    /\ DebugSize \in Nat \ {0} /\ PaySize \in 1..(DebugSize - 1)
    /\ RetireWidth \in Nat \ {0} /\ Interleave \in Nat \ {0} /\ Width \in Nat \ {0}
    /\ Programs \subseteq Seq([op : Op, target : Nat])
    /\ \A p \in Programs : Handler \in DOMAIN p

VARIABLES
    program, perfect,   \* what runs; whether branches are predicted perfectly
    isa,                \* the functional simulator's processor
    db, head, length,   \* the debug buffer; its tail is head + length - 1
    micro,              \* the pipeline's processor
    pay, fpc, stalled,  \* instructions in flight, and where fetch goes on
    stage, lane, instret, limit,    \* the pipeline's cycle
    agreed              \* no check has failed yet

ring == <<isa, db, head, length>>
front == <<pay, fpc, stalled>>
cycle == <<stage, lane, instret, limit>>
vars == <<program, perfect, ring, micro, front, cycle, agreed>>
-----------------------------------------------------------------------------
Slot    == 0..(DebugSize - 1)
Invalid == DebugSize                \* DEBUG_INDEX_INVALID
Nowhere == [op |-> "fault", target |-> 1]
Insn(pc) == IF pc \in DOMAIN program THEN program[pc] ELSE Nowhere
Stops(pc) == pc \notin DOMAIN program \/ Insn(pc).op \in Csr \cup {"scall"}

(* One step of the functional simulator: the processor after it and the    *)
(* entry it pushes.                                                        *)
Logged(pc, q, next, exception) ==
    [p |-> Stepped([update_timer(q, 1) EXCEPT !.pc = next], 1),
     entry |-> [pc |-> pc, next |-> next, exception |-> exception, state |-> Checked(q)]]
Completed(pc, r) ==
    IF r.throws = "trap" THEN Logged(pc, take_trap(r.p, pc), Handler, TRUE)
    ELSE Logged(pc, r.p, r.next, FALSE)
IsaStep(p) == Completed(p.pc, execute_insn(p, p.pc, Insn(p.pc)))

(* While the buffer is hungry and the program runs, step and push. *)
Hungry(s) == s.length < DebugSize /\ s.isa.run
Push(s, step) ==
    [s EXCEPT !.isa = step.p, !.length = s.length + 1,
              !.db[(s.head + s.length) % DebugSize] = step.entry]
Filled(s) ==
    LET fill[n \in 0..DebugSize] ==
            IF n = 0 THEN s
            ELSE IF Hungry(fill[n - 1]) THEN Push(fill[n - 1], IsaStep(fill[n - 1].isa))
            ELSE fill[n - 1]
    IN  fill[DebugSize]
Ring == [isa |-> isa, db |-> db, head |-> head, length |-> length]
SetRing(s) == isa' = s.isa /\ db' = s.db /\ head' = s.head /\ length' = s.length

is_active(e) == (e + DebugSize - head) % DebugSize < length

Released(s) == [s EXCEPT !.head = (s.head + 1) % DebugSize, !.length = s.length - 1]
(* Seeded fault: the entry is released first, and filling overwrites it. *)
Popped_ReleaseFirst == Filled(Released(Ring))
(* pop fills the buffer before it releases the entry at its head. *)
Popped == Released(Filled(Ring))

check_next(e, pc) ==
    LET n == (e + 1) % DebugSize
    IN  IF is_active(n) /\ db[n].pc = pc THEN n ELSE Invalid

(* Seeded fault: fetch that left the path finds it again by its PC alone. *)
map_to_actual_AnyPrev(pc) ==
    IF pay = <<>> THEN head
    ELSE check_next((head + Len(pay) - 1) % DebugSize, pc)
(* payload::map_to_actual: the entry of an instruction that is fetched. *)
map_to_actual(pc) ==
    IF pay = <<>> THEN head
    ELSE LET prev == pay[Len(pay)].entry
         IN  IF prev = Invalid THEN Invalid ELSE check_next(prev, pc)

(* Where fetch goes after the instruction at pc: perfect prediction looks  *)
(* its entry up (payload::predict) and predicts a branch off the path not  *)
(* taken.                                                                  *)
Predicted(pc, entry) ==
    CASE Insn(pc).op = "jump"   -> {Insn(pc).target}
      [] Insn(pc).op = "branch" ->
            IF ~perfect THEN {Insn(pc).target, pc + 1}
            ELSE {IF entry = Invalid THEN pc + 1 ELSE db[entry].next}
      [] OTHER -> {pc + 1}

(* The retire bundle ends at a host tick and at a timer interrupt. *)
NextTimer(p) == IF p.compare < p.count THEN Width ELSE p.compare - p.count
Limit(p) == LET t == NextTimer(p)
                odd == t + 1 - (t % 2)
            IN  IF odd < Interleave - p.step THEN odd ELSE Interleave - p.step
-----------------------------------------------------------------------------
(* main: boot, run_ahead, boot. *)
Nothing == [pc |-> 0, next |-> 0, exception |-> FALSE, state |-> Checked(Boot)]
Init ==
    /\ program \in Programs /\ perfect \in BOOLEAN
    /\ \E s \in {Filled([isa |-> Boot, db |-> [e \in Slot |-> Nothing], head |-> 0, length |-> 0])} :
            isa = s.isa /\ db = s.db /\ head = s.head /\ length = s.length
    /\ micro = Boot
    /\ pay = <<>> /\ fpc = 1 /\ stalled = FALSE
    /\ stage = "retire" /\ lane = 0 /\ instret = 0 /\ limit = Limit(Boot)
    /\ agreed = TRUE

(* FETCH1 pushes an instruction. *)
Fetch ==
    /\ stage = "rest" /\ ~stalled /\ Len(pay) < PaySize
    /\ LET entry == map_to_actual(fpc)
           halves == IF Insn(fpc).op = "store" THEN 2 ELSE 1
       IN  /\ \E fate \in IF Insn(fpc).op = "add" THEN {"fine", "violation", "value"} ELSE {"fine"} :
                  pay' = Append(pay, [pc |-> fpc, entry |-> entry, halves |-> halves,
                                      resolved |-> Insn(fpc).op # "branch", fate |-> fate])
           /\ fpc' \in Predicted(fpc, entry)
    /\ stalled' = Stops(fpc)
    /\ UNCHANGED <<program, perfect, ring, micro, cycle, agreed>>

(* Writeback of a branch. It goes the right way if what it depends on is   *)
(* right, and rolls fetch back if it goes another way than predicted.      *)
Resolve(k) ==
    /\ stage = "rest" /\ ~pay[k].resolved
    /\ \E next \in {Insn(pay[k].pc).target, pay[k].pc + 1} :
        /\ pay[k].entry # Invalid /\ (\A j \in 1..(k - 1) : pay[j].fate = "fine")
              => next = db[pay[k].entry].next
        /\ IF next = (IF k < Len(pay) THEN pay[k + 1].pc ELSE fpc)
           THEN pay' = [pay EXCEPT ![k].resolved = TRUE] /\ UNCHANGED <<fpc, stalled>>
           ELSE /\ pay' = [SubSeq(pay, 1, k) EXCEPT ![k].resolved = TRUE]
                /\ fpc' = next /\ stalled' = FALSE
    /\ UNCHANGED <<program, perfect, ring, micro, cycle, agreed>>

u == Head(pay)
Executed == execute_insn(micro, u.pc, Insn(u.pc))
Retirable == stage = "retire" /\ micro.run /\ lane < RetireWidth /\ instret < limit
             /\ pay # <<>> /\ u.resolved
Squash(pc) == pay' = <<>> /\ fpc' = pc /\ stalled' = FALSE
Retired(p) == micro' = update_timer(p, 1) /\ instret' = instret + 1

(* pipeline_t::checker for an instruction after which the processor is p:  *)
(* entry is what the ring holds at its index once the checker looks.       *)
Agrees(p, entry, exception) ==
    /\ u.entry # Invalid
    /\ entry.pc = u.pc /\ entry.state = Checked(p)
    /\ entry.exception = exception
checker(p, exception) ==
    /\ SetRing(Popped)
    /\ agreed' = (/\ agreed /\ u.entry = head /\ length > 0
                  /\ u.entry # Invalid /\ Agrees(p, Popped.db[u.entry], exception))
checkerUpper(p) ==
    /\ agreed' = (agreed /\ u.entry # Invalid /\ is_active(u.entry) /\ Agrees(p, db[u.entry], FALSE))
    /\ UNCHANGED ring

(* An exception: take the trap, or refetch an instruction that serializes. *)
RetireException ==
    /\ Executed.throws # "none"
    /\ LET p == IF Executed.throws = "trap" THEN take_trap(micro, u.pc) ELSE Executed.p
       IN  checker(p, Executed.throws = "trap") /\ Retired(p)
    /\ Squash(IF Executed.throws = "trap" THEN Handler ELSE u.pc)
(* A load that read too early is fetched again; nothing is checked. *)
RetireViolation ==
    /\ u.fate = "violation"
    /\ Squash(u.pc)
    /\ UNCHANGED <<ring, micro, instret, agreed>>
(* A system instruction, behind which fetch waited. *)
RetireSystem ==
    /\ Insn(u.pc).op \in Csr /\ Executed.throws = "none"
    /\ checker(Executed.p, FALSE) /\ Retired(Executed.p)
    /\ pay' = Tail(pay) /\ fpc' = Executed.next /\ stalled' = FALSE
(* The address half of a store only looks at the entry. *)
RetireUpper ==
    /\ u.halves = 2
    /\ checkerUpper(micro)
    /\ pay' = [pay EXCEPT ![1].halves = 1]
    /\ UNCHANGED <<micro, instret, fpc, stalled>>
RetirePlain ==
    /\ Insn(u.pc).op \notin Csr /\ Executed.throws = "none"
    /\ u.halves = 1 /\ u.fate # "violation"
    /\ checker(Executed.p, FALSE) /\ Retired(Executed.p)
    /\ IF u.fate = "value" THEN Squash(u.pc + 1)
       ELSE pay' = Tail(pay) /\ UNCHANGED <<fpc, stalled>>

Retire ==
    /\ Retirable
    /\ RetireException \/ RetireViolation \/ RetireSystem \/ RetireUpper \/ RetirePlain
    /\ lane' = lane + 1
    /\ UNCHANGED <<program, perfect, stage, limit>>

(* The rest of the cycle, and its end: the host's turn, if it is due. *)
Rest ==
    /\ stage = "retire" /\ micro.run
    /\ stage' = "rest"
    /\ UNCHANGED <<program, perfect, ring, micro, front, lane, instret, limit, agreed>>
EndCycle ==
    /\ stage = "rest"
    /\ stage' = "retire" /\ lane' = 0 /\ instret' = 0
    /\ micro' = Stepped(micro, instret) /\ limit' = Limit(micro')
    /\ UNCHANGED <<program, perfect, ring, front, agreed>>

Next == Fetch \/ Retire \/ Rest \/ EndCycle \/ \E k \in DOMAIN pay : Resolve(k)
Spec == Init /\ [][Next]_vars
-----------------------------------------------------------------------------
(* No check ever fails: the instruction that retires finds the entry of    *)
(* its own execution at the head of the ring, past refetched instructions, *)
(* squashes, traps and loops, and the two hosts have acted at the same     *)
(* instructions (the assertions of checker.cc and debug.h).                *)
CheckerAgrees == agreed

(* The linked instructions are the oldest ones, each at the entry that     *)
(* follows its elder's, so the path they are on is the one the functional  *)
(* simulator took; and an instruction that is not linked is really off     *)
(* that path (payload::map_to_actual), or past the program's last one.     *)
(* With none in flight, the next one is the one at the head of the ring.   *)
LinksExact ==
    /\ pay = <<>> /\ length > 0 => fpc = db[head].pc
    /\ \A k \in DOMAIN pay :
        LET elder == pay[k - 1]
        IN  IF k = 1 THEN pay[k].entry = head \/ (~isa.run /\ length = 0)
            ELSE IF pay[k].entry # Invalid
                 THEN /\ elder.entry # Invalid /\ k <= length
                      /\ pay[k].entry = (head + k - 1) % DebugSize
                      /\ db[elder.entry].next = pay[k].pc
            ELSE \/ elder.entry = Invalid
                 \/ db[elder.entry].next # pay[k].pc
                 \/ ~isa.run /\ k > length

(* With perfect prediction only an exception, a serializing instruction or *)
(* a squash to come takes fetch off the path (payload::predict).           *)
PerfectPath ==
    perfect => \A k \in DOMAIN pay : pay[k].entry = Invalid =>
        \/ \E j \in 1..(k - 1) : \/ pay[j].fate # "fine"
                                 \/ Insn(pay[j].pc).op \in Traps
        \/ ~isa.run
=============================================================================
