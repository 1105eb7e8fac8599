--------------------------------- MODULE Btb ---------------------------------
(***************************************************************************)
(* How FETCH1 forms a bundle (btb.cc, tc.cc): the branch target buffer     *)
(* says which instructions are branches, of which type and where to, and   *)
(* the predictions say which of them are taken. FETCH2 has the             *)
(* instructions themselves (fetchunit_t::fetch2): if the buffer was wrong  *)
(* it is trained and the bundle predicted again. The code may change (the  *)
(* program stores to it, or FETCH1 has strayed into data).                 *)
(*                                                                         *)
(* An address is an instruction's, in a memory that wraps around. A bank   *)
(* has one set: its entries, the most recently used first, are the lru     *)
(* counters of the code. Predictions and predicted targets are choices.    *)
(***************************************************************************)
EXTENDS Integers, Sequences, SequencesExt

CONSTANTS
    Size,           \* instructions of memory
    banks, assoc,   \* of the buffer; a bundle has at most banks instructions
    max_cb,         \* conditional branches of a bundle
    Codes,          \* what memory may hold: [Addr -> [op, target]]
    TcEnable        \* whether there may be a trace cache

Addr == 0..(Size - 1)

BtbAssumption ==
    /\ {banks, assoc, max_cb} \subseteq Nat \ {0} /\ Size \in Nat \ {0} /\ Size % banks = 0
    /\ TcEnable \subseteq BOOLEAN
    /\ \A c \in Codes : \A a \in Addr : c[a].target \in Addr

VARIABLES
    btb,        \* the banks of the buffer
    code, pc,
    tc_enable,
    fetch2,     \* the bundle in FETCH2, and what was intended with it
    retries     \* bookkeeping: so often this bundle has been misfetched

vars == <<btb, code, pc, tc_enable, fetch2, retries>>

INCREMENT_PC(a) == (a + 1) % Size
-----------------------------------------------------------------------------
(* btb_t::decode(): the branches, by what they do to the stack of return   *)
(* addresses; an indirect branch has no target of its own.                 *)
Direct == {"cond", "jal", "call"}
Indirect == {"jalr", "icall", "ret"}
IsBranch(i) == i.op \in Direct \cup Indirect

(* convert() and search(): the entry of address a, and of its bank. *)
Bank(a) == a % banks
Tag(a) == a \div banks
Matches(e, a) == e.valid /\ e.tag = Tag(a)
Search(b, a) == SelectSeq(b[Bank(a)], LAMBDA e : Matches(e, a))
Others(b, a) == SelectSeq(b[Bank(a)], LAMBDA e : ~Matches(e, a))

(* The entry of a becomes the most recently used; without one, the least   *)
(* recently used entry is replaced (update), or nothing changes (lookup).  *)
Touch(b, a) == [b EXCEPT ![Bank(a)] = Search(b, a) \o Others(b, a)]
update(b, a, i) ==
    LET e == [valid |-> TRUE, tag |-> Tag(a), op |-> i.op,
              target |-> IF i.op \in Direct THEN i.target ELSE 0]
        rest == IF Search(b, a) # <<>> THEN Others(b, a) ELSE Front(b[Bank(a)])
    IN  [b EXCEPT ![Bank(a)] = <<e>> \o rest]
invalidate(b, a) == [b EXCEPT ![Bank(a)] = Others(b, a) \o <<[Head(Search(b, a)) EXCEPT !.valid = FALSE]>>]

(* Where a branch of this kind goes next; p: the predictions. *)
NextPc(a, op, target, p, n) ==
    CASE op = "cond" -> IF p.cb[n + 1] THEN target ELSE INCREMENT_PC(a)
      [] op \in {"jal", "call"} -> target
      [] op \in {"jalr", "icall"} -> p.ib
      [] op = "ret" -> p.ras
      [] OTHER -> INCREMENT_PC(a)

(* btb_t::lookup(): instruction by instruction, until a branch is taken,   *)
(* the predictions are used up, or an instruction cannot be fetched.       *)
Slot(s, pos, p) ==
    LET a == (p.pc + pos) % Size
        found == Search(s.btb, a)
        op == IF found = <<>> THEN "other" ELSE Head(found).op
        target == IF found = <<>> THEN 0 ELSE Head(found).target
        next == NextPc(a, op, target, p, s.n)
        n == IF op = "cond" THEN s.n + 1 ELSE s.n
    IN  IF s.done THEN s
        ELSE [btb |-> Touch(s.btb, a), n |-> n,
              done |-> \/ op \in {"jal", "call"} \cup Indirect
                       \/ op = "cond" /\ (p.cb[s.n + 1] \/ n = max_cb)
                       \/ code[a].op = "trap",
              bundle |-> Append(s.bundle, [pc |-> a, insn |-> code[a], op |-> op,
                                           taken |-> op = "cond" /\ p.cb[s.n + 1],
                                           target |-> target, next |-> next])]
lookup(p) == FoldLeft(LAMBDA s, k : Slot(s, k - 1, p),
                      [btb |-> btb, n |-> 0, done |-> FALSE, bundle |-> <<>>],
                      [k \in 1..banks |-> k])

(* tc_t::lookup(): the trace that the instructions themselves make of the  *)
(* predictions. It goes on behind taken branches and jumps.                *)
TraceSlot(s, p) ==
    LET i == code[s.pc]
        next == NextPc(s.pc, i.op, i.target, p, s.n)
        n == IF i.op = "cond" THEN s.n + 1 ELSE s.n
    IN  IF s.done THEN s
        ELSE [pc |-> next, n |-> n,
              done |-> i.op \in {"call", "trap"} \cup Indirect \/ (i.op = "cond" /\ n = max_cb),
              bundle |-> Append(s.bundle, [pc |-> s.pc, insn |-> i, next |-> next,
                                           taken |-> i.op = "cond" /\ p.cb[s.n + 1],
                                           op |-> IF IsBranch(i) THEN i.op ELSE "other",
                                           target |-> IF i.op \in Direct THEN i.target ELSE 0])]
Trace(p) == FoldLeft(LAMBDA s, k : TraceSlot(s, p),
                     [pc |-> p.pc, n |-> 0, done |-> FALSE, bundle |-> <<>>],
                     [k \in 1..banks |-> k]).bundle
-----------------------------------------------------------------------------
NoBundle == [valid |-> FALSE]

Init ==
    /\ btb = [b \in 0..(banks - 1) |->
                [w \in 1..assoc |-> [valid |-> FALSE, tag |-> 0, op |-> "cond", target |-> 0]]]
    /\ code \in Codes /\ pc = 0 /\ tc_enable \in TcEnable
    /\ fetch2 = NoBundle /\ retries = 0

Fetch1 == \E cb \in [1..max_cb -> BOOLEAN], ib, ras \in Addr :
    LET p == [pc |-> pc, cb |-> cb, ib |-> ib, ras |-> ras]
        b == IF tc_enable THEN [btb |-> btb, bundle |-> Trace(p)] ELSE lookup(p)
    IN  /\ ~fetch2.valid
        /\ btb' = b.btb
        /\ fetch2' = [valid |-> TRUE, tc_hit |-> tc_enable, bundle |-> b.bundle,
                      intended |-> Trace(p)]
        /\ pc' = Last(b.bundle).next
        /\ UNCHANGED <<code, tc_enable, retries>>

(* FETCH2 sees a bundle up to its first serializing instruction. Seeded    *)
(* fault: a target that has changed is not noticed.                        *)
Seen(b) == LET stops == {k \in DOMAIN b : b[k].insn.op = "serial"}
           IN  IF stops = {} THEN b ELSE SubSeq(b, 1, CHOOSE k \in stops : \A j \in stops : k <= j)
Wrong_TypeOnly(s) == IF IsBranch(s.insn) THEN s.op # s.insn.op ELSE s.op # "other"
Wrong(s) == IF IsBranch(s.insn)
            THEN s.op # s.insn.op \/ (s.insn.op \in Direct /\ s.target # s.insn.target)
            ELSE s.op # "other"
Misfetched(f) == ~f.tc_hit /\ \E k \in DOMAIN Seen(f.bundle) : Wrong(f.bundle[k])

Train(b, s) == IF ~Wrong(s) THEN b
               ELSE IF IsBranch(s.insn) THEN update(b, s.pc, s.insn) ELSE invalidate(b, s.pc)
(* The code has not changed since FETCH1 read it. *)
Current(b) == \A k \in DOMAIN b : b[k].insn = code[b[k].pc]
Fetch2 ==
    /\ fetch2.valid /\ fetch2' = NoBundle
    /\ IF Misfetched(fetch2)
       THEN /\ btb' = FoldLeft(Train, btb, Seen(fetch2.bundle))
            /\ pc' = fetch2.bundle[1].pc
            /\ retries' = IF Current(fetch2.bundle) THEN retries + 1 ELSE 0
       ELSE retries' = 0 /\ UNCHANGED <<btb, pc>>
    /\ UNCHANGED <<code, tc_enable>>

(* A mispredicted branch or a squash; the program changes its code. *)
Redirect ==
    /\ pc' \in Addr /\ fetch2' = NoBundle /\ retries' = 0 /\ UNCHANGED <<btb, code, tc_enable>>
Modify ==
    /\ code' \in Codes \ {code} /\ retries' = 0 /\ UNCHANGED <<btb, pc, tc_enable, fetch2>>

Next == Fetch1 \/ Fetch2 \/ Redirect \/ Modify
Spec == Init /\ [][Next]_vars
-----------------------------------------------------------------------------
(* A bundle that FETCH2 lets pass is the intended one: the instructions'   *)
(* own trace under the same predictions, up to its first branch taken,     *)
(* whatever code the buffer was trained with. A bundle that does not pass  *)
(* does so after at most one retry for each of its instructions: no entry  *)
(* that it trains displaces another of its own. And an entry that FETCH2   *)
(* invalidates is still there (the assertion of btb_t::invalidate).        *)
Sequential(t) ==
    LET ends == {k \in DOMAIN t : t[k].taken \/ t[k].op \in {"jal", "call"} \cup Indirect}
    IN  IF ends = {} THEN t ELSE SubSeq(t, 1, CHOOSE k \in ends : \A j \in ends : k <= j)
BundleExact ==
    /\ fetch2.valid /\ ~fetch2.tc_hit /\ ~Misfetched(fetch2) =>
           Seen(fetch2.bundle) = Seen(Sequential(fetch2.intended))
    /\ retries <= banks
    /\ fetch2.valid /\ ~fetch2.tc_hit =>
           \A k \in DOMAIN Seen(fetch2.bundle) :
               LET s == fetch2.bundle[k]
               IN  Wrong(s) /\ ~IsBranch(s.insn) => Search(btb, s.pc) # <<>>
=============================================================================
