------------------------------ MODULE FetchUnit ------------------------------
(***************************************************************************)
(* The fetch unit (fetchunit.cc): the stages FETCH1 and FETCH2, the branch *)
(* queue (bq.cc), the global branch history of gshare (gshare.cc), the     *)
(* return address stack with its undo log (ras.cc), and how they recover   *)
(* from a misfetched bundle, a mispredicted branch and a full squash.      *)
(*                                                                         *)
(* A bundle is the sequence of its branches, serializing instructions (AMO *)
(* and SYSTEM) and instructions with a fetch exception: the others leave   *)
(* the unit alone. PCs are data, except the return addresses that calls    *)
(* push. A miss of the instruction cache only delays FETCH1.               *)
(*                                                                         *)
(* window is the pipeline from DECODE to the active list, as far as the    *)
(* unit cares: each instruction with its pred_tag. dropped and base are    *)
(* history variables: what FETCH2 threw away behind a serializing          *)
(* instruction, and the context in front of the oldest instruction.        *)
(***************************************************************************)
EXTENDS Integers, Sequences, FiniteSets, SequencesExt

CONSTANTS
    BqSize,         \* entries of the branch queue and of the predictors' logs
    WindowSize,     \* instructions from DECODE to the active list
    FetchWidth,     \* instructions of a bundle
    CondPerCycle,   \* COND_BRANCH_PRED_PER_CYCLE
    BhrLen,         \* bits of the branch history
    RasSize,        \* RAS_SIZE
    RetAddr,        \* return addresses
    Programs,       \* sets of instruction kinds: a program has those of one
    Recovery        \* RAS_RECOVER_MODEL: "pointer", "content" or "walk"

(* AUTO_BQ_SIZE gives the queue an entry for each instruction in flight. *)
ASSUME FetchUnitAssumption ==
    /\ BqSize \in Nat \ {0} /\ WindowSize \in 1..BqSize
    /\ FetchWidth \in Nat \ {0} /\ CondPerCycle \in Nat \ {0}
    /\ BhrLen \in Nat \ {0} /\ RasSize \in Nat \ {0}
    /\ RetAddr \subseteq Nat
    /\ Programs \subseteq SUBSET {"cond", "jump", "call", "return", "serial", "except"}
    /\ Recovery \in {"pointer", "content", "walk"}

VARIABLES
    fetch_active, bhr, ras, tos,                  \* FETCH1 and the predictors
    fetch2,                                       \* the bundle in FETCH2
    bq_head, bq_tail, bq_head_phase, bq_tail_phase,
    log, ras_tail,                                \* bq[] and the three logs
    window, dropped, base,
    program             \* the kinds of instruction that occur

bq   == <<bq_head, bq_tail, bq_head_phase, bq_tail_phase>>
vars == <<fetch_active, bhr, ras, tos, fetch2, bq, log, ras_tail,
          window, dropped, base, program>>
-----------------------------------------------------------------------------
Slot == 0..(BqSize - 1)
Tos  == 0..(RasSize - 1)
History == [1..BhrLen -> BOOLEAN]

Branch == {"cond", "jump", "call", "return"}
Stop   == {"serial", "except"}      \* what turns FETCH1 idle
Insn   == [kind : {"cond"}, taken : BOOLEAN, ra : {0}]
            \cup [kind : {"call"}, taken : {TRUE}, ra : RetAddr]
            \cup [kind : {"jump", "return"}, taken : {TRUE}, ra : {0}]
            \cup [kind : Stop, taken : {FALSE}, ra : {0}]

IsBranch(i) == i.kind \in Branch
IsCond(i)   == i.kind = "cond"

(* How many of the first k instructions of b are branches, and how many of *)
(* those are conditional.                                                  *)
Branches(b, k) == Cardinality({j \in 1..k : IsBranch(b[j])})
Conds(b, k)    == Cardinality({j \in 1..k : IsCond(b[j])})

(* A bundle ends at a taken branch, at the last conditional branch that    *)
(* has a prediction and at a fetch exception.                              *)
Continues(b, k) == /\ ~b[k].taken
                   /\ b[k].kind # "except"
                   /\ Conds(b, k) < CondPerCycle
Bundles == {b \in UNION {[1..n -> Insn] : n \in 0..FetchWidth} :
               \A k \in 1..(Len(b) - 1) : Continues(b, k)}

NoBundle == [valid |-> FALSE, insns |-> <<>>, misfetch |-> FALSE,
             bhr |-> [k \in 1..BhrLen |-> FALSE], tos |-> 0, content |-> 0]
NoEntry  == [kind |-> "cond", taken |-> FALSE, cb |-> 0,
             precise |-> [k \in 1..BhrLen |-> FALSE],
             fetch   |-> [k \in 1..BhrLen |-> FALSE], tos |-> 0, content |-> 0]

Init ==
    /\ fetch_active = TRUE
    /\ bhr = [k \in 1..BhrLen |-> FALSE]
    /\ ras = [t \in Tos |-> 0] /\ tos = 0
    /\ fetch2 = NoBundle
    /\ bq_head = 0 /\ bq_tail = 0
    /\ bq_head_phase = FALSE /\ bq_tail_phase = FALSE
    /\ log = [s \in Slot |-> NoEntry] /\ ras_tail = 0
    /\ window = <<>> /\ dropped = <<>>
    /\ base = [bhr |-> [k \in 1..BhrLen |-> FALSE], tos |-> 0, stack |-> <<>>]
    /\ program \in Programs
-----------------------------------------------------------------------------
(* The history h, as each instruction of b leaves it. *)
update_bhr(h, taken) == Append(Tail(h), taken)
BhrAlong(h, b) ==
    LET H[k \in 0..Len(b)] ==
          IF k = 0 THEN h
          ELSE IF IsCond(b[k]) THEN update_bhr(H[k - 1], b[k].taken) ELSE H[k - 1]
    IN  H
BhrAfter(h, b) == BhrAlong(h, b)[Len(b)]

Up(t)   == (t + 1) % RasSize
Down(t) == (t + RasSize - 1) % RasSize

SlotAt(k)  == (bq_head + k) % BqSize
(* Seeded fault: the phase bit stays. *)
Phase_Stays(s, p)  == p
Succ(s)    == (s + 1) % BqSize
Phase(s, p) == IF s + 1 = BqSize THEN ~p ELSE p
BqEmpty    == bq_head = bq_tail /\ bq_head_phase = bq_tail_phase

(* What the instructions in front of a point have made of the context in   *)
(* front of the window: the reference for the predictors' state. Its stack *)
(* is the calls that have not returned, deepest first.                     *)
After(c, i) ==
    CASE i.kind = "cond"   -> [c EXCEPT !.bhr = update_bhr(@, i.taken)]
      [] i.kind = "call"   -> [c EXCEPT !.tos = Up(@), !.stack = Append(@, i.ra)]
      [] i.kind = "return" -> [c EXCEPT !.tos = Down(@),
                                   !.stack = IF @ = <<>> THEN @ ELSE Front(@)]
      [] OTHER -> c
Contexts(c, s) ==
    LET C[k \in 0..Len(s)] == IF k = 0 THEN c ELSE After(C[k - 1], s[k])
    IN  C
Insns == [k \in DOMAIN window |-> window[k].insn]
Path  == LET s == Insns \o fetch2.insns \o dropped IN Contexts(base, s)[Len(s)]
-----------------------------------------------------------------------------
(* btb_t::lookup() assembles bundle b; misfetch: its view of the branches  *)
(* will prove wrong in FETCH2. Each instruction remembers the prediction   *)
(* it was given: the history that indexed the table and the slot. Calls    *)
(* stay within the depth of the return address stack.                      *)
Predicted(b) == [k \in DOMAIN b |->
    [kind |-> b[k].kind, taken |-> b[k].taken, ra |-> b[k].ra,
     slot |-> Conds(b, k - 1), bhr |-> bhr]]

End(b) == IF b = <<>> THEN "plain" ELSE Last(b).kind
SpecUpdate(b) ==
    /\ bhr' = BhrAfter(bhr, b)
    /\ \/ /\ End(b) = "call"
          /\ Len(Path.stack) < RasSize
          /\ tos' = Up(tos)
          /\ ras' = [ras EXCEPT ![Up(tos)] = Last(b).ra]
       \/ /\ End(b) = "return"
          /\ tos' = Down(tos)
          /\ UNCHANGED ras
       \/ /\ End(b) \notin {"call", "return"}
          /\ UNCHANGED <<tos, ras>>

Fetch1 == \E b \in Bundles, misfetch \in BOOLEAN :
    /\ fetch_active /\ ~fetch2.valid
    /\ \A k \in DOMAIN b : b[k].kind \in program
    /\ fetch2' = [valid |-> TRUE, insns |-> Predicted(b), misfetch |-> misfetch,
                  bhr |-> bhr, tos |-> tos, content |-> ras[tos]]
    /\ SpecUpdate(b)
    /\ UNCHANGED <<fetch_active, bq, log, ras_tail, window, dropped, base, program>>
-----------------------------------------------------------------------------
(* FETCH2 squashes a misfetched bundle and has FETCH1 predict it again. *)
Fetch2Misfetch ==
    /\ fetch2.valid /\ fetch2.misfetch
    /\ fetch_active' = TRUE
    /\ bhr' = fetch2.bhr /\ tos' = fetch2.tos
    /\ fetch2' = NoBundle
    /\ UNCHANGED <<ras, bq, log, ras_tail, window, dropped, base, program>>

(* Predecode: the bundle ends at its first serializing instruction, and    *)
(* that or an exception turns FETCH1 idle.                                 *)
Serials(b) == {k \in DOMAIN b : b[k].kind = "serial"}
Kept(b)    == IF Serials(b) = {} THEN b
              ELSE SubSeq(b, 1, CHOOSE k \in Serials(b) : \A j \in Serials(b) : k <= j)
Behind(b)  == SubSeq(b, Len(Kept(b)) + 1, Len(b))
Stops(b)   == \E k \in DOMAIN b : b[k].kind \in Stop
(* Seeded fault: FETCH1 goes on behind an exception. *)
Predecode_SerialOnly ==
    /\ fetch2.valid /\ ~fetch2.misfetch
    /\ fetch_active' = (fetch_active /\ Serials(fetch2.insns) = {})
    /\ dropped' = dropped \o Behind(fetch2.insns)
Predecode ==
    /\ fetch2.valid /\ ~fetch2.misfetch
    /\ fetch_active' = (fetch_active /\ ~Stops(Kept(fetch2.insns)))
    /\ dropped' = dropped \o Behind(fetch2.insns)

(* DECODE is occupied: the predecoded bundle waits. *)
Fetch2Stall ==
    /\ Predecode
    /\ fetch2' = [fetch2 EXCEPT !.insns = Kept(@)]
    /\ UNCHANGED <<bhr, ras, tos, bq, log, ras_tail, window, base, program>>

(* The bundle moves to DECODE and its branches enter the branch queue. The *)
(* k-th instruction gets the place of the branches that are in front.      *)
PredTag(b, k) == (bq_tail + Branches(b, k - 1)) % BqSize
PredPhase(b, k) ==
    IF PredTag(b, k) < bq_tail THEN ~bq_tail_phase ELSE bq_tail_phase
Entry(b, k) ==
    [kind |-> b[k].kind, taken |-> b[k].taken,
     cb |-> IF IsCond(b[k]) THEN Conds(b, k - 1) ELSE 0,
     precise |-> BhrAlong(fetch2.bhr, b)[k - 1], fetch |-> fetch2.bhr,
     tos |-> fetch2.tos, content |-> fetch2.content]
Item(b, k) ==
    [insn |-> b[k], resolved |-> FALSE,
     tag   |-> IF IsBranch(b[k]) THEN PredTag(b, k) ELSE 0,
     phase |-> IF IsBranch(b[k]) THEN PredPhase(b, k) ELSE FALSE]

Fetch2Advance ==
    LET b == Kept(fetch2.insns)
        N == Branches(b, Len(b))
        At(s) == {k \in DOMAIN b : IsBranch(b[k]) /\ PredTag(b, k) = s}
    IN  /\ Predecode
        /\ Len(window) + Len(b) <= WindowSize
        /\ window' = window \o [k \in DOMAIN b |-> Item(b, k)]
        /\ log' = [s \in Slot |-> IF At(s) = {} THEN log[s]
                                  ELSE Entry(b, CHOOSE k \in At(s) : TRUE)]
        /\ bq_tail' = (bq_tail + N) % BqSize
        /\ bq_tail_phase' = IF bq_tail + N >= BqSize THEN ~bq_tail_phase
                                                     ELSE bq_tail_phase
        /\ ras_tail' = (ras_tail + N) % BqSize
        /\ fetch2' = NoBundle
        /\ UNCHANGED <<bhr, ras, tos, bq_head, bq_head_phase, base, program>>
-----------------------------------------------------------------------------
Unresolved(i) == IsBranch(window[i].insn) /\ ~window[i].resolved

(* writeback() finds the branch predicted correctly. *)
Resolve(i) ==
    /\ Unresolved(i)
    /\ window' = [window EXCEPT ![i].resolved = TRUE]
    /\ UNCHANGED <<fetch_active, bhr, ras, tos, fetch2, bq, log, ras_tail,
                   dropped, base, program>>

(* ras_t::flush(): the return address stack of log entry id, as far as the *)
(* recovery model goes. The walk undoes the entries from the youngest      *)
(* branch back to id, the whole log when id is its tail.                   *)
(* Seeded fault: only the entry it returns to is undone. *)
Undone_One(id) == <<log[id]>>
Undone(id) == LET n == (ras_tail + BqSize - id) % BqSize
                  W == IF n = 0 THEN BqSize ELSE n
              IN  [k \in 1..W |-> log[(ras_tail + BqSize - k) % BqSize]]
Undo(r, e) == [r EXCEPT ![e.tos] = e.content]
Walk(u) == LET R[k \in 0..Len(u)] == IF k = 0 THEN ras ELSE Undo(R[k - 1], u[k])
           IN  R[Len(u)]
RasBefore(id) ==
    CASE Recovery = "pointer" -> ras
      [] Recovery = "content" -> Undo(ras, log[id])
      [] Recovery = "walk"    -> Walk(Undone(id))

(* The direction of a conditional branch was wrong, or the target of an    *)
(* indirect jump, call or return. The queue rolls back to the branch and   *)
(* takes it in again; the predictors return to their logs, then take the   *)
(* right outcome. A call's return address is still in its place.           *)
Mispredict(i) ==
    LET b == window[i]
        right == IF IsCond(b.insn) THEN ~b.insn.taken ELSE b.insn.taken
    IN  /\ Unresolved(i)
        /\ bq_tail' = Succ(b.tag)
        /\ bq_tail_phase' = Phase(b.tag, b.phase)
        /\ log' = [log EXCEPT ![b.tag].taken = right]
        /\ bhr' = IF IsCond(log[b.tag]) THEN update_bhr(log[b.tag].precise, right)
                  ELSE log[b.tag].precise
        /\ ras' = RasBefore(b.tag)
        /\ tos' = CASE log[b.tag].kind = "call"   -> Up(log[b.tag].tos)
                    [] log[b.tag].kind = "return" -> Down(log[b.tag].tos)
                    [] OTHER -> log[b.tag].tos
        /\ ras_tail' = Succ(b.tag)
        /\ fetch_active' = TRUE
        /\ fetch2' = NoBundle
        /\ window' = [SubSeq(window, 1, i) EXCEPT ![i].insn.taken = right,
                                                  ![i].resolved = TRUE]
        /\ dropped' = <<>>
        /\ UNCHANGED <<bq_head, bq_head_phase, base, program>>

(* The oldest instruction retires: a branch leaves the queue. *)
Commit ==
    /\ window # <<>>
    /\ Head(window).resolved
    /\ bq_head' = Succ(bq_head)
    /\ bq_head_phase' = Phase(bq_head, bq_head_phase)
    /\ window' = Tail(window)
    /\ base' = After(base, Head(window).insn)
    /\ UNCHANGED <<fetch_active, bhr, ras, tos, fetch2, bq_tail, bq_tail_phase,
                   log, ras_tail, dropped, program>>

(* The pipeline restarts: a serializing instruction or one with an         *)
(* exception is the oldest, or an instruction that stands in front of the  *)
(* window has a wrong value or read memory too early. The predictors go    *)
(* back only when the queue holds a branch. When it holds none they keep   *)
(* what FETCH1 did to them, and base takes that over, so that what follows *)
(* is judged on its own.                                                   *)
Flush ==
    /\ IF BqEmpty
       THEN /\ UNCHANGED <<bq, bhr, ras, tos, ras_tail>>
            /\ base' = Path
       ELSE /\ bq_tail' = bq_head
            /\ bq_tail_phase' = bq_head_phase
            /\ bhr' = log[bq_head].precise
            /\ ras' = RasBefore(bq_head)
            /\ tos' = log[bq_head].tos
            /\ ras_tail' = bq_head
            /\ UNCHANGED <<bq_head, bq_head_phase, base>>
    /\ fetch_active' = TRUE
    /\ fetch2' = NoBundle
    /\ window' = <<>> /\ dropped' = <<>>
    /\ UNCHANGED <<log, program>>

Next ==
    \/ Fetch1 \/ Fetch2Misfetch \/ Fetch2Stall \/ Fetch2Advance
    \/ \E i \in DOMAIN window : Resolve(i) \/ Mispredict(i)
    \/ Commit \/ Flush

Spec == Init /\ [][Next]_vars
-----------------------------------------------------------------------------
(* The state of the unit: registers, queue indices and logs in their       *)
(* ranges, a bundle that fits FETCH2 and a window that fits the pipeline.  *)
Fetched == [kind : Branch \cup Stop, taken : BOOLEAN, ra : RetAddr \cup {0},
            slot : 0..FetchWidth, bhr : History]
Bundled == [valid : BOOLEAN, insns : Seq(Fetched), misfetch : BOOLEAN,
            bhr : History, tos : Tos, content : RetAddr \cup {0}]
Logged  == [kind : Branch, taken : BOOLEAN, cb : 0..FetchWidth,
            precise : History, fetch : History, tos : Tos, content : RetAddr \cup {0}]
InFlight == [insn : Fetched, resolved : BOOLEAN, tag : Slot, phase : BOOLEAN]
TypeOK ==
    /\ fetch_active \in BOOLEAN
    /\ bhr \in History /\ tos \in Tos
    /\ ras \in [Tos -> RetAddr \cup {0}]
    /\ {bq_head, bq_tail, ras_tail} \subseteq Slot
    /\ {bq_head_phase, bq_tail_phase} \subseteq BOOLEAN
    /\ fetch2 \in Bundled /\ Len(fetch2.insns) <= FetchWidth
    /\ log \in [Slot -> Logged]
    /\ window \in Seq(InFlight) /\ Len(window) <= WindowSize
    /\ dropped \in Seq(Fetched)
    /\ base \in [bhr : History, tos : Tos, stack : Seq(RetAddr \cup {0})]

(* The place n behind the head, with the phase that goes with it.          *)
StandsAt(slot, phase, n) ==
    /\ slot = SlotAt(n)
    /\ phase = IF bq_head + n >= BqSize THEN ~bq_head_phase ELSE bq_head_phase

(* The branch queue is the branches in flight: each one's pred_tag is its  *)
(* place behind the head, so commit() pops the entry of the branch that    *)
(* retires, no push finds the queue full, rollback() stays within the      *)
(* queue, and the return address stack's log ends where the queue ends.    *)
QueueExact ==
    /\ \A k \in DOMAIN window : IsBranch(window[k].insn) =>
          StandsAt(window[k].tag, window[k].phase, Branches(Insns, k - 1))
    /\ StandsAt(bq_tail, bq_tail_phase, Branches(Insns, Len(window)))
    /\ ras_tail = bq_tail

(* The branch queue holds the branches of the window in program order, with *)
(* the phases that tell full from empty (fetchunit.cc, bq.cc).              *)
QueueInOrder == TypeOK /\ QueueExact

(* However predictions, misfetches, mispredictions and squashes interleave *)
(* the speculative history and top-of-stack pointer that index the next    *)
(* prediction are those of the instructions in front of it.                *)
HistoryExact == bhr = Path.bhr /\ tos = Path.tos

(* Every branch in flight finds in its log entry the context in front of   *)
(* it, and, to train the table entry that predicted it, the history of its *)
(* bundle and the prediction's slot in it, with the outcome as it is       *)
(* known, whatever rolled back and was pushed again around it.             *)
LogExact == \A i \in DOMAIN window : IsBranch(window[i].insn) =>
    LET e == log[window[i].tag]
        c == Contexts(base, Insns)[i - 1]
    IN  /\ e.kind = window[i].insn.kind /\ e.taken = window[i].insn.taken
        /\ e.precise = c.bhr /\ e.tos = c.tos
        /\ e.fetch = window[i].insn.bhr
        /\ IsCond(e) => e.cb = window[i].insn.slot

(* With walk recovery the return address stack holds every call that has   *)
(* not returned, also after wrong-path calls have overwritten entries that *)
(* wrong-path returns had popped; and a misfetched bundle leaves the entry *)
(* it started from as it was, which restore_fetch2_context() asserts.      *)
RasExact ==
    /\ Recovery = "walk" => \A k \in 0..(Len(Path.stack) - 1) :
          ras[(tos + RasSize - k) % RasSize] = Path.stack[Len(Path.stack) - k]
    /\ fetch2.valid => ras[fetch2.tos] = fetch2.content

(* The history, every logged context and the return address stack are      *)
(* those of the path in front of them, after every misfetch, misprediction *)
(* and squash (fetch2, mispredict, flush).                                 *)
ContextExact == HistoryExact /\ LogExact /\ RasExact

(* FETCH1 is idle only while an instruction in flight will restart it, and *)
(* nothing is fetched behind such an instruction: none waits in FETCH2 or  *)
(* follows it in the window, and FETCH2 has thrown nothing away once the   *)
(* unit is active.                                                         *)
FetchActiveExact ==
    /\ ~fetch_active => Stops(Insns) \/ Stops(fetch2.insns)
    /\ \A i \in DOMAIN window : window[i].insn.kind \in Stop =>
          i = Len(window) /\ ~fetch_active /\ ~fetch2.valid
    /\ fetch_active => dropped = <<>>

(* The header of flush(): a complete squash restores the checkpointed      *)
(* global histories and the top of the return address stack, which are     *)
(* those in front of the oldest instruction.                               *)
FlushRestores == [][Flush => bhr' = base.bhr /\ tos' = base.tos]_vars
=============================================================================
