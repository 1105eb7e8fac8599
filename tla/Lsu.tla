--------------------------------- MODULE Lsu ---------------------------------
(***************************************************************************)
(* The load/store unit (lsu.cc, lsu.h): a load queue and a store queue     *)
(* that hold memory instructions from dispatch to retirement, loads that   *)
(* execute ahead of older stores, store-to-load forwarding, detection of   *)
(* the loads that went too early, replay of the stalled ones, and recovery *)
(* of the two tails after a mispredicted branch.                           *)
(*                                                                         *)
(* window is the active list with the part of the payload that memory      *)
(* instructions use: what dispatch() and checkpoint() store in LQ_index,   *)
(* LQ_phase, SQ_index and SQ_phase, and the flags load_viol and exception. *)
(* Memory is a few bytes; a value is the tuple of the bytes it covers. The *)
(* data cache is external: an access misses or not, and a miss resolves.   *)
(* So is the memory dependence predictor, which sets mdp_stall.            *)
(***************************************************************************)
EXTENDS Integers, Sequences, FiniteSets

CONSTANTS
    LqSize, SqSize,     \* entries of the load queue and of the store queue
    NumActive,          \* entries of the active list
    MaxBranches,        \* checkpointed branches in flight
    Byte,               \* addresses of memory
    Val,                \* what a byte can hold
    Zero,               \* what it holds at first
    Size,               \* access sizes: 1, 2, 4, 8
    Fault,              \* addresses that trap
    AmoKinds,           \* whether load-reserved and store-conditional occur
    SpecDisambig        \* SPEC_DISAMBIG: loads may pass unknown addresses

ASSUME LsuAssumption ==
    /\ LqSize \in Nat \ {0} /\ SqSize \in Nat \ {0}
    /\ NumActive \in Nat \ {0} /\ MaxBranches \in Nat
    /\ Byte \subseteq Nat /\ Fault \subseteq Byte
    /\ Zero \in Val
    /\ Size \subseteq {1, 2, 4, 8}
    /\ AmoKinds \subseteq BOOLEAN
    /\ SpecDisambig \in BOOLEAN

VARIABLES
    LQ, lq_head, lq_tail, lq_head_phase, lq_tail_phase, lq_length,
    SQ, sq_head, sq_tail, sq_head_phase, sq_tail_phase, sq_length,
    window,             \* the active list, oldest instruction first
    mem,                \* committed memory
    load_reservation    \* the address of the last load-reserved

lq   == <<LQ, lq_head, lq_tail, lq_head_phase, lq_tail_phase, lq_length>>
sq   == <<SQ, sq_head, sq_tail, sq_head_phase, sq_tail_phase, sq_length>>
vars == <<lq, sq, window, mem, load_reservation>>

LSlot == 0..(LqSize - 1)
SSlot == 0..(SqSize - 1)
None  == -1

Span(a, n) == a..(a + n - 1)
Addrs(n)   == {a \in Byte : a % n = 0 /\ Span(a, n) \subseteq Byte}
Values(n)  == [0..(n - 1) -> Val]
Read(m, a, n) == [k \in 0..(n - 1) |-> m[a + k]]
Written(m, a, n, v) ==
    [b \in Byte |-> IF b \in Span(a, n) THEN v[b - a] ELSE m[b]]

(* mutant: the addresses are compared without the mask. *)
Overlap_Exact(x, y) == x.addr = y.addr

(* (x.addr & mask) == (y.addr & mask) for the mask of the larger size.     *)
Overlap(x, y) == LET max_size == IF x.size > y.size THEN x.size ELSE y.size
                 IN x.addr \div max_size = y.addr \div max_size

EmptyLoad == [valid |-> FALSE, size |-> 1, amo |-> FALSE, addr |-> None,
              value |-> <<>>, value_avail |-> FALSE, missed |-> FALSE,
              mdp_stall |-> FALSE, sq_index |-> 0, sq_index_phase |-> FALSE]
EmptyStore == [valid |-> FALSE, size |-> 1, amo |-> FALSE, addr |-> None,
               value |-> <<>>]

(* addr_avail, and value_avail of a store. *)
AddrAvail(e) == e.addr # None
StoreValueAvail(s) == s.value # <<>>

Init ==
    /\ LQ = [i \in LSlot |-> EmptyLoad]
    /\ lq_head = 0 /\ lq_tail = 0 /\ lq_length = 0
    /\ lq_head_phase = FALSE /\ lq_tail_phase = FALSE
    /\ SQ = [i \in SSlot |-> EmptyStore]
    /\ sq_head = 0 /\ sq_tail = 0 /\ sq_length = 0
    /\ sq_head_phase = FALSE /\ sq_tail_phase = FALSE
    /\ window = <<>>
    /\ mem = [b \in Byte |-> Zero]
    /\ load_reservation = None

(* The next slot of a circular queue, and the phase bit that goes with it. *)
Succ(i, size) == (i + 1) % size
Phase(i, ph, size) == IF Succ(i, size) = 0 THEN ~ph ELSE ph

-----------------------------------------------------------------------------
(* Dispatch.                                                               *)

stall(bundle_load, bundle_store) ==
    \/ sq_length + bundle_store > SqSize
    \/ lq_length + bundle_load > LqSize

(* Where a new instruction stands: the tails of both queues. *)
Here == [lq_index |-> lq_tail, lq_phase |-> lq_tail_phase,
         sq_index |-> sq_tail, sq_phase |-> sq_tail_phase]

(* A serializing instruction stalls fetch until it retires. *)
CanDispatch ==
    /\ Len(window) < NumActive
    /\ \A k \in DOMAIN window : ~window[k].amo

Item(kind, amo) == [kind |-> kind, at |-> Here, amo |-> amo, load_viol |-> FALSE,
                    exception |-> FALSE, resolved |-> FALSE]

DispatchLoad(n, amo, mdp_stall) ==
    /\ CanDispatch /\ ~stall(1, 0)
    /\ LQ' = [LQ EXCEPT ![lq_tail] =
                [EmptyLoad EXCEPT !.valid = TRUE, !.size = n, !.amo = amo,
                                  !.mdp_stall = ~SpecDisambig \/ mdp_stall,
                                  !.sq_index = sq_tail,
                                  !.sq_index_phase = sq_tail_phase]]
    /\ lq_tail' = Succ(lq_tail, LqSize)
    /\ lq_tail_phase' = Phase(lq_tail, lq_tail_phase, LqSize)
    /\ lq_length' = lq_length + 1
    /\ window' = Append(window, Item("load", amo))
    /\ UNCHANGED <<lq_head, lq_head_phase, sq, mem, load_reservation>>

DispatchStore(n, amo) ==
    /\ CanDispatch /\ ~stall(0, 1)
    /\ SQ' = [SQ EXCEPT ![sq_tail] = [EmptyStore EXCEPT !.valid = TRUE,
                                                        !.size = n, !.amo = amo]]
    /\ sq_tail' = Succ(sq_tail, SqSize)
    /\ sq_tail_phase' = Phase(sq_tail, sq_tail_phase, SqSize)
    /\ sq_length' = sq_length + 1
    /\ window' = Append(window, Item("store", amo))
    /\ UNCHANGED <<lq, sq_head, sq_head_phase, mem, load_reservation>>

(* A branch that takes a checkpoint records the tails.                     *)
DispatchBranch ==
    /\ CanDispatch
    /\ Cardinality({k \in DOMAIN window : window[k].kind = "branch"
                                          /\ ~window[k].resolved}) < MaxBranches
    /\ window' = Append(window, Item("branch", FALSE))
    /\ UNCHANGED <<lq, sq, mem, load_reservation>>

-----------------------------------------------------------------------------
(* Executing loads.                                                        *)

(* mutant: a load at the head of the store queue searches all of it. *)
NumOlder_Full(i, ph) == IF i = sq_head THEN SqSize ELSE (i - sq_head) % SqSize

(* How many stores are older than one that took its place at (i, ph).      *)
NumOlder(i, ph) == IF i = sq_head /\ ph = sq_head_phase THEN 0
                   ELSE IF i = sq_head THEN SqSize
                   ELSE (i - sq_head) % SqSize

(* disambiguate: backward from the load, the first store that decides. A   *)
(* store decides if its address conflicts, or is unknown and the load was  *)
(* predicted to stall. The result is the slot, or None.                    *)
Decides(s, l) == IF AddrAvail(s) THEN Overlap(s, l) ELSE l.mdp_stall

Back(i, d) == (i - d) % SqSize

disambiguate(l) ==
    LET n == NumOlder(l.sq_index, l.sq_index_phase)
        D == {d \in 1..n : Decides(SQ[Back(l.sq_index, d)], l)}
    IN IF D = {} THEN None
       ELSE Back(l.sq_index, CHOOSE d \in D : \A e \in D : d <= e)

Forwards(s, l) == AddrAvail(s) /\ s.size = l.size /\ StoreValueAvail(s)

(* Whether execute_load gives load i its value now. A load-reserved waits  *)
(* for the head of the queue; a store that decides must forward; otherwise *)
(* the line must have come.                                                *)
Executes(i, l) ==
    /\ l.amo => i = lq_head
    /\ IF disambiguate(l) # None THEN Forwards(SQ[disambiguate(l)], l)
                                 ELSE ~l.missed

(* The value it gets then. A translation that traps leaves it as it was,   *)
(* and nothing that read it retires.                                       *)
LoadValue(l) ==
    IF disambiguate(l) # None THEN SQ[disambiguate(l)].value
    ELSE IF l.addr \in Fault THEN l.value
    ELSE Read(mem, l.addr, l.size)

Faults(l) == disambiguate(l) = None /\ l.addr \in Fault

execute_load(i, l) ==
    IF Executes(i, l) THEN [l EXCEPT !.value = LoadValue(l), !.value_avail = TRUE]
                      ELSE l

(* The active list with the exception bit of the load in slot i posted.    *)
WithException(kind, i) ==
    [k \in DOMAIN window |->
        IF window[k].kind = kind
           /\ i = IF kind = "load" THEN window[k].at.lq_index
                                   ELSE window[k].at.sq_index
        THEN [window[k] EXCEPT !.exception = TRUE] ELSE window[k]]

(* load_addr: the load leaves its lane with an address.                    *)
LoadAddr(i, a, miss) ==
    /\ LQ[i].valid /\ ~AddrAvail(LQ[i]) /\ a \in Addrs(LQ[i].size)
    /\ LET l == [LQ[i] EXCEPT !.addr = a, !.missed = miss]
       IN /\ LQ' = [LQ EXCEPT ![i] = execute_load(i, l)]
          /\ window' = IF Executes(i, l) /\ Faults(l)
                       THEN WithException("load", i) ELSE window
    /\ UNCHANGED <<lq_head, lq_tail, lq_head_phase, lq_tail_phase, lq_length,
                   sq, mem, load_reservation>>

(* MissResolved: the line of load i has come to the data cache.            *)
MissResolved(i) ==
    /\ LQ[i].valid /\ LQ[i].missed
    /\ LQ' = [LQ EXCEPT ![i].missed = FALSE]
    /\ UNCHANGED <<lq_head, lq_tail, lq_head_phase, lq_tail_phase, lq_length,
                   sq, window, mem, load_reservation>>

(* load_unstall: the first stalled load from the head that can execute.    *)
Unstalled ==
    {d \in 0..(lq_length - 1) :
        LET i == (lq_head + d) % LqSize
        IN AddrAvail(LQ[i]) /\ ~LQ[i].value_avail /\ Executes(i, LQ[i])}

LoadReplay ==
    /\ Unstalled # {}
    /\ LET d == CHOOSE x \in Unstalled : \A y \in Unstalled : x <= y
           i == (lq_head + d) % LqSize
       IN /\ LQ' = [LQ EXCEPT ![i] = execute_load(i, LQ[i])]
          /\ window' = IF Faults(LQ[i]) THEN WithException("load", i) ELSE window
    /\ UNCHANGED <<lq_head, lq_tail, lq_head_phase, lq_tail_phase, lq_length,
                   sq, mem, load_reservation>>

-----------------------------------------------------------------------------
(* Executing stores.                                                       *)

(* mutant: a full load queue is taken for one without younger loads. *)
NumYounger_NoPhase(i, ph) == (lq_tail - i) % LqSize

(* ld_violation: from the first load behind the store to the tail, the     *)
(* first that has its value from an address the store also writes. The     *)
(* search ends where both the index and the phase meet those of the tail.  *)
NumYounger(i, ph) == IF i = lq_tail /\ ph = lq_tail_phase THEN 0
                     ELSE IF i = lq_tail THEN LqSize
                     ELSE (lq_tail - i) % LqSize

ld_violation(s, at) ==
    LET V == {d \in 0..(NumYounger(at.lq_index, at.lq_phase) - 1) :
                LET l == LQ[(at.lq_index + d) % LqSize]
                IN AddrAvail(l) /\ l.value_avail /\ Overlap(s, l)}
    IN IF V = {} THEN None
       ELSE (at.lq_index + CHOOSE d \in V : \A e \in V : d <= e) % LqSize

WithViolation(i) ==
    [k \in DOMAIN window |->
        IF window[k].kind = "load" /\ window[k].at.lq_index = i
        THEN [window[k] EXCEPT !.load_viol = TRUE] ELSE window[k]]

(* store_addr: the store, or the upper half of a split one, executes.      *)
StoreAddr(k, a) ==
    LET i == window[k].at.sq_index
        s == [SQ[i] EXCEPT !.addr = a]
    IN /\ window[k].kind = "store" /\ ~AddrAvail(SQ[i]) /\ a \in Addrs(SQ[i].size)
       /\ SQ' = [SQ EXCEPT ![i] = s]
       /\ window' = IF a \in Fault THEN WithException("store", i)
                    ELSE IF SpecDisambig /\ ld_violation(s, window[k].at) # None
                    THEN WithViolation(ld_violation(s, window[k].at))
                    ELSE window
       /\ UNCHANGED <<lq, sq_head, sq_tail, sq_head_phase, sq_tail_phase,
                      sq_length, mem, load_reservation>>

(* store_value: the store, or the lower half of a split one, executes.     *)
StoreValue(k, v) ==
    LET i == window[k].at.sq_index
    IN /\ window[k].kind = "store" /\ ~StoreValueAvail(SQ[i])
       /\ v \in Values(SQ[i].size)
       /\ SQ' = [SQ EXCEPT ![i].value = v]
       /\ UNCHANGED <<lq, sq_head, sq_tail, sq_head_phase, sq_tail_phase,
                      sq_length, window, mem, load_reservation>>

-----------------------------------------------------------------------------
(* Recovery and retirement.                                                *)

ResolveCorrect(k) ==
    /\ window[k].kind = "branch" /\ ~window[k].resolved
    /\ window' = [window EXCEPT ![k].resolved = TRUE]
    /\ UNCHANGED <<lq, sq, mem, load_reservation>>

(* mutant: a full queue is taken for an empty one. *)
LengthOf_NoPhase(head, hph, tail, tph, size) == (size + tail - head) % size

(* The length of a queue from its pointers. *)
LengthOf(head, hph, tail, tph, size) ==
    IF tail = head /\ tph # hph THEN size ELSE (size + tail - head) % size

(* Slot i stands among the n slots from head. *)
Within(i, head, n, size) == (i - head) % size < n

(* restore: the tails come back from the checkpoint, the lengths and the   *)
(* valid bits are computed again from them.                                *)
restore(at) ==
    LET ln == LengthOf(lq_head, lq_head_phase, at.lq_index, at.lq_phase, LqSize)
        sn == LengthOf(sq_head, sq_head_phase, at.sq_index, at.sq_phase, SqSize)
    IN /\ lq_tail' = at.lq_index /\ lq_tail_phase' = at.lq_phase
       /\ lq_length' = ln
       /\ LQ' = [i \in LSlot |->
                   [LQ[i] EXCEPT !.valid = Within(i, lq_head, ln, LqSize)]]
       /\ sq_tail' = at.sq_index /\ sq_tail_phase' = at.sq_phase
       /\ sq_length' = sn
       /\ SQ' = [i \in SSlot |->
                   [SQ[i] EXCEPT !.valid = Within(i, sq_head, sn, SqSize)]]

ResolveMispredict(k) ==
    /\ window[k].kind = "branch" /\ ~window[k].resolved
    /\ restore(window[k].at)
    /\ window' = [SubSeq(window, 1, k) EXCEPT ![k].resolved = TRUE]
    /\ UNCHANGED <<lq_head, lq_head_phase, sq_head, sq_head_phase, mem,
                   load_reservation>>

(* The head of the active list is complete. *)
Complete ==
    /\ window # <<>>
    /\ CASE Head(window).kind = "load"   -> LQ[lq_head].value_avail
         [] Head(window).kind = "store"  -> AddrAvail(SQ[sq_head])
                                            /\ StoreValueAvail(SQ[sq_head])
         [] Head(window).kind = "branch" -> Head(window).resolved

(* commit(load) and commit(store). A store-conditional writes memory only  *)
(* while the reservation is for its address.                               *)
commit_load ==
    /\ load_reservation' = IF LQ[lq_head].amo THEN LQ[lq_head].addr
                                              ELSE load_reservation
    /\ LQ' = [LQ EXCEPT ![lq_head].valid = FALSE]
    /\ lq_head' = Succ(lq_head, LqSize)
    /\ lq_head_phase' = Phase(lq_head, lq_head_phase, LqSize)
    /\ lq_length' = lq_length - 1
    /\ UNCHANGED <<lq_tail, lq_tail_phase, sq, mem>>

commit_store ==
    LET s == SQ[sq_head]
    IN /\ mem' = IF s.amo /\ load_reservation # s.addr THEN mem
                 ELSE Written(mem, s.addr, s.size, s.value)
       /\ SQ' = [SQ EXCEPT ![sq_head].valid = FALSE]
       /\ sq_head' = Succ(sq_head, SqSize)
       /\ sq_head_phase' = Phase(sq_head, sq_head_phase, SqSize)
       /\ sq_length' = sq_length - 1
       /\ UNCHANGED <<sq_tail, sq_tail_phase, lq, load_reservation>>

Retire ==
    /\ Complete /\ ~Head(window).exception /\ ~Head(window).load_viol
    /\ window' = Tail(window)
    /\ CASE Head(window).kind = "load"   -> commit_load
         [] Head(window).kind = "store"  -> commit_store
         [] Head(window).kind = "branch" -> UNCHANGED <<lq, sq, mem,
                                                        load_reservation>>

flush ==
    /\ lq_head' = 0 /\ lq_tail' = 0 /\ lq_length' = 0
    /\ lq_head_phase' = FALSE /\ lq_tail_phase' = FALSE
    /\ LQ' = [i \in LSlot |-> [LQ[i] EXCEPT !.valid = FALSE]]
    /\ sq_head' = 0 /\ sq_tail' = 0 /\ sq_length' = 0
    /\ sq_head_phase' = FALSE /\ sq_tail_phase' = FALSE
    /\ SQ' = [i \in SSlot |-> [SQ[i] EXCEPT !.valid = FALSE]]

(* RetireSquash: squash_complete(). An exception or a load violation at    *)
(* the head, or an instruction before the head that is not one of these    *)
(* and traps or retires mispredicted, throws the whole window away.        *)
RetireSquash ==
    /\ window # <<>>
    /\ flush
    /\ window' = <<>>
    /\ UNCHANGED <<mem, load_reservation>>

ExecuteLoad  == \E i \in LSlot, a \in Byte, miss \in BOOLEAN : LoadAddr(i, a, miss)
ResolveMiss  == \E i \in LSlot : MissResolved(i)
ExecuteStore == \E k \in DOMAIN window, a \in Byte : StoreAddr(k, a)
ReceiveValue == \E k \in DOMAIN window : \E v \in UNION {Values(n) : n \in Size} : StoreValue(k, v)
Resolve      == \E k \in DOMAIN window : ResolveCorrect(k) \/ ResolveMispredict(k)

Next ==
    \/ \E n \in Size, amo \in AmoKinds, mdp_stall \in BOOLEAN :
          DispatchLoad(n, amo, mdp_stall)
    \/ \E n \in Size, amo \in AmoKinds : DispatchStore(n, amo)
    \/ DispatchBranch
    \/ ExecuteLoad
    \/ ResolveMiss
    \/ LoadReplay
    \/ ExecuteStore
    \/ ReceiveValue
    \/ Resolve
    \/ Retire
    \/ RetireSquash

Spec == Init /\ [][Next]_vars

Marked(x) == x.exception \/ x.load_viol

(* Issued loads and stores execute, branches resolve, misses resolve, the  *)
(* replay engine and the retire stage run every cycle.                     *)
Fair == {"load", "miss", "replay", "store", "value", "branch", "retire", "squash"}
Does(part) ==
    CASE part = "load"   -> ExecuteLoad
      [] part = "miss"   -> ResolveMiss
      [] part = "replay" -> LoadReplay
      [] part = "store"  -> ExecuteStore
      [] part = "value"  -> ReceiveValue
      [] part = "branch" -> Resolve
      [] part = "retire" -> Retire
      [] part = "squash" -> Complete /\ Marked(Head(window)) /\ RetireSquash
Fairness == \A part \in Fair : WF_vars(Does(part))

FairSpec == Spec /\ Fairness
-----------------------------------------------------------------------------
(* Properties *)

Place == [lq_index : LSlot, lq_phase : BOOLEAN,
          sq_index : SSlot, sq_phase : BOOLEAN]

QueueValues == {<<>>} \cup UNION {Values(n) : n \in Size}
LoadEntry  == [valid : BOOLEAN, size : Size \cup {1}, amo : BOOLEAN,
               addr : Byte \cup {None}, value : QueueValues, value_avail : BOOLEAN,
               missed : BOOLEAN, mdp_stall : BOOLEAN,
               sq_index : SSlot, sq_index_phase : BOOLEAN]
StoreEntry == [valid : BOOLEAN, size : Size \cup {1}, amo : BOOLEAN,
               addr : Byte \cup {None}, value : QueueValues]
InWindow   == [kind : {"load", "store", "branch"}, at : Place, amo : BOOLEAN,
               load_viol : BOOLEAN, exception : BOOLEAN, resolved : BOOLEAN]

(* The type invariant. *)
TypeOK ==
    /\ LQ \in [LSlot -> LoadEntry] /\ SQ \in [SSlot -> StoreEntry]
    /\ lq_head \in LSlot /\ lq_tail \in LSlot /\ lq_length \in 0..LqSize
    /\ sq_head \in SSlot /\ sq_tail \in SSlot /\ sq_length \in 0..SqSize
    /\ lq_head_phase \in BOOLEAN /\ lq_tail_phase \in BOOLEAN
    /\ sq_head_phase \in BOOLEAN /\ sq_tail_phase \in BOOLEAN
    /\ window \in Seq(InWindow) /\ Len(window) <= NumActive
    /\ mem \in [Byte -> Val]
    /\ load_reservation \in Byte \cup {None}

(* How many of the k oldest instructions are of a kind. *)
Number(kind, k) == Cardinality({j \in 1..k : window[j].kind = kind})

(* Where a pointer that is n places behind the head must stand.            *)
StandsAt(i, ph, head, hph, n, size) ==
    /\ i = (head + n) % size
    /\ ph = IF head + n >= size THEN ~hph ELSE hph

(* However dispatch, commit, partial squashes and flushes interleave, both *)
(* queues hold the loads and the stores of the window in program order:    *)
(* lengths, tails, phases and valid bits agree, and each instruction still *)
(* points at the place between older and younger that it was dispatched to.*)
QueuesExact ==
    /\ lq_length = Number("load", Len(window))
    /\ sq_length = Number("store", Len(window))
    /\ StandsAt(lq_tail, lq_tail_phase, lq_head, lq_head_phase, lq_length, LqSize)
    /\ StandsAt(sq_tail, sq_tail_phase, sq_head, sq_head_phase, sq_length, SqSize)
    /\ \A i \in LSlot : LQ[i].valid <=> Within(i, lq_head, lq_length, LqSize)
    /\ \A i \in SSlot : SQ[i].valid <=> Within(i, sq_head, sq_length, SqSize)
    /\ \A k \in DOMAIN window :
          LET at == window[k].at
          IN /\ StandsAt(at.lq_index, at.lq_phase, lq_head, lq_head_phase,
                         Number("load", k - 1), LqSize)
             /\ StandsAt(at.sq_index, at.sq_phase, sq_head, sq_head_phase,
                         Number("store", k - 1), SqSize)
             /\ window[k].kind = "load" =>
                   /\ LQ[at.lq_index].sq_index = at.sq_index
                   /\ LQ[at.lq_index].sq_index_phase = at.sq_phase

(* The queues, and the type of everything else.                            *)
QueuesInOrder == TypeOK /\ QueuesExact

(* The value a load at position k must have: byte by byte, from the        *)
(* youngest older store to that byte, or from memory.                      *)
StoresTo(b, k) ==
    {j \in 1..(k - 1) : window[j].kind = "store"
        /\ LET s == SQ[window[j].at.sq_index] IN b \in Span(s.addr, s.size)}

HasProgramValue(b, k, v) ==
    IF StoresTo(b, k) = {} THEN v = mem[b]
    ELSE LET j == CHOOSE x \in StoresTo(b, k) : \A y \in StoresTo(b, k) : y <= x
             s == SQ[window[j].at.sq_index]
         IN StoreValueAvail(s) /\ v = s.value[b - s.addr]

(* Once the addresses of all older stores are known, a load that has a     *)
(* value has the one of program order, or it or an older instruction is    *)
(* marked and will be squashed: no load that went too early goes unseen,   *)
(* though one store marks one load only.                                   *)
ViolationsCaught ==
    \A k \in DOMAIN window :
        LET l == LQ[window[k].at.lq_index]
        IN /\ window[k].kind = "load" /\ l.value_avail
           /\ \A j \in 1..k : ~Marked(window[j])
           /\ \A j \in 1..(k - 1) : window[j].kind = "store"
                  => AddrAvail(SQ[window[j].at.sq_index])
           => \A b \in Span(l.addr, l.size) :
                 HasProgramValue(b, k, l.value[b - l.addr])

(* A load retires with what memory holds at that moment, which every older *)
(* store has already written: out-of-order execution is not seen. Without  *)
(* speculative disambiguation no violation is looked for, and loads are    *)
(* right because they wait (execute_load, disambiguate, commit).           *)
LoadsInOrder ==
    [][Retire /\ Head(window).kind = "load"
       => LET l == LQ[lq_head] IN l.value = Read(mem, l.addr, l.size)]_vars

(* A load that stalls on an older store, on a miss or for the head of the  *)
(* queue gets its value in the end, or is squashed.                        *)
StalledLoadsEnd ==
    \A i \in LSlot :
        LQ[i].valid /\ AddrAvail(LQ[i]) ~> LQ[i].value_avail \/ ~LQ[i].valid
=============================================================================
