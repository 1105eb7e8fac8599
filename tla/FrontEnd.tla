------------------------------ MODULE FrontEnd ------------------------------
(***************************************************************************)
(* The front end of pipeline_t from FETCH1 to the active list: the payload *)
(* buffer PAY (payload.cc) and the queues that hold indices into it.       *)
(*                                                                         *)
(* Every in-flight instruction owns two consecutive payload entries, the   *)
(* second for the lower half of a split store. Four operations take        *)
(* entries back, each from another stage: restore (misfetch), rollback     *)
(* (serializing instruction, misprediction), pop (retirement) and clear    *)
(* (complete squash). Instructions are classes; Code gives the instruction *)
(* each class stands for, and Decode what decode() makes of it.            *)
(***************************************************************************)
EXTENDS Decode, Sequences, SequencesExt

CONSTANTS
    PaySize,          \* payload entries
    Kind, Code,       \* classes of instructions, and the Insn of each
    Mixes,            \* the sets of classes a program may consist of
    Faults,           \* classes whose fetch raised an exception
    FetchWidth, DispatchWidth, FqSize, RobSize,
    Checkpoints,      \* branch checkpoints of the renamer
    Registers,        \* physical registers beyond the architectural ones
    VpqSize,          \* entries of the value prediction queue
    Recovery1         \* value mispredictions and load violations happen

ASSUME FrontEndAssumption ==
    /\ {FetchWidth, DispatchWidth, FqSize, RobSize} \subseteq Nat \ {0}
    /\ \A k \in Kind : Code[k] \in Insn /\ WellFormed(Code[k])
    /\ Mixes \subseteq SUBSET Kind
    /\ \A k \in Faults : k \in Kind /\ IsNop(Code[k])
    /\ Recovery1 \in BOOLEAN
(* What the constructor asserts of the size it computes.                   *)
InFlight == 2 * FetchWidth + FqSize + 2 * DispatchWidth + RobSize
ASSUME PayloadAssumption ==
    /\ \E k \in 1..20 : PaySize = 2^k
    /\ 2 * InFlight <= PaySize /\ PaySize < 4 * InFlight
(* The machine stops without these: rename1 waits for a full bundle while  *)
(* decode waits for room for two fetch bundles, and a bundle enters        *)
(* rename2 and dispatch only as a whole.                                   *)
ASSUME SizesAssumption ==
    /\ FqSize >= DispatchWidth - 1 + 2 * FetchWidth
    /\ RobSize >= DispatchWidth
    /\ Checkpoints >= DispatchWidth
    /\ Registers >= DispatchWidth
    /\ VpqSize >= DispatchWidth

VARIABLES
    mix,                 \* the classes of the program
    head, tail, length,  \* of the payload buffer
    fetch_active,
    fetch2,              \* [slots, pay_checkpoint, misfetch], or NoBundle
    retries,             \* misfetches since a bundle last advanced
    DECODE, FQ, RENAME2, DISPATCH,
    AL                   \* the active list: items with their state

vars == <<head, tail, length, fetch_active, fetch2, retries, DECODE, FQ, RENAME2, DISPATCH, AL>>
pay  == <<head, tail, length>>
-----------------------------------------------------------------------------
Index == 0..(PaySize - 1)
(* An item is an instruction, or one half of a split store.                *)
Part == {"whole", "upper", "lower"}
Item == [index : Index, kind : Kind, part : Part]
(* "restart": an exception or a load violation; "misp": a wrong value was  *)
(* predicted. Either squashes the pipeline when it retires.                *)
State  == {"busy", "done", "restart", "misp"}
Active == [index : Index, kind : Kind, part : Part, state : State]

P == [k \in Kind |-> Decoded(Code[k], {}, IF k \in Faults THEN "fetch" ELSE "none")]
Branches  == {k \in Kind : P[k].checkpoint}
Writers   == {k \in Kind : P[k].C # NoReg}
Predicted == {k \in Kind : is_eligible(P[k])}
Serials   == {k \in Kind : Serializing(Code[k])}

NoBundle == [valid |-> FALSE, slots |-> <<>>, pay_checkpoint |-> 0, misfetch |-> FALSE]

Init ==
    /\ mix \in Mixes
    /\ head = 0 /\ tail = 0 /\ length = 0
    /\ fetch_active = TRUE
    /\ fetch2 = NoBundle /\ retries = 0
    /\ DECODE = <<>> /\ FQ = <<>> /\ RENAME2 = <<>> /\ DISPATCH = <<>>
    /\ AL = <<>>
-----------------------------------------------------------------------------
(* The payload buffer.                                                     *)
push(n) ==
    /\ tail' = (tail + 2 * n) % PaySize
    /\ length' = length + 2 * n
    /\ UNCHANGED head
pop(n) ==
    /\ head' = (head + n) % PaySize
    /\ length' = length - n
    /\ UNCHANGED tail
restore(i) ==
    /\ tail' = i
    /\ length' = (PaySize + i - head) % PaySize
    /\ UNCHANGED head
(* Seeded fault: the tail goes back onto the instruction itself. *)
rollback_OnIt(i) == restore(i)
rollback(i) == restore((i + 2) % PaySize)
clear == head' = 0 /\ tail' = 0 /\ length' = 0
-----------------------------------------------------------------------------
(* A fetch exception ends its bundle (ic_t supplies no more); a            *)
(* serializing instruction does not, FETCH2 cuts the bundle behind it.     *)
Bundles == {b \in UNION {[1..n -> mix] : n \in 1..FetchWidth} :
               \A k \in 1..(Len(b) - 1) : b[k] \notin Faults}

(* A misfetch trains the BTB with at least one slot of the bundle, so that *)
(* a bundle is misfetched at most once per slot.                           *)
Fetch1 ==
    /\ fetch_active /\ ~fetch2.valid
    /\ \E b \in Bundles, m \in {FALSE} \cup (IF retries < FetchWidth THEN {TRUE} ELSE {}) :
          /\ fetch2' = [valid |-> TRUE, pay_checkpoint |-> tail, misfetch |-> m,
                        slots |-> [k \in DOMAIN b |->
                            [index |-> (tail + 2 * (k - 1)) % PaySize, kind |-> b[k]]]]
          /\ push(Len(b))
    /\ UNCHANGED <<fetch_active, retries, DECODE, FQ, RENAME2, DISPATCH, AL>>

(* Predecode: the bundle ends behind a serializing instruction, whose      *)
(* successors leave the payload buffer too, and fetch stops behind it or   *)
(* behind an exception. A stalled bundle is predecoded again every cycle.  *)
Kept == LET cuts == {k \in DOMAIN fetch2.slots : fetch2.slots[k].kind \in Serials}
        IN  IF cuts = {} THEN fetch2.slots
            ELSE SubSeq(fetch2.slots, 1, CHOOSE k \in cuts : \A j \in cuts : k <= j)
Predecode ==
    /\ fetch_active' = (fetch_active /\ Last(Kept).kind \notin Serials \cup Faults)
    /\ IF Last(Kept).kind \in Serials THEN rollback(Last(Kept).index) ELSE UNCHANGED pay

Fetch2Misfetch ==
    /\ fetch2.valid /\ fetch2.misfetch
    /\ fetch_active' = TRUE
    /\ restore(fetch2.pay_checkpoint)
    /\ fetch2' = NoBundle
    /\ retries' = retries + 1
    /\ UNCHANGED <<DECODE, FQ, RENAME2, DISPATCH, AL>>

Fetch2Stall ==
    /\ fetch2.valid /\ ~fetch2.misfetch /\ DECODE # <<>>
    /\ Predecode
    /\ fetch2' = [fetch2 EXCEPT !.slots = Kept]
    /\ UNCHANGED <<retries, DECODE, FQ, RENAME2, DISPATCH, AL>>

Fetch2Advance ==
    /\ fetch2.valid /\ ~fetch2.misfetch /\ DECODE = <<>>
    /\ Predecode
    /\ DECODE' = Kept
    /\ fetch2' = NoBundle
    /\ retries' = 0
    /\ UNCHANGED <<FQ, RENAME2, DISPATCH, AL>>
-----------------------------------------------------------------------------
(* The fetch queue. decode() needs room for its bundle as if every         *)
(* instruction were split.                                                 *)
fq_push(items) == FQ' = FQ \o items
fq_pop(n) == FQ' = SubSeq(FQ, n + 1, Len(FQ))
fq_flush == FQ' = <<>>
(* Seeded fault: an entry must stay free. *)
enough_space_Strict(i) == FqSize - Len(FQ) > i
enough_space(i) == FqSize - Len(FQ) >= i
Halves(x) ==
    IF P[x.kind].split
    THEN <<[index |-> x.index, kind |-> x.kind, part |-> "upper"],
           [index |-> x.index + 1, kind |-> x.kind, part |-> "lower"]>>
    ELSE <<[index |-> x.index, kind |-> x.kind, part |-> "whole"]>>
DecodeBundle ==
    /\ DECODE # <<>>
    /\ enough_space(2 * Len(DECODE))
    /\ fq_push(FlattenSeq([k \in DOMAIN DECODE |-> Halves(DECODE[k])]))
    /\ DECODE' = <<>>
    /\ UNCHANGED <<pay, fetch_active, fetch2, retries, RENAME2, DISPATCH, AL>>

Waits(n) == fetch_active /\ n < DispatchWidth
Rename1 ==
    LET n == IF Len(FQ) < DispatchWidth THEN Len(FQ) ELSE DispatchWidth
    IN  /\ RENAME2 = <<>>
        /\ n > 0 /\ ~Waits(n)
        /\ RENAME2' = SubSeq(FQ, 1, n)
        /\ fq_pop(n)
        /\ UNCHANGED <<pay, fetch_active, fetch2, retries, DECODE, DISPATCH, AL>>

(* What a bundle needs of the renamer and of the VPQ, and what the active  *)
(* list holds of them.                                                     *)
Count(s, kinds) == Len(SelectSeq(s, LAMBDA x : x.kind \in kinds))
Unresolved == Len(SelectSeq(AL, LAMBDA x : x.kind \in Branches /\ x.state = "busy"))
Rename2 ==
    /\ RENAME2 # <<>> /\ DISPATCH = <<>>
    /\ Count(RENAME2, Branches) <= Checkpoints - Unresolved
    /\ Count(RENAME2, Writers) <= Registers - Count(AL, Writers)
    /\ Count(RENAME2, Predicted) <= VpqSize - Count(AL, Predicted)
    /\ DISPATCH' = RENAME2
    /\ RENAME2' = <<>>
    /\ UNCHANGED <<pay, fetch_active, fetch2, retries, DECODE, FQ, AL>>

(* What skips the issue queue is complete, with its trap, when it enters   *)
(* the active list. Entries of the issue queue and the load/store unit     *)
(* belong to instructions of the active list.                              *)
Dispatched(x) ==
    [index |-> x.index, kind |-> x.kind, part |-> x.part,
     state |-> IF P[x.kind].iq = "IQ" THEN "busy"
               ELSE IF ExceptionAtDispatch(P[x.kind]) THEN "restart" ELSE "done"]
Dispatch ==
    /\ DISPATCH # <<>>
    /\ RobSize - Len(AL) >= Len(DISPATCH)
    /\ AL' = AL \o [k \in DOMAIN DISPATCH |-> Dispatched(DISPATCH[k])]
    /\ DISPATCH' = <<>>
    /\ UNCHANGED <<pay, fetch_active, fetch2, retries, DECODE, FQ, RENAME2>>
-----------------------------------------------------------------------------
(* An instruction completes, in any order.                                 *)
Complete(i) ==
    /\ AL[i].state = "busy"
    /\ \E s \in {"done"} \cup (IF Recovery1 THEN {"restart", "misp"} ELSE {}) :
          /\ s = "misp" => AL[i].kind \in Predicted
          /\ s = "restart" => AL[i].part # "lower" /\ AL[i].kind \notin Branches
          /\ AL' = [AL EXCEPT ![i].state = s]
    /\ UNCHANGED <<pay, fetch_active, fetch2, retries, DECODE, FQ, RENAME2, DISPATCH>>

(* Everything in front of dispatch is squashed, and fetch is active again. *)
SquashFront ==
    /\ fetch_active' = TRUE
    /\ fetch2' = NoBundle
    /\ retries' = 0
    /\ fq_flush
    /\ DECODE' = <<>> /\ RENAME2' = <<>> /\ DISPATCH' = <<>>

Mispredict(i) ==
    /\ AL[i].state = "busy" /\ AL[i].kind \in Branches
    /\ SquashFront
    /\ AL' = [SubSeq(AL, 1, i) EXCEPT ![i].state = "done"]
    /\ rollback(AL[i].index)

(* A serializing instruction restarts fetch without a squash: nothing can  *)
(* be behind it but what FETCH2 has cut off. It may also trap here.        *)
Size(x) == IF x.part = "whole" THEN 2 ELSE 1
RetireSerial ==
    /\ AL # <<>> /\ Head(AL).state = "done" /\ Restarts(P[Head(AL).kind])
    /\ fetch_active' = TRUE
    /\ fetch2' = NoBundle
    /\ retries' = 0
    /\ AL' = Tail(AL)
    /\ pop(Size(Head(AL)))
    /\ UNCHANGED <<DECODE, FQ, RENAME2, DISPATCH>>

RetirePlain ==
    /\ AL # <<>> /\ Head(AL).state = "done" /\ ~Restarts(P[Head(AL).kind])
    /\ AL' = Tail(AL)
    /\ pop(Size(Head(AL)))
    /\ UNCHANGED <<fetch_active, fetch2, retries, DECODE, FQ, RENAME2, DISPATCH>>

RetireSquash ==
    /\ AL # <<>>
    /\ \/ Head(AL).state \in {"restart", "misp"}
       \/ Head(AL).state = "done" /\ Restarts(P[Head(AL).kind])
    /\ SquashFront
    /\ AL' = <<>>
    /\ clear

Retire == RetireSerial \/ RetirePlain \/ RetireSquash

Next ==
    /\ UNCHANGED mix
    /\ \/ Fetch1 \/ Fetch2Misfetch \/ Fetch2Stall \/ Fetch2Advance
       \/ DecodeBundle \/ Rename1 \/ Rename2 \/ Dispatch
       \/ \E i \in DOMAIN AL : Complete(i) \/ Mispredict(i)
       \/ Retire

(* Every stage runs once a cycle; an instruction that can complete does.   *)
Fairness ==
    /\ WF_vars(Fetch1)
    /\ WF_vars(Fetch2Misfetch)
    /\ WF_vars(Fetch2Advance)
    /\ WF_vars(DecodeBundle)
    /\ WF_vars(Rename1)
    /\ WF_vars(Rename2)
    /\ WF_vars(Dispatch)
    /\ WF_vars(AL # <<>> /\ Complete(1))
    /\ WF_vars(Retire)
Spec == Init /\ [][Next]_<<mix, vars>> /\ Fairness
-----------------------------------------------------------------------------
(* The entries held from the head of the active list to FETCH2, in program *)
(* order. In front of decode an instruction holds both of its entries.     *)
Both(x)  == <<x.index, x.index + 1>>
Owned(x) == IF x.part = "whole" THEN Both(x) ELSE <<x.index>>
Held ==
    LET back  == AL \o DISPATCH \o RENAME2 \o FQ
        front == DECODE \o fetch2.slots
    IN  FlattenSeq([k \in DOMAIN back |-> Owned(back[k])])
        \o FlattenSeq([k \in DOMAIN front |-> Both(front[k])])

TypeOK ==
    /\ {head, tail} \subseteq Index /\ length \in 0..PaySize
    /\ fetch_active \in BOOLEAN /\ retries \in 0..FetchWidth
    /\ fetch2.pay_checkpoint \in Index
    /\ Len(FQ) <= FqSize /\ Len(AL) <= RobSize
    /\ Len(RENAME2) <= DispatchWidth /\ Len(DISPATCH) <= DispatchWidth
    /\ \A s \in {FQ, RENAME2, DISPATCH} : \A k \in DOMAIN s : s[k] \in Item
    /\ \A k \in DOMAIN AL : AL[k] \in Active

(* No payload entry is given out twice, lost or kept: the entries that the *)
(* stages hold, in program order, are those from head to tail; the length  *)
(* counts them; and the head is the entry of the oldest instruction, which *)
(* retire() reads. restore, rollback, pop and clear each keep this.        *)
PayloadExact ==
    /\ TypeOK
    /\ length = Len(Held)
    /\ tail = (head + length) % PaySize
    /\ \A k \in DOMAIN Held : Held[k] = (head + k - 1) % PaySize

(* The stalls of decode, rename1, rename2 and dispatch end: some           *)
(* instruction always retires or squashes again.                           *)
FrontEndMoves == []<><<Retire>>_vars
=============================================================================
