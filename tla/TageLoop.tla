------------------------------ MODULE TageLoop ------------------------------
(***************************************************************************)
(* The loop predictor of TAGE-SC-L (tage-sc-l.cc): an entry learns after   *)
(* how many iterations its branch leaves the loop, and predicts the exit   *)
(* once it has seen this number often enough. A branch looks its entry up  *)
(* when it is fetched and trains what it found then when it retires; in    *)
(* between others train the entry, free it, or take it over.               *)
(*                                                                         *)
(* All branches share the one entry. It has four ways in the code, but an  *)
(* allocation tries a single one ("break" ends its loop in either case).   *)
(***************************************************************************)
EXTENDS Integers, Sequences, SequencesExt

CONSTANTS
    Branches,           \* the branches of the program
    WIDTHNBITERLOOP,    \* bits of an iteration count
    CONFLOOP,           \* the highest confidence and age
    NEWAGE,             \* the age of a new entry
    CONFITER,           \* so many confident iterations make a prediction valid
    InFlight            \* bound: branches in flight

TageLoopAssumption ==
    /\ 0 \notin Branches /\ {WIDTHNBITERLOOP, CONFLOOP} \subseteq Nat \ {0}
    /\ NEWAGE \in 0..CONFLOOP /\ {CONFITER, InFlight} \subseteq Nat
    /\ 2^WIDTHNBITERLOOP \in Nat \ {0}         \* what proofs need of a power

VARIABLES
    ltable,         \* the entry
    window,         \* branches in flight, with what getloop() found for each
    trips, trip     \* bookkeeping: the trips that trained the entry, and the current one

vars == <<ltable, window, trips, trip>>
Iterations == 2^WIDTHNBITERLOOP
-----------------------------------------------------------------------------
Init ==
    /\ ltable = [TAG |-> 0, NbIter |-> 0, confid |-> 0, CurrentIter |-> 0, age |-> 0, dir |-> FALSE]
    /\ window = <<>> /\ trips = <<>> /\ trip = 0

(* A single branch may be predicted, before the branches in flight are     *)
(* counted: its entry knows the iterations that have retired.              *)
getloop == \E pc \in Branches :
    LET hit  == ltable.TAG = pc
        exit == ltable.CurrentIter + 1 = ltable.NbIter
    IN  /\ Len(window) < InFlight
        /\ window' = Append(window,
             [pc |-> pc, LHIT |-> hit,
              LVALID |-> hit /\ (ltable.confid = CONFLOOP \/ ltable.confid * ltable.NbIter > CONFITER),
              NbIter |-> IF hit THEN ltable.NbIter ELSE 0,
              predloop |-> hit /\ ltable.dir = ~exit])
        /\ UNCHANGED <<ltable, trips, trip>>

Freed(e) == [e EXCEPT !.NbIter = 0, !.age = 0, !.confid = 0]

(* The branch has left the loop, and e.CurrentIter counts the trip. Seeded *)
(* fault: another number than last time is learnt at the old confidence.   *)
Left_KeepsConfidence(e, taken) ==
    LET same == [e EXCEPT !.confid = IF @ < CONFLOOP THEN @ + 1 ELSE @]
    IN  IF e.CurrentIter = e.NbIter
        THEN IF e.NbIter < 3 THEN [Freed(same) EXCEPT !.dir = taken] ELSE same
        ELSE [e EXCEPT !.NbIter = e.CurrentIter]
Left(e, taken) ==
    LET same == [e EXCEPT !.confid = IF @ < CONFLOOP THEN @ + 1 ELSE @]
    IN  IF e.CurrentIter = e.NbIter
        THEN IF e.NbIter < 3 THEN [Freed(same) EXCEPT !.dir = taken] ELSE same
        ELSE [e EXCEPT !.confid = 0, !.NbIter = IF @ = 0 THEN e.CurrentIter ELSE 0]

(* An outcome trains the entry; useful: its prediction was right, and      *)
(* different from tage_pred, or else one time in eight. tage_pred is that  *)
(* of the latest prediction.                                               *)
Trained(w, taken, useful) ==
    LET aged == [ltable EXCEPT !.age = IF w.LVALID /\ useful /\ @ < CONFLOOP THEN @ + 1 ELSE @,
                               !.CurrentIter = (@ + 1) % Iterations]
        e == IF aged.CurrentIter > aged.NbIter THEN [aged EXCEPT !.confid = 0, !.NbIter = 0] ELSE aged
    IN  IF w.LVALID /\ taken # w.predloop THEN [Freed(ltable) EXCEPT !.CurrentIter = 0]
        ELSE IF taken # e.dir THEN [Left(e, taken) EXCEPT !.CurrentIter = 0]
        ELSE e

(* A mispredicted branch that had no entry gets one, one time in four,     *)
(* when the old one has aged.                                              *)
Allocated(pc, taken) ==
    IF ltable.age > 0 THEN [ltable EXCEPT !.age = @ - 1]
    ELSE [TAG |-> pc, NbIter |-> 0, confid |-> 0, CurrentIter |-> 0, age |-> NEWAGE, dir |-> ~taken]

(* loopupdateMicro() for the oldest branch. The bookkeeping starts again   *)
(* with a new branch or a new direction of the entry.                      *)
Newest(s) == SubSeq(s, (IF Len(s) > CONFLOOP THEN 2 ELSE 1), Len(s))
loopupdateMicro == \E taken, useful, alloc \in BOOLEAN :
    LET w == Head(window)
    IN  /\ window # <<>> /\ window' = Tail(window)
        /\ ltable' = IF w.LHIT THEN Trained(w, taken, useful)
                     ELSE IF alloc THEN Allocated(w.pc, taken) ELSE ltable
        /\ IF \/ ltable'.TAG # ltable.TAG \/ ltable'.dir # ltable.dir
              \/ ~w.LHIT /\ alloc /\ ltable.age = 0
           THEN trips' = <<>> /\ trip' = 0
           ELSE IF ~w.LHIT THEN UNCHANGED <<trips, trip>>
           ELSE IF taken # ltable.dir
           THEN trips' = Newest(Append(trips, (trip + 1) % Iterations)) /\ trip' = 0
           ELSE trip' = (trip + 1) % Iterations /\ UNCHANGED trips

(* mispredict() and flush() drop the branches behind. *)
Squash == \E k \in 0..(Len(window) - 1) :
    window' = SubSeq(window, 1, k) /\ UNCHANGED <<ltable, trips, trip>>

Next == getloop \/ loopupdateMicro \/ Squash
Spec == Init /\ [][Next]_vars
-----------------------------------------------------------------------------
(* Whoever trains, frees and takes over the entry while branches are in    *)
(* flight: an entry with confidence n has seen n trips in a row of its     *)
(* number of iterations, up to the width of the count ("loop with more     *)
(* than 2** WIDTHNBITERLOOP iterations are not treated correctly"); and    *)
(* only counts of three and more make a prediction valid ("just do not     *)
(* predict when the loop count is 1 or 2").                                *)
LoopTrips ==
    /\ ltable.confid <= Len(trips)
    /\ \A k \in 0..(ltable.confid - 1) : trips[Len(trips) - k] = ltable.NbIter
    /\ \A k \in DOMAIN window : window[k].LVALID => window[k].NbIter >= 3
=============================================================================
