----------------------------- MODULE TageTables -----------------------------
(***************************************************************************)
(* The tables of TAGE-SC-L (tage-sc-l.cc): the bimodal table, the tagged   *)
(* tables, the counter that prefers the alternate prediction, and the two  *)
(* counters that choose between TAGE and the statistical corrector. A      *)
(* branch is predicted when it is fetched and trains the tables when it    *)
(* retires, with what getPredictionContext() logged: in between, others    *)
(* in flight have trained them, and taken entries for themselves. A commit *)
(* finds its entries by the logged index, whoever they belong to by then.  *)
(*                                                                         *)
(* Every table has the one entry that all branches share; a branch finds   *)
(* its own tag in it or not. The sum of the corrector is a choice: its     *)
(* sign, and its size in quarters of the threshold.                        *)
(***************************************************************************)
EXTENDS Integers, Sequences, SequencesExt, FiniteSetsExt

CONSTANTS
    NHIST,      \* tagged tables, by history length
    NOSKIP,     \* the ones that exist
    NNN,        \* extra entries allocated on a misprediction
    BORNTICK,   \* when the useful bits are reset
    ALTWIDTH, CONFWIDTH,    \* bits of the choosing counters
    Branches,   \* the branches of the program
    InFlight, MaxCommits    \* bounds: branches in flight, and fetched and not squashed

TageTablesAssumption ==
    /\ NHIST \in Nat /\ NHIST % 2 = 0 /\ NOSKIP \subseteq 1..NHIST /\ NNN \in Nat
    /\ 0 \notin Branches /\ InFlight \in Nat /\ MaxCommits \in Nat

VARIABLES
    gtable,             \* the tagged entries
    bim,                \* the bimodal entry, its direction and hysteresis
    use_alt_on_na, FirstH, SecondH, TICK,
    window,             \* branches in flight, with what was logged for each
    commits             \* branches retired

tables == <<gtable, bim, use_alt_on_na, FirstH, SecondH, TICK>>
vars == <<tables, window, commits>>
-----------------------------------------------------------------------------
(* Initial entries have tag 0: no branch of the model has it. *)
Init ==
    /\ gtable = [i \in NOSKIP |-> [tag |-> 0, ctr |-> 0, u |-> 0]]
    /\ bim = 1 /\ use_alt_on_na = 0 /\ TICK = 0
    /\ FirstH \in {-1, 0} /\ SecondH \in {-1, 0}    \* reinit() leaves them out
    /\ window = <<>> /\ commits = 0

ctrupdate(ctr, taken, nbits) ==
    IF taken THEN IF ctr < 2^(nbits - 1) - 1 THEN ctr + 1 ELSE ctr
    ELSE IF ctr > -(2^(nbits - 1)) THEN ctr - 1 ELSE ctr
baseupdate(b, taken) ==
    IF taken THEN IF b < 3 THEN b + 1 ELSE b ELSE IF b > 0 THEN b - 1 ELSE b

(* How strong a counter is: 1, 3, 5 or 7. *)
Strength(ctr) == IF ctr >= 0 THEN 2 * ctr + 1 ELSE -(2 * ctr + 1)
Longest(S) == Max(S \cup {0})
-----------------------------------------------------------------------------
getbim == [pred |-> bim >= 2, conf |-> IF bim \in {0, 3} THEN "high" ELSE "low"]

(* Tagepred(): the longest table that has the branch's tag, the next one,  *)
(* and which of the two to believe.                                        *)
Tagepred(pc) ==
    LET hits == {i \in NOSKIP : gtable[i].tag = pc}
        hit  == Longest(hits)
        alt  == Longest({i \in hits : i < hit})
        bimodal == getbim.pred
        altpred == IF alt > 0 THEN gtable[alt].ctr >= 0 ELSE bimodal
        longest == IF hit > 0 THEN gtable[hit].ctr >= 0 ELSE bimodal
        size == IF hit > 0 THEN Strength(gtable[hit].ctr) ELSE 0
        new  == use_alt_on_na >= 0 /\ size = 1
    IN  [pc |-> pc, hit |-> hit, alt |-> alt, altpred |-> altpred, longest |-> longest,
         pred |-> IF hit > 0 /\ ~new THEN longest ELSE altpred, bim |-> bim,
         conf |-> CASE hit = 0 -> getbim.conf
                    [] size = 7 -> "high" [] size = 5 -> "medium" [] OTHER -> "low"]

(* The end of getPrediction(): when the corrector's sum has the other sign *)
(* than TAGE, its size, in quarters of the threshold, and the confidence   *)
(* of TAGE say who is right, or which counter is to say it. Size 2 is that *)
(* of all larger sums: the test of a commit for the whole threshold comes  *)
(* with one for half of it. The loop predictor, which can speak for TAGE   *)
(* here, is in TageCorrector.                                              *)
Sizes == 0..2
Decider(conf, size) ==
    CASE conf = "high" /\ size < 1 -> "TAGE"
      [] conf = "high" /\ size < 2 -> "SecondH"
      [] conf = "medium" /\ size < 1 -> "FirstH"
      [] OTHER -> "corrector"
Corrected(decider) == \/ decider = "corrector"
                      \/ decider = "SecondH" /\ SecondH < 0
                      \/ decider = "FirstH" /\ FirstH < 0

(* An entry of the log; nobody decides where both agree. *)
Agreed(p) == [at |-> p, disagree |-> FALSE, size |-> 0, taken |-> p.pred, decider |-> "nobody"]
Disputed(p, size) ==
    LET decider == Decider(p.conf, size)
    IN  [at |-> p, disagree |-> TRUE, size |-> size, decider |-> decider,
         taken |-> IF Corrected(decider) THEN ~p.pred ELSE p.pred]

getPrediction == \E pc \in Branches :
    /\ Len(window) < InFlight /\ commits + Len(window) < MaxCommits
    /\ LET p == Tagepred(pc)
       IN  \E w \in {Agreed(p)} \cup {Disputed(p, size) : size \in Sizes} : window' = Append(window, w)
    /\ UNCHANGED <<tables, commits>>
-----------------------------------------------------------------------------
(* MYRANDOMMicro() takes its seed by value: the three calls of a commit    *)
(* give one number, and this is what they test of it.                      *)
Random == {r \in [zero : BOOLEAN, skip : BOOLEAN, odd : 0..1] : r.zero => r.odd = 0}

(* The choice between X and X + 1 is made on X and X ^ 1.                  *)
DEP(hit, r) ==
    LET A == IF r.skip THEN 2 ELSE 1
    IN  ((hit - 1 + 2 * A) \div 2) * 2 + r.odd
Flip(I) == IF I % 2 = 0 THEN I + 1 ELSE I - 1

(* One table i of the search: its entry is taken, weakened, or useful. *)
TryBank(s, i, tag, dir) ==
    LET e == s.g[i]
    IN  IF i \notin NOSKIP \/ s.stop \/ s.done THEN s
        ELSE IF e.u # 0 THEN [s EXCEPT !.penalty = @ + 1]
        ELSE IF Strength(e.ctr) > 3
        THEN [s EXCEPT !.g[i].ctr = IF @ > 0 THEN @ - 1 ELSE @ + 1]
        ELSE [s EXCEPT !.g[i] = [e EXCEPT !.tag = tag, !.ctr = IF dir THEN 0 ELSE -1],
                       !.NA = @ + 1, !.done = TRUE, !.stop = s.T <= 0,
                       !.T = @ - 1, !.next = @ + 2]
TryPair(s, I, tag, dir) ==
    IF s.stop \/ I # s.next THEN s
    ELSE LET both == TryBank(TryBank([s EXCEPT !.done = FALSE], I + 1, tag, dir),
                             Flip(I) + 1, tag, dir)
         IN  [both EXCEPT !.next = @ + 2]
Allocate(p, dir, r) ==
    LET start == [g |-> gtable, T |-> NNN, next |-> DEP(p.hit, r), NA |-> 0, penalty |-> 0,
                  stop |-> FALSE, done |-> FALSE]
    IN  FoldLeft(LAMBDA s, I : TryPair(s, I - 1, p.pc, dir), start, [k \in 1..NHIST |-> k])

(* ALLOC: TAGE was wrong, not about a new entry that was right; and rarely *)
(* when the whole predictor was right.                                     *)
Weak(p) == p.hit > 0 /\ Strength(gtable[p.hit].ctr) <= 1
Allocates(w, dir, r) ==
    /\ w.at.pred # dir /\ w.at.hit < NHIST
    /\ ~(Weak(w.at) /\ w.at.longest = dir)
    /\ w.taken = dir => r.zero

(* The counters and useful bits of the tables that predicted. *)
TrainAlt(g, p, dir) ==
    IF p.hit > 0 /\ p.alt > 0 /\ Strength(g[p.hit].ctr) = 1 /\ p.longest # dir
    THEN [g EXCEPT ![p.alt].ctr = ctrupdate(@, dir, 3)] ELSE g
TrainHit(g, p, dir) ==
    IF p.hit = 0 THEN g
    ELSE LET ctr == ctrupdate(g[p.hit].ctr, dir, 3)
             useless == \/ Strength(ctr) = 1
                        \/ /\ p.altpred = dir /\ p.alt > 0 /\ p.longest = dir
                           /\ Strength(g[p.alt].ctr) = 7
         IN  [g EXCEPT ![p.hit].ctr = ctr, ![p.hit].u = IF useless THEN 0 ELSE @]
TrainUseful(g, p, dir) ==
    IF p.longest # p.altpred /\ p.longest = dir THEN [g EXCEPT ![p.hit].u = 1] ELSE g
TrainBim(g, p, dir) ==
    IF \/ p.hit = 0
       \/ p.alt = 0 /\ Strength(g[p.hit].ctr) = 1 /\ p.longest # dir
    THEN baseupdate(p.bim, dir) ELSE bim

(* The counters that a commit trains, for what the log says of the sum.    *)
(* Seeded fault: the second counter also learns from the smallest sums.    *)
Trained_High(w) ==
    {h \in {"SecondH", "FirstH"} :
        /\ w.disagree
        /\ \/ h = "SecondH" /\ w.at.conf = "high" /\ w.size < 2
           \/ h = "FirstH" /\ w.at.conf = "medium" /\ w.size < 1}
Trained(w) ==
    {h \in {"SecondH", "FirstH"} :
        /\ w.disagree
        /\ \/ h = "SecondH" /\ w.at.conf = "high" /\ w.size < 2 /\ w.size >= 1
           \/ h = "FirstH" /\ w.at.conf = "medium" /\ w.size < 1}

(* UpdatePredictorMicro() for the oldest branch, which went dir. *)
UpdatePredictorMicro(dir, r) ==
    LET w == Head(window)
        p == w.at
        alloc == Allocates(w, dir, r)
        s == Allocate(p, dir, r)
        g == IF alloc THEN s.g ELSE gtable
        tick == Max({0, TICK + s.penalty - 2 * s.NA})
        aged == IF alloc /\ tick >= BORNTICK THEN [i \in NOSKIP |-> [g[i] EXCEPT !.u = 0]] ELSE g
    IN  /\ window # <<>>
        /\ commits' = commits + 1
        /\ window' = Tail(window)
        /\ SecondH' = IF "SecondH" \in Trained(w) THEN ctrupdate(SecondH, p.pred = dir, CONFWIDTH) ELSE SecondH
        /\ FirstH'  = IF "FirstH" \in Trained(w) THEN ctrupdate(FirstH, p.pred = dir, CONFWIDTH) ELSE FirstH
        /\ use_alt_on_na' = IF Weak(p) /\ p.longest # p.altpred
                            THEN ctrupdate(use_alt_on_na, p.altpred = dir, ALTWIDTH) ELSE use_alt_on_na
        /\ TICK' = IF ~alloc THEN TICK ELSE IF tick >= BORNTICK THEN 0 ELSE tick
        /\ bim' = TrainBim(aged, p, dir)
        /\ gtable' = TrainUseful(TrainHit(TrainAlt(aged, p, dir), p, dir), p, dir)

(* mispredict() and flush() drop the branches behind. *)
Squash == \E k \in 0..(Len(window) - 1) :
    window' = SubSeq(window, 1, k) /\ UNCHANGED <<tables, commits>>

Next == getPrediction \/ Squash \/ \E dir \in BOOLEAN, r \in Random : UpdatePredictorMicro(dir, r)
Spec == Init /\ [][Next]_vars
-----------------------------------------------------------------------------
(* A retiring branch changes no more than its prediction entitles it to,   *)
(* whatever others have done to the tables since. It moves the counters of *)
(* the two entries that it was predicted from, also when they have been    *)
(* given to another branch in the meantime. Where TAGE was right, that is  *)
(* all; where it was wrong, tables of longer histories than the one that   *)
(* predicted may be weakened, and at most 1 + NNN of their entries that    *)
(* are not useful change owner. A useful bit is set only where the longest *)
(* match disagreed with the alternate one and was right, and a choosing    *)
(* counter learns only from branches that it decided, and in favour of     *)
(* TAGE only where TAGE was right.                                         *)
Entitled(w, dir) ==
    LET owners == {i \in NOSKIP : gtable'[i].tag # gtable[i].tag}
        moved  == {i \in NOSKIP : gtable'[i].ctr # gtable[i].ctr} \ {w.at.hit, w.at.alt}
    IN  /\ \A i \in owners \cup moved : i > w.at.hit /\ gtable[i].u = 0 /\ w.at.pred # dir
        /\ Cardinality(owners) <= 1 + NNN
        /\ \A i \in NOSKIP : gtable'[i].u > gtable[i].u =>
               i = w.at.hit /\ w.at.longest # w.at.altpred /\ w.at.longest = dir
        /\ SecondH' # SecondH => w.decider = "SecondH" /\ (SecondH' > SecondH <=> w.at.pred = dir)
        /\ FirstH' # FirstH => w.decider = "FirstH" /\ (FirstH' > FirstH <=> w.at.pred = dir)
        /\ \A i \in NOSKIP : gtable'[i].ctr \in -4..3 /\ gtable'[i].u \in 0..1

TrainsExact == [][commits' > commits =>
    \A dir \in BOOLEAN :
        Entitled(Head(window), dir) \/ ~\E r \in Random : UpdatePredictorMicro(dir, r)]_vars
=============================================================================
