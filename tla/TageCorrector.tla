---------------------------- MODULE TageCorrector ----------------------------
(***************************************************************************)
(* The statistical corrector of TAGE-SC-L (tage-sc-l.cc): counters of      *)
(* three bias tables and of groups of tables with global, path and local   *)
(* histories are summed up, a group counting twice while its weight is not *)
(* negative. The sign of the sum is the corrector's prediction; its size   *)
(* against a threshold says whether to believe and whether to train it. A  *)
(* branch trains when it retires, what its prediction read and with the    *)
(* sum and threshold of then.                                              *)
(*                                                                         *)
(* Branches share the weights and thresholds, whose tables have one entry  *)
(* here. TAGE's prediction, its confidence and the histories are given     *)
(* with the branch, see TageTables and TageHistory; which way its counters *)
(* FirstH and SecondH decide is a choice.                                  *)
(***************************************************************************)
EXTENDS Integers, Sequences, FiniteSetsExt, Bitwise, TLC

CONSTANTS
    Groups,         \* of tables; "G" is the global history's, "IM" the inner loop's
    Lengths,        \* history lengths of the tables of each group
    Logs,           \* log2 of a table's entries
    PERCWIDTH, EWIDTH, WIDTHRES, WIDTHRESP,     \* bits of counters, weights, thresholds
    Weights, Threshold,     \* what they start from
    Branches,       \* what a branch finds: see Context
    InFlight, MaxCommits    \* bounds: branches in flight, and fetched and not squashed

Components == Groups \cup {"B"}
Context == [pc : Nat, conf : {"high", "medium", "low"}, tage_pred : BOOLEAN, differs : BOOLEAN,
            alt : BOOLEAN, LVALID : BOOLEAN, predloop : BOOLEAN, hist : [Groups -> Nat]]

(* With histories of up to six bits, what GINDEX shifts them by is zero. *)
TageCorrectorAssumption ==
    /\ Lengths \in [Groups -> Seq(1..6)] /\ {Logs, PERCWIDTH, EWIDTH} \subseteq Nat \ {0, 1}
    /\ DOMAIN Weights = Components /\ Branches \subseteq Context

VARIABLES
    bias,               \* Bias, BiasSK, BiasBank
    gehl,               \* the tables of the groups
    weight, updatethreshold, Pupdatethreshold,
    WITHLOOP,           \* whether the loop predictor is believed
    LSUM,               \* the sum of the latest prediction
    window,             \* branches in flight, with what was logged for each
    commits             \* branches retired

trained == <<bias, gehl, weight, updatethreshold, Pupdatethreshold, WITHLOOP>>
vars == <<trained, LSUM, window, commits>>
-----------------------------------------------------------------------------
Lo(width) == -(2^(width - 1))
Hi(width) == 2^(width - 1) - 1
Bit(b) == IF b THEN 1 ELSE 0
Abs(x) == IF x < 0 THEN -x ELSE x
ctrupdate(ctr, up, nbits) ==
    IF up THEN IF ctr < Hi(nbits) THEN ctr + 1 ELSE ctr
    ELSE IF ctr > Lo(nbits) THEN ctr - 1 ELSE ctr

(* How the counters start: weakly or strongly for what TAGE says. *)
Strongly == <<Lo(PERCWIDTH), Hi(PERCWIDTH), -1, 0>>
Weakly   == <<Lo(PERCWIDTH) \div 4, -(Lo(PERCWIDTH) \div 4) - 1, Lo(PERCWIDTH), Hi(PERCWIDTH)>>
Started ==
    [bias |-> [Bias |-> [j \in 0..3 |-> Strongly[j + 1]], BiasSK |-> [j \in 0..3 |-> Weakly[j + 1]],
               BiasBank |-> [j \in 0..15 |-> Strongly[(j % 4) + 1]]],
     gehl |-> [g \in Groups |-> [i \in DOMAIN Lengths[g] |->
                  [j \in 0..(2^Logs - 1) |-> IF j % 2 = 0 THEN -1 ELSE 0]]]]

(* reinit() leaves the weights of the inner loop's group as they are found. *)
Init ==
    /\ bias = Started.bias /\ gehl = Started.gehl
    /\ weight \in [Components -> {-1, 0} \cup {Weights[c] : c \in Components}]
    /\ \A c \in Components \ {"IM"} : weight[c] = Weights[c]
    /\ updatethreshold = Threshold /\ Pupdatethreshold = 0 /\ WITHLOOP = -1
    /\ LSUM = 0 /\ window = <<>> /\ commits = 0
-----------------------------------------------------------------------------
(* INDBIAS, INDBIASSK, INDBIASBANK, and GINDEX of table i of group g. *)
BiasIndex(w) ==
    [Bias     |-> 2 * Bit(w.conf = "low" /\ w.differs) + Bit(w.pred_inter),
     BiasSK   |-> 2 * Bit(w.conf = "high") + Bit(w.pred_inter),
     BiasBank |-> Bit(w.pred_inter) + 2 * Bit(w.conf = "high") + 4 * Bit(w.conf = "low") + 8 * Bit(w.alt)]
Index(g, i, w) ==
    LET x == IF g = "G" THEN 2 * w.pc + Bit(w.pred_inter) ELSE w.pc
    IN  (x ^^ (w.hist[g] % 2^Lengths[g][i])) % 2^(Logs - Bit(i >= Len(Lengths[g]) - 1))

(* Gpredict(): the sum of a group, and of the bias tables. *)
Centred(ctr) == 2 * ctr + 1
Part(c, w) ==
    IF c = "B" THEN MapThenSumSet(LAMBDA t : Centred(bias[t][BiasIndex(w)[t]]), DOMAIN bias)
    ELSE MapThenSumSet(LAMBDA i : Centred(gehl[c][i][Index(c, i, w)]), DOMAIN Lengths[c])
Sum(w) == MapThenSumSet(LAMBDA c : IF weight[c] >= 0 THEN 2 * Part(c, w) ELSE Part(c, w), Components)
THRES == updatethreshold \div 8 + Pupdatethreshold
         + 12 * Cardinality({c \in Components \ {"IM"} : weight[c] >= 0})

(* What becomes of the corrector's veto. *)
Outcomes(b, pred_inter, sum) ==
    IF pred_inter = (sum >= 0) THEN {pred_inter}
    ELSE IF b.conf = "high" /\ Abs(sum) < THRES \div 4 THEN {pred_inter}
    ELSE IF \/ b.conf = "high" /\ Abs(sum) < THRES \div 2
            \/ b.conf = "medium" /\ Abs(sum) < THRES \div 4 THEN BOOLEAN
    ELSE {sum >= 0}

(* getPredictionContext(): what is logged of a prediction. *)
Logged(w, sum, taken) == [LSUM |-> sum, THRES |-> THRES, pred_taken |-> taken] @@ w

getPrediction == \E b \in Branches :
    LET inter == IF WITHLOOP >= 0 /\ b.LVALID THEN b.predloop ELSE b.tage_pred
        w     == [pred_inter |-> inter] @@ b
        sum   == Sum(w)
    IN  /\ Len(window) < InFlight /\ commits + Len(window) < MaxCommits
        /\ \E taken \in Outcomes(b, inter, sum) :
              window' = Append(window, Logged(w, sum, taken))
        /\ LSUM' = sum
        /\ UNCHANGED <<trained, commits>>
-----------------------------------------------------------------------------
Saturated(x, width) == Max({Lo(width), Min({Hi(width), x})})

(* The corrector trains if it was wrong, or right by less than the         *)
(* threshold, which then goes up or down.                                  *)
Trains(w, dir) == (w.LSUM >= 0) # dir \/ Abs(w.LSUM) < w.THRES
Step(w, dir) == IF (w.LSUM >= 0) # dir THEN 1 ELSE -1

(* A weight changes if the sum would have another sign without the part    *)
(* counting twice. For the groups, Gupdate() takes the sum of the latest   *)
(* prediction, whichever branch that was for.                              *)
Weighed(c, w, dir) ==
    LET part == Part(c, w)
        rest == (IF c = "B" THEN w.LSUM ELSE LSUM) - (IF weight[c] >= 0 THEN part ELSE 0)
    IN  IF (rest + part >= 0) # (rest >= 0) THEN ctrupdate(weight[c], (part >= 0) = dir, EWIDTH)
        ELSE weight[c]

(* The corrector's part of UpdatePredictorMicro(). *)
UpdatePredictorMicro(dir) ==
    LET w == Head(window)
    IN  /\ window # <<>> /\ window' = Tail(window) /\ commits' = commits + 1
        /\ WITHLOOP' = IF w.LVALID /\ w.pred_taken # w.predloop
                       THEN ctrupdate(WITHLOOP, w.predloop = dir, 7) ELSE WITHLOOP
        /\ IF Trains(w, dir)
           THEN /\ updatethreshold' = Saturated(updatethreshold + Step(w, dir), WIDTHRES)
                /\ Pupdatethreshold' = Saturated(Pupdatethreshold + Step(w, dir), WIDTHRESP)
                /\ weight' = [c \in Components |-> Weighed(c, w, dir)]
                /\ bias' = [t \in DOMAIN bias |->
                       [bias[t] EXCEPT ![BiasIndex(w)[t]] = ctrupdate(@, dir, PERCWIDTH)]]
                /\ gehl' = [g \in Groups |-> [i \in DOMAIN Lengths[g] |->
                       [gehl[g][i] EXCEPT ![Index(g, i, w)] = ctrupdate(@, dir, PERCWIDTH)]]]
           ELSE UNCHANGED <<updatethreshold, Pupdatethreshold, weight, bias, gehl>>
        /\ UNCHANGED LSUM

(* mispredict() and flush() drop the branches behind. *)
Squash == \E k \in 0..(Len(window) - 1) :
    window' = SubSeq(window, 1, k) /\ UNCHANGED <<trained, LSUM, commits>>

Next == getPrediction \/ Squash \/ \E dir \in BOOLEAN : UpdatePredictorMicro(dir)
Spec == Init /\ [][Next]_vars
-----------------------------------------------------------------------------
(* Whatever others have trained since a branch was predicted, and whatever *)
(* sum the latest prediction has left behind: when the branch retires, the *)
(* corrector's sum for just this branch does not move away from its        *)
(* outcome, and moves towards it if it was wrong when predicted and not    *)
(* all of the counters behind it are saturated.                            *)
Stuck(w, dir) ==
    LET end == IF dir THEN Hi(PERCWIDTH) ELSE Lo(PERCWIDTH)
    IN  /\ \A t \in DOMAIN bias : bias[t][BiasIndex(w)[t]] = end
        /\ \A g \in Groups : \A i \in DOMAIN Lengths[g] : gehl[g][i][Index(g, i, w)] = end
CorrectorLearns == [][commits' > commits => \A w \in {Head(window)}, dir \in BOOLEAN :
    UpdatePredictorMicro(dir) =>
        /\ IF dir THEN Sum(w)' >= Sum(w) ELSE Sum(w)' <= Sum(w)
        /\ (w.LSUM >= 0) # dir /\ ~Stuck(w, dir) => Sum(w)' # Sum(w)]_vars
=============================================================================
