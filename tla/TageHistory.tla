----------------------------- MODULE TageHistory -----------------------------
(***************************************************************************)
(* The histories of TAGE-SC-L (tage-sc-l.cc) and how the wrapper keeps     *)
(* them speculatively (tage-sc-l-wrapper.cc): FETCH1 saves and updates     *)
(* them, FETCH2 logs or restores them, a mispredicted branch and a full    *)
(* squash go back to a log entry.                                          *)
(*                                                                         *)
(* A bundle holds at most one branch, as it has one conditional branch     *)
(* prediction. A branch is its kind, the PC of its bundle, where it goes   *)
(* when it is taken, and where it goes next: for a jump that may be the    *)
(* next instruction, too. The branch queue is FetchUnit's.                 *)
(***************************************************************************)
EXTENDS Integers, Sequences, SequencesExt, FiniteSetsExt, Bitwise

CONSTANTS
    Branches,           \* [kind, pc, target, fall]
    HISTBUFFERLENGTH,   \* bits of the global history's ring
    Folds,              \* <<OLENGTH, CLENGTH>> of the folded histories
    PHISTWIDTH, LongBits, ImBits,   \* bits of phist, of a long long, of IMLIcount
    BqSize,             \* entries of the branch queue and of the wrapper's log
    Found,              \* what the memory of the ring may hold at first
    MaxUpdates          \* bound: branches on a path

TageHistoryAssumption ==
    /\ \A b \in Branches : b.kind \in {"cond", "jump"} /\ b.fall > b.pc
    /\ \A f \in Folds : f[1] \in 1..(HISTBUFFERLENGTH - 1) /\ f[2] \in Nat \ {0}
    /\ BqSize \in Nat \ {0} /\ MaxUpdates \in Nat
    /\ \A g \in Found : g \in [0..(HISTBUFFERLENGTH - 1) -> {0, 1}] /\ g[0] = 0

VARIABLES
    tage,       \* the speculative histories
    fetch2,     \* the bundle in FETCH2, its prediction, and the fetch2_ context
    window,     \* the branches in flight, each with its entry of the log
    base, first     \* bookkeeping: the histories in front of the window, and at first

vars == <<tage, fetch2, window, base, first>>
-----------------------------------------------------------------------------
Bit(b) == IF b THEN 1 ELSE 0
Shl(x, bit, width) == (2 * x + bit) % 2^width

(* folded_history::update().                                               *)
UpdateFold(comp, f, h, pt) ==
    LET in  == (2 * comp) ^^ h[pt % HISTBUFFERLENGTH]
        out == in ^^ (h[(pt + f[1]) % HISTBUFFERLENGTH] * 2^(f[1] % f[2]))
    IN  (out ^^ (out \div 2^f[2])) % 2^f[2]

(* One bit of direction and seven of path enter the histories. *)
PushBit(c, dir, path) ==
    LET pt == c.pt - 1
        h  == [c.ghist EXCEPT ![pt % HISTBUFFERLENGTH] = dir]
    IN  [c EXCEPT !.pt = pt, !.ghist = h, !.phist = (2 * @) ^^ (path % 128),
                  !.ch = [f \in Folds |-> UpdateFold(@[f], f, h, pt)]]

(* HistoryUpdate(), MyHistoryUpdate() and the second half of               *)
(* HistoryRevertAndUpdate(), for OPTYPE_JMP_DIRECT_COND: the wrapper       *)
(* passes no other type. The PC that the branch goes to decides whether it *)
(* ends an iteration of a loop.                                            *)
Local(pc) == (pc ^^ (pc \div 4)) % 2
HistoryUpdate(c, pc, taken, next) ==
    LET t    == Bit(taken)
        back == next < pc
        dir  == (pc ^^ (pc \div 4)) ^^ t
        path == (pc ^^ (pc \div 4)) ^^ (pc \div 16)
        imli == IF ~back THEN c.IMLIcount
                ELSE IF ~taken THEN 0
                ELSE IF c.IMLIcount < 2^ImBits - 1 THEN c.IMLIcount + 1 ELSE c.IMLIcount
        l == [c EXCEPT !.IMHIST[c.IMLIcount] = Shl(@, t, LongBits), !.IMLIcount = imli,
                       !.GHIST = Shl(@, Bit(taken /\ back), LongBits),
                       !.L_shist[Local(pc)] = Shl(@, t, LongBits),
                       !.S_slhist[Local(pc)] = (Shl(@, t, LongBits) ^^ (pc % 16)) % 2^LongBits,
                       !.T_slhist[Local(pc)] = Shl(@, t, LongBits)]
        p == PushBit(PushBit(l, dir % 2, path), (dir \div 2) % 2, path \div 2)
    IN  [p EXCEPT !.phist = @ % 2^PHISTWIDTH]

Taken(i) == i.next # i.fall
Update(c, i) == HistoryUpdate(c, i.pc, Taken(i), i.next)

(* The tables are indexed by the PC, the path and the folded histories. *)
Lookup(c, pc) == [pc |-> pc, phist |-> c.phist, ch |-> c.ch, GHIST |-> c.GHIST,
                  L_shist |-> c.L_shist[Local(pc)], IMHIST |-> c.IMHIST[c.IMLIcount]]
-----------------------------------------------------------------------------
Nothing == [kind |-> "none", pc |-> 0, fall |-> 4, target |-> 4, next |-> 4, wrong |-> FALSE]
Predictions ==
    {Nothing} \cup UNION {{[kind |-> b.kind, pc |-> b.pc, fall |-> b.fall, target |-> b.target,
                            next |-> n, wrong |-> FALSE] : n \in {b.target, b.fall}} : b \in Branches}

Zeros(S) == [s \in S |-> 0]
(* reinit() clears ghist[0] only: the rest of the ring is as it was found. *)
Started(ghist) ==
    [phist |-> 0, pt |-> 0, ghist |-> ghist, ch |-> Zeros(Folds), GHIST |-> 0,
     IMLIcount |-> 0, IMHIST |-> Zeros(0..(2^ImBits - 1)),
     L_shist |-> Zeros(0..1), S_slhist |-> Zeros(0..1), T_slhist |-> Zeros(0..1)]

Empty == [valid |-> FALSE]

Init ==
    /\ first \in Found /\ tage = Started(first) /\ base = tage
    /\ fetch2 = Empty /\ window = <<>>
-----------------------------------------------------------------------------
(* What the wrapper's calls make of the histories: a conditional branch    *)
(* updates them when it is predicted; any other branch only when it is     *)
(* mispredicted, for mispredict() ignores iscond.                          *)
After(c, i) == IF i.kind = "cond" \/ i.wrong THEN Update(c, i) ELSE c
Replay(is) == FoldLeft(After, base, is)
Insns == [k \in DOMAIN window |-> window[k].insn]
Path == Insns \o (IF fetch2.valid THEN <<fetch2.insn>> ELSE <<>>)

(* FETCH1: predict(), save_fetch2_context(), spec_update(). *)
Fetch1 == \E i \in Predictions, misfetch \in BOOLEAN :
    /\ ~fetch2.valid /\ tage.pt > -2 * MaxUpdates
    /\ fetch2' = [valid |-> TRUE, insn |-> i, misfetch |-> misfetch,
                  looked |-> Lookup(tage, i.pc), ctx |-> tage]
    /\ tage' = IF i.kind = "cond" THEN Update(tage, i) ELSE tage
    /\ UNCHANGED <<window, base, first>>

(* FETCH2 finds a misfetch: restore_fetch2_context(). *)
Fetch2Misfetch ==
    /\ fetch2.valid /\ fetch2.misfetch
    /\ tage' = fetch2.ctx /\ fetch2' = Empty
    /\ UNCHANGED <<window, base, first>>

(* The bundle goes on to DECODE: log_branch() for its branch, which also   *)
(* takes the FETCH2 context over it. With one branch that is of no use.    *)
Fetch2Advance ==
    LET i == fetch2.insn
    IN  /\ fetch2.valid /\ ~fetch2.misfetch /\ Len(window) < BqSize
        /\ window' = IF i.kind = "none" THEN window
                     ELSE Append(window, [insn |-> i, resolved |-> FALSE,
                                          ctx |-> fetch2.ctx, looked |-> fetch2.looked])
        /\ fetch2' = Empty
        /\ UNCHANGED <<tage, base, first>>

Resolve(k) ==
    /\ ~window[k].resolved
    /\ window' = [window EXCEPT ![k].resolved = TRUE]
    /\ UNCHANGED <<tage, fetch2, base, first>>

(* mispredict(): back to the branch's log entry, and over the branch as it *)
(* really went. Seeded fault: with the direction that was predicted.       *)
Other(i) == [i EXCEPT !.next = IF @ = i.fall THEN i.target ELSE i.fall, !.wrong = TRUE]
Recovered_Predicted(e) == Update(e.ctx, e.insn)
Recovered(e) == Update(e.ctx, Other(e.insn))
Mispredict(k) ==
    /\ ~window[k].resolved /\ window[k].ctx.pt > -2 * MaxUpdates
    /\ tage' = Recovered(window[k])
    /\ window' = [SubSeq(window, 1, k) EXCEPT ![k].insn = Other(@), ![k].resolved = TRUE]
    /\ fetch2' = Empty
    /\ UNCHANGED <<base, first>>

Commit ==
    /\ window # <<>> /\ Head(window).resolved
    /\ window' = Tail(window)
    /\ base' = After(base, Head(window).insn)
    /\ UNCHANGED <<tage, fetch2, first>>

(* A full squash. With no branch in the queue the histories stay what      *)
(* FETCH1 made them, as in FetchUnit, and base takes that over.            *)
Flush ==
    /\ IF window = <<>> THEN UNCHANGED tage /\ base' = tage
       ELSE tage' = Head(window).ctx /\ UNCHANGED base
    /\ window' = <<>> /\ fetch2' = Empty
    /\ UNCHANGED first

Next == \/ Fetch1 \/ Fetch2Misfetch \/ Fetch2Advance \/ Commit \/ Flush
        \/ \E k \in DOMAIN window : Resolve(k) \/ Mispredict(k)
Spec == Init /\ [][Next]_vars
-----------------------------------------------------------------------------
(* However mispredictions, misfetches and squashes interleave, all of the  *)
(* histories (the ring and its pointer, the path, the folded, local and    *)
(* inner-loop histories) are those that the branches in front make, and a  *)
(* branch in flight finds in its log entry the histories in front of it    *)
(* and a prediction that was looked up with just these.                    *)
ContextExact ==
    /\ tage = Replay(Path)
    /\ \A k \in DOMAIN window :
          LET c == Replay(SubSeq(Insns, 1, k - 1))
          IN  window[k].ctx = c /\ window[k].looked = Lookup(c, window[k].insn.pc)

(* A folded history is the exclusive or of the last OLENGTH bits of the    *)
(* ring, each at its age modulo CLENGTH: the cyclic shift register takes   *)
(* in the newest and lets go of the oldest, also when the ring has wrapped *)
(* around. What the ring held at first is let go of without ever having    *)
(* been taken in: it stays in the register, and turns with it.             *)
XorOf(S, val(_)) == FoldSet(LAMBDA j, x : x ^^ val(j), 0, S)
Fold(f, h, pt, turn) ==
    XorOf(0..(f[1] - 1), LAMBDA j : h[(pt + j) % HISTBUFFERLENGTH] * 2^((j + turn) % f[2]))
FoldsExact == \A f \in Folds :
    tage.ch[f] = Fold(f, tage.ghist, tage.pt, 0) ^^ Fold(f, first, 0, -tage.pt)
=============================================================================
