---------------------------- MODULE InOrderRename ----------------------------
(***************************************************************************)
(* What a register renamer promises. The instructions in flight form a     *)
(* window in program order; the newest map is the architectural map        *)
(* overlaid with the destinations in the window. A destination gets any    *)
(* register that neither the architectural map nor the window holds, so no *)
(* register needs to be freed: it is free once nothing holds it.           *)
(***************************************************************************)
EXTENDS Integers, Sequences

CONSTANTS LogRegs, PhysRegs, None

VARIABLES
  amt,     (* logical register -> register of its last committed writer    *)
  rmt,     (* logical register -> register of its last writer              *)
  window   (* the instructions in flight: <<destination, register>>        *)

Held(map, w) == {map[r] : r \in LogRegs} \cup
                {w[k][2] : k \in {j \in DOMAIN w : w[j][1] # None}}

MapOf(map, w) ==
  [r \in LogRegs |->
     IF \E k \in DOMAIN w : w[k][1] = r
       THEN w[CHOOSE k \in DOMAIN w : /\ w[k][1] = r
                                      /\ \A j \in DOMAIN w : w[j][1] = r => j <= k][2]
       ELSE map[r]]

Init == amt \in [LogRegs -> PhysRegs] /\ rmt = amt /\ window = << >>

(* An instruction enters the window, with a register that nothing holds.   *)
Rename ==
  \E more \in {window'} :
    /\ Len(more) = Len(window) + 1
    /\ \E r \in LogRegs \cup {None}, p \in PhysRegs :
         /\ more = Append(window, <<r, p>>)
         /\ r # None => p \notin Held(amt, window)
         /\ rmt' = IF r = None THEN rmt ELSE [rmt EXCEPT ![r] = p]
    /\ UNCHANGED amt

(* The oldest instruction leaves it and becomes architectural.             *)
AfterCommit == IF window[1][1] # None THEN [amt EXCEPT ![window[1][1]] = window[1][2]]
                                      ELSE amt

Commit == window # << >> /\ amt' = AfterCommit /\ window' = Tail(window) /\ UNCHANGED rmt

(* The youngest leave it, and the map is as if they had never been there.  *)
Squash ==
  \E left \in {window'} :
    /\ \E k \in 0 .. Len(window) : left = SubSeq(window, 1, k)
    /\ rmt' = MapOf(amt, left)
    /\ UNCHANGED amt

(* The oldest commits and all the others leave.                            *)
CommitAndSquash == window # << >> /\ amt' = AfterCommit /\ window' = << >> /\ rmt' = amt'

Next == Rename \/ Commit \/ Squash \/ CommitAndSquash

Spec == Init /\ [][Next]_<<amt, rmt, window>>
=============================================================================
