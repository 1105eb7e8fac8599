---------------------------- MODULE InOrderWindow ----------------------------
(***************************************************************************)
(* What the VPQ promises the pipeline, without slots, phases, saved tails  *)
(* or walks: the window of renamed instructions in program order. An item  *)
(* is an instruction that owns a VPQ entry or an unresolved branch. Items  *)
(* enter at the end; the oldest instruction leaves, and is trained, at the *)
(* front, never past an unresolved branch; a mispredicted branch takes     *)
(* with it what is younger and nothing else.                               *)
(***************************************************************************)
EXTENDS Integers, Sequences

CONSTANTS PCs, BranchID, MaxWindow

VARIABLES window, trained  (* trained: the PC trained last                 *)

window_vars == <<window, trained>>

Instr(pc)  == [kind |-> "predict", id |-> pc]
Unres(b)   == [kind |-> "checkpoint", id |-> b]
Live(b)    == \E i \in DOMAIN window : window[i] = Unres(b)

WindowInit == window = << >> /\ trained = 0

Enter(item) ==
  /\ Len(window) < MaxWindow
  /\ item.kind = "checkpoint" => ~Live(item.id)
  /\ window' = Append(window, item)
  /\ UNCHANGED trained

TrainOldest ==
  /\ window # << >>
  /\ Head(window).kind = "predict"
  /\ trained' = Head(window).id
  /\ window' = Tail(window)

Resolve(i) ==
  /\ window[i].kind = "checkpoint"
  /\ window' = SubSeq(window, 1, i - 1) \o SubSeq(window, i + 1, Len(window))
  /\ UNCHANGED trained

Mispredict(i) ==
  /\ window[i].kind = "checkpoint"
  /\ window' = SubSeq(window, 1, i - 1)
  /\ UNCHANGED trained

Squash == window' = << >> /\ UNCHANGED trained

WindowNext ==
  \/ \E pc \in PCs : Enter(Instr(pc))
  \/ \E b \in BranchID : Enter(Unres(b))
  \/ TrainOldest
  \/ \E i \in DOMAIN window : Resolve(i) \/ Mispredict(i)
  \/ Squash

WindowSpec == WindowInit /\ [][WindowNext]_window_vars
=============================================================================
