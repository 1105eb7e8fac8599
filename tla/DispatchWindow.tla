--------------------------- MODULE DispatchWindow ---------------------------
(***************************************************************************)
(* What the issue queue promises: the instructions that wait to issue, and *)
(* the unresolved branches between them, stand in one line in program      *)
(* order. A ready instruction leaves from anywhere; a mispredicted branch  *)
(* takes everything behind it. There are no entries, pointers or masks.    *)
(***************************************************************************)
EXTENDS Integers, Sequences

CONSTANTS Size, PhysReg, Inum, Branch, NoBranch, Insns

VARIABLES line, ready
vars == <<line, ready>>

Remove(s, k) == SubSeq(s, 1, k - 1) \o SubSeq(s, k + 1, Len(s))
IsBranch(x)  == "branch" \in DOMAIN x
Waiting(s)   == SelectSeq(s, LAMBDA x : ~IsBranch(x))

Init == line = <<>> /\ ready = PhysReg

(* An instruction joins the line, and the branch it is, if it is one.      *)
Enter(insn, b) ==
    /\ Len(Waiting(line)) < Size
    /\ \A k \in DOMAIN line : line[k] # [branch |-> b]
    /\ line' = line \o <<[waiting |-> (insn.srcs \ ready) \cup insn.inum,
                          srcs |-> insn.srcs, lanes |-> insn.lanes]>>
                    \o IF b = NoBranch THEN <<>> ELSE <<[branch |-> b]>>
    /\ UNCHANGED ready

Wake(t) ==
    /\ line' = [k \in DOMAIN line |->
                  IF IsBranch(line[k]) THEN line[k]
                  ELSE [line[k] EXCEPT !.waiting = @ \ {t}]]
    /\ ready' = IF t \in PhysReg THEN ready \cup {t} ELSE ready

Allocate(t) ==
    /\ \A k \in DOMAIN Waiting(line) : t \notin Waiting(line)[k].srcs
    /\ ready' \in {ready \cup {t}, ready \ {t}}
    /\ UNCHANGED line

Issue(k) ==
    /\ ~IsBranch(line[k]) /\ line[k].waiting = {}
    /\ line' = Remove(line, k)
    /\ UNCHANGED ready

Resolve(k) ==
    /\ IsBranch(line[k])
    /\ line' \in {Remove(line, k), SubSeq(line, 1, k - 1)}
    /\ UNCHANGED ready

Flush == line' = <<>> /\ UNCHANGED ready

Next ==
    \/ \E insn \in Insns, b \in Branch \cup {NoBranch} : Enter(insn, b)
    \/ \E t \in PhysReg \cup Inum : Wake(t)
    \/ \E t \in PhysReg : Allocate(t)
    \/ \E k \in DOMAIN line : Issue(k) \/ Resolve(k)
    \/ Flush

Spec == Init /\ [][Next]_vars
=============================================================================
