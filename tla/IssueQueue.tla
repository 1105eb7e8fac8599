----------------------------- MODULE IssueQueue -----------------------------
(***************************************************************************)
(* The unified issue queue (issue_queue.cc, issue_queue.h): a pool of      *)
(* Size entries handed out by a circular free list, threaded on a doubly   *)
(* linked list in dispatch order, woken by tag broadcasts, scanned once a  *)
(* cycle by select_and_issue, and cut back by branch mask when a branch    *)
(* was mispredicted.                                                       *)
(*                                                                         *)
(* The three register operands of an entry are the set srcs; waiting holds *)
(* those that are valid and not ready, and the predicted store (the inum)  *)
(* while it has not been woken. lanes is the set of execution lanes the    *)
(* entry may use: one lane when PRESTEER, the bits of lane_id otherwise.   *)
(* The loops of select_and_issue and squash take one step per entry they   *)
(* visit, and todo says where the running loop stands.                     *)
(*                                                                         *)
(* ready is PRF_ready of the renamer, open the unresolved branches oldest  *)
(* first, that is GBM with the order of the branches.                      *)
(***************************************************************************)
EXTENDS Integers, FiniteSets, Sequences

CONSTANTS
    Size,       \* entries of the queue
    NumParts,   \* partitions that take turns to be scanned first
    Selections, \* the values IDEAL_AGE_BASED may have
    Lane,       \* execution lanes, 0 .. issue_width - 1
    PhysReg,    \* physical registers, the tags of wakeup(tag, true)
    Inum,       \* stores in flight, the tags of wakeup(tag, false)
    Branch,     \* branch IDs
    NoBranch,   \* an instruction that is not a checkpointed branch
    Insns       \* the instructions that are dispatched

ASSUME IssueQueueAssumption ==
    /\ Size \in Nat \ {0}
    /\ NumParts \in 1..Size /\ Size % NumParts = 0
    /\ Selections \subseteq BOOLEAN
    /\ Lane \subseteq Nat
    /\ NoBranch \notin Branch
    /\ PhysReg \cap Inum = {}
    /\ Insns \subseteq [srcs  : SUBSET PhysReg,
                        inum  : SUBSET Inum,
                        lanes : SUBSET Lane \ {{}}]

VARIABLES
    q, length,                           \* the entries, the valid ones counted
    prev, next, oldest, youngest,        \* the age list
    fl, fl_head, fl_tail, fl_length,     \* the free list
    part_next,                           \* the entry that is scanned first
    rr,                                  \* lanes whose register read is full
    ready, open,                         \* the renamer
    todo,                                \* the loop that runs
    age_based                            \* IDEAL_AGE_BASED: scan in age order

entries   == <<q, length>>
age_list  == <<prev, next, oldest, youngest>>
free_list == <<fl, fl_head, fl_tail, fl_length>>
iq_vars   == <<entries, age_list, free_list>>
vars == <<iq_vars, part_next, rr, ready, open, todo, age_based>>

Slot == 0..(Size - 1)
Nil  == -1
Tag  == PhysReg \cup Inum

part_size == Size \div NumParts

Entry == [valid : BOOLEAN, srcs : SUBSET PhysReg, waiting : SUBSET Tag,
          lanes : SUBSET Lane, branch_mask : SUBSET Branch,
          branch : Branch \cup {NoBranch}]

Idle == [op |-> "idle"]
Todo == [op : {"idle"}]
        \cup [op : {"select"}, i : Slot, j : Slot]
        \cup [op : {"squash"}, b : Branch, i : Slot]

Valid == {i \in Slot : q[i].valid}

(* A set of branches as the bits of a branch mask. *)
Bits(s) == {s[k] : k \in DOMAIN s}

Empty == [valid |-> FALSE, srcs |-> {}, waiting |-> {}, lanes |-> {},
          branch_mask |-> {}, branch |-> NoBranch]

Init ==
    /\ q = [i \in Slot |-> Empty] /\ length = 0
    /\ prev = [i \in Slot |-> Nil] /\ next = [i \in Slot |-> Nil]
    /\ oldest = Nil /\ youngest = Nil
    /\ fl = [i \in Slot |-> i]
    /\ fl_head = 0 /\ fl_tail = 0 /\ fl_length = Size
    /\ part_next = 0
    /\ rr = {}
    /\ ready = PhysReg
    /\ open = <<>>
    /\ todo = Idle
    /\ age_based \in Selections

-----------------------------------------------------------------------------
(* The queue's own operations. *)

stall(bundle_inst) == fl_length < bundle_inst

(* link: the tail of dispatch(), which threads entry i behind youngest. *)
link(i) ==
    /\ prev' = [prev EXCEPT ![i] = youngest]
    /\ next' = IF oldest = Nil
               THEN [next EXCEPT ![i] = Nil]
               ELSE [next EXCEPT ![i] = Nil, ![youngest] = i]
    /\ oldest' = IF oldest = Nil THEN i ELSE oldest
    /\ youngest' = i

(* mutant: the entry behind i keeps its backward pointer. *)
unlink_NoBack(i) ==
    /\ prev' = prev
    /\ next' = IF oldest = i THEN next
                             ELSE [next EXCEPT ![prev[i]] = next[i]]
    /\ oldest' = IF oldest = i THEN next[i] ELSE oldest
    /\ youngest' = IF youngest = i THEN prev[i] ELSE youngest

(* unlink: the tail of remove(). The neighbours of i are joined; i keeps   *)
(* its own two pointers, which select_and_issue still follows.             *)
unlink(i) ==
    /\ prev' = IF youngest = i THEN prev
                               ELSE [prev EXCEPT ![next[i]] = prev[i]]
    /\ next' = IF oldest = i THEN next
                             ELSE [next EXCEPT ![prev[i]] = next[i]]
    /\ oldest' = IF oldest = i THEN next[i] ELSE oldest
    /\ youngest' = IF youngest = i THEN prev[i] ELSE youngest

remove(i) ==
    /\ q' = [q EXCEPT ![i].valid = FALSE]
    /\ length' = length - 1
    /\ fl' = [fl EXCEPT ![fl_tail] = i]
    /\ fl_tail' = (fl_tail + 1) % Size
    /\ fl_length' = fl_length + 1
    /\ UNCHANGED fl_head
    /\ unlink(i)

(* The operands an instruction has to wait for when it is dispatched: the  *)
(* registers that is_ready() denies, and a predicted store.                *)
NotReady(insn) == (insn.srcs \ ready) \cup insn.inum

(* Dispatch: one instruction of the bundle enters the queue behind all the *)
(* others. A checkpointed branch opens its bit for the younger ones.       *)
Dispatch(insn, b) ==
    /\ todo = Idle
    /\ ~stall(1)
    /\ b # NoBranch => b \notin Bits(open)
    /\ LET free == fl[fl_head] IN
       /\ q' = [q EXCEPT ![free] =
                  [valid |-> TRUE, srcs |-> insn.srcs,
                   waiting |-> NotReady(insn), lanes |-> insn.lanes,
                   branch_mask |-> Bits(open), branch |-> b]]
       /\ link(free)
    /\ fl_head' = (fl_head + 1) % Size
    /\ fl_length' = fl_length - 1
    /\ length' = length + 1
    /\ open' = IF b = NoBranch THEN open ELSE Append(open, b)
    /\ UNCHANGED <<fl, fl_tail, part_next, rr, ready, todo, age_based>>

(* wakeup: the broadcast reaches every valid entry that names the tag.     *)
Woken(t) == [i \in Slot |-> IF q[i].valid
                            THEN [q[i] EXCEPT !.waiting = @ \ {t}]
                            ELSE q[i]]

(* Wakeup: the producer of t broadcasts it and sets its ready bit.         *)
Wakeup(t) ==
    /\ todo = Idle
    /\ t \notin ready
    /\ ready' = ready \cup {t}
    /\ q' = Woken(t)
    /\ UNCHANGED <<length, age_list, free_list, part_next, rr, open, todo,
                   age_based>>

(* WakeupStore: a store leaves register read and wakes the loads and       *)
(* stores that were predicted to depend on it.                             *)
WakeupStore(t) ==
    /\ todo = Idle
    /\ q' = Woken(t)
    /\ UNCHANGED <<length, age_list, free_list, part_next, rr, ready, open,
                   todo, age_based>>

(* Allocate: the producer of t is dispatched and clears its ready bit, or  *)
(* sets it when its value is predicted; the renamer hands t out only when  *)
(* no instruction in flight reads the old value any more.                  *)
Allocate(t, vp_pred) ==
    /\ todo = Idle
    /\ \A i \in Valid : t \notin q[i].srcs
    /\ ready' = IF vp_pred THEN ready \cup {t} ELSE ready \ {t}
    /\ UNCHANGED <<iq_vars, part_next, rr, open, todo, age_based>>

-----------------------------------------------------------------------------
(* select_and_issue, once a cycle, after register_read has emptied the     *)
(* register read stage of every lane.                                      *)

SelectBegin ==
    /\ todo = Idle
    /\ rr' = {}
    /\ todo' = IF ~age_based THEN [op |-> "select", i |-> part_next, j |-> 0]
               ELSE IF oldest = Nil THEN Idle
               ELSE [op |-> "select", i |-> oldest, j |-> 0]
    /\ UNCHANGED <<iq_vars, part_next, ready, open, age_based>>

(* mutant: a ready entry behind an occupied one is passed over.            *)
IsReady_Behind(i) == /\ q[i].valid /\ q[i].waiting = {}
                     /\ i > 0 => ~q[i - 1].valid

IsReady(i) == q[i].valid /\ q[i].waiting = {}

(* mutants: the scan in age order goes on by index; it stops before the    *)
(* youngest entry.                                                         *)
ScanNext_Index(i) == (i + 1) % Size

(* The entry that the scan visits after i, and whether there is one. *)
ScanNext(i) == IF age_based THEN next[i] ELSE (i + 1) % Size
ScanEnds(i, j) == j = Size - 1 \/ (age_based /\ next[i] = Nil)

Rotated == IF part_next + part_size = Size THEN 0 ELSE part_next + part_size

(* The lanes entry i can be issued to, and the one the search picks.       *)
FreeLanes(i) == q[i].lanes \ rr
Chosen(i) == CHOOSE l \in FreeLanes(i) : \A k \in FreeLanes(i) : l <= k

SelectEntry ==
    /\ todo.op = "select"
    /\ LET i == todo.i
           j == todo.j
       IN /\ IF IsReady(i) /\ FreeLanes(i) # {}
             THEN remove(i) /\ rr' = rr \cup {Chosen(i)}
             ELSE UNCHANGED <<iq_vars, rr>>
          /\ todo' = IF ScanEnds(i, j)
                     THEN Idle
                     ELSE [op |-> "select", i |-> ScanNext(i), j |-> j + 1]
          /\ part_next' = IF ScanEnds(i, j) THEN Rotated ELSE part_next
    /\ UNCHANGED <<ready, open, age_based>>

-----------------------------------------------------------------------------
(* Recovery. A branch resolves after it has issued.                        *)

Resolvable(b) == b \in Bits(open) /\ \A i \in Valid : q[i].branch # b

(* The branches that are older than b, and those other than b. *)
Position(b) == CHOOSE n \in DOMAIN open : open[n] = b
Before(b)   == SubSeq(open, 1, Position(b) - 1)
Without(b)  == [n \in 1..(Len(open) - 1) |->
                  open[IF n < Position(b) THEN n ELSE n + 1]]

(* mutant: only the entries that are ready forget the branch. *)
clear_branch_bit_Ready(b) ==
    [i \in Slot |-> IF q[i].waiting = {} THEN [q[i] EXCEPT !.branch_mask = @ \ {b}]
                    ELSE q[i]]

(* clear_branch_bit: resolve(b, true). Every entry forgets b, the invalid  *)
(* ones too.                                                               *)
clear_branch_bit(b) == [i \in Slot |-> [q[i] EXCEPT !.branch_mask = @ \ {b}]]

ResolveCorrect(b) ==
    /\ todo = Idle
    /\ Resolvable(b)
    /\ q' = clear_branch_bit(b)
    /\ open' = Without(b)
    /\ UNCHANGED <<length, age_list, free_list, part_next, rr, ready, todo,
                   age_based>>

(* ResolveMispredict: resolve(b, false). The renamer drops b and the       *)
(* younger branches, then squash(b) walks the entries in index order.      *)
ResolveMispredict(b) ==
    /\ todo = Idle
    /\ Resolvable(b)
    /\ open' = Before(b)
    /\ todo' = [op |-> "squash", b |-> b, i |-> 0]
    /\ UNCHANGED <<iq_vars, part_next, rr, ready, age_based>>

SquashEntry ==
    /\ todo.op = "squash"
    /\ LET i == todo.i
       IN /\ IF q[i].valid /\ todo.b \in q[i].branch_mask
             THEN remove(i)
             ELSE UNCHANGED iq_vars
          /\ todo' = IF i = Size - 1 THEN Idle ELSE [todo EXCEPT !.i = i + 1]
    /\ UNCHANGED <<part_next, rr, ready, open, age_based>>

(* flush: squash_complete() empties the queue and makes the free list      *)
(* afresh; the pointers of the entries stay as they are.                   *)
Flush ==
    /\ todo = Idle
    /\ q' = [i \in Slot |-> [q[i] EXCEPT !.valid = FALSE]]
    /\ length' = 0
    /\ fl' = [i \in Slot |-> i]
    /\ fl_head' = 0 /\ fl_tail' = 0 /\ fl_length' = Size
    /\ oldest' = Nil /\ youngest' = Nil
    /\ rr' = {}
    /\ open' = <<>>
    /\ UNCHANGED <<prev, next, part_next, ready, todo, age_based>>

Next ==
    \/ \E insn \in Insns, b \in Branch \cup {NoBranch} : Dispatch(insn, b)
    \/ \E t \in PhysReg : Wakeup(t)
    \/ \E t \in Inum : WakeupStore(t)
    \/ \E t \in PhysReg, vp_pred \in BOOLEAN : Allocate(t, vp_pred)
    \/ SelectBegin
    \/ SelectEntry
    \/ \E b \in Branch : ResolveCorrect(b)
    \/ \E b \in Branch : ResolveMispredict(b)
    \/ SquashEntry
    \/ Flush

Spec == Init /\ [][Next]_vars

-----------------------------------------------------------------------------
(* Properties *)

(* The type invariant. *)
TypeOK ==
    /\ q \in [Slot -> Entry] /\ length \in 0..Size
    /\ prev \in [Slot -> Slot \cup {Nil}] /\ next \in [Slot -> Slot \cup {Nil}]
    /\ oldest \in Slot \cup {Nil} /\ youngest \in Slot \cup {Nil}
    /\ fl \in [Slot -> Slot]
    /\ fl_head \in Slot /\ fl_tail \in Slot /\ fl_length \in 0..Size
    /\ part_next \in Slot
    /\ rr \subseteq Lane
    /\ ready \subseteq PhysReg
    /\ open \in Seq(Branch)
    /\ todo \in Todo
    /\ age_based \in BOOLEAN

(* p lists the valid entries once each in the order of the age list: the   *)
(* pointers oldest, youngest, prev and next all agree with it.             *)
Threads(p) ==
    /\ length = 0 => oldest = Nil /\ youngest = Nil
    /\ length > 0 => oldest = p[1] /\ youngest = p[length]
    /\ \A k \in 1..length :
          /\ next[p[k]] = IF k = length THEN Nil ELSE p[k + 1]
          /\ prev[p[k]] = IF k = 1 THEN Nil ELSE p[k - 1]
    /\ \A k, m \in 1..length : p[k] = p[m] => k = m
    /\ \A i \in Slot : q[i].valid <=> \E k \in 1..length : p[k] = i

(* However dispatches, out-of-order issues and squashes interleave, the    *)
(* age list stays one chain through exactly the valid entries: every       *)
(* assertion of dispatch() and remove() on the pointers holds.             *)
AgeListExact == \E p \in [1..length -> Slot] : Threads(p)

(* The free list holds every invalid entry once, in the fl_length places   *)
(* from fl_head, so dispatch never takes an entry that is in use and no    *)
(* entry is lost.                                                          *)
FreeListExact ==
    /\ length + fl_length = Size
    /\ fl_tail = (fl_head + fl_length) % Size
    /\ \A i \in Slot : ~q[i].valid
          <=> \E k \in 0..(fl_length - 1) : fl[(fl_head + k) % Size] = i

(* No wakeup is missed and none comes twice: an operand of a waiting entry *)
(* is not ready exactly when its physical register is not. It is what the  *)
(* assertions of wakeup() rest on, and it fails when a dispatch reads a    *)
(* ready bit that a broadcast in the same cycle makes stale.               *)
WakeupExact ==
    \A i \in Valid : q[i].waiting \cap PhysReg = q[i].srcs \ ready

(* A mask names the oldest few unresolved branches, and the younger of two *)
(* neighbours in the age list names no fewer. So a squash by mask takes a  *)
(* suffix of the age list, and no stale bit can take an older entry when   *)
(* the branch ID is used again. While squash(b) runs, the entries it has   *)
(* yet to remove still name b and the branches behind it.                  *)
MasksNested ==
    \A i \in Valid :
        /\ IF todo.op = "squash" /\ todo.b \in q[i].branch_mask
           THEN Bits(open) \subseteq q[i].branch_mask
           ELSE \E k \in 0..Len(open) :
                    q[i].branch_mask = {open[n] : n \in 1..k}
        /\ next[i] # Nil => q[i].branch_mask \subseteq q[next[i]].branch_mask

(* The scan never leaves the valid entries in age-based mode: this is the  *)
(* assertion at the head of the loop of select_and_issue, which follows    *)
(* the next pointer of an entry it has just removed.                       *)
ScanOnList == age_based /\ todo.op = "select" => q[todo.i].valid

(* All of it: the lists, the masks, the operands that wait and the scan.   *)
ListsExact == /\ TypeOK /\ AgeListExact /\ FreeListExact
              /\ MasksNested /\ WakeupExact /\ ScanOnList

(* The valid entries in the order of the age list.                         *)
Order == LET p[k \in 1..length] == IF k = 1 THEN oldest ELSE next[p[k - 1]]
         IN  p

(* Of the ready instructions that could use the lane that is taken, age    *)
(* based selection takes the one dispatched first (select_and_issue).      *)
OldestIssues == [][age_based /\ todo.op = "select" /\ ~q'[todo.i].valid =>
    LET older == {k \in 1..length : \E m \in 1..length : k < m /\ Order[m] = todo.i}
    IN  \A k \in older : q[Order[k]].waiting = {} => rr' \cap q[Order[k]].lanes \subseteq rr]_vars

(* Neither scan leaves a ready instruction behind while a lane it could    *)
(* use is free (select_and_issue).                                         *)
NoneLeftBehind == [][todo.op = "select" /\ todo' = Idle =>
    \A i \in Slot : q'[i].valid /\ q'[i].waiting = {} => q'[i].lanes \subseteq rr']_vars

-----------------------------------------------------------------------------
(* The issue queue implements DispatchWindow: every dispatch, wakeup,      *)
(* issue, correct resolution, squash and flush of the real structure is    *)
(* one step of the line, or none. The line is read off the age list; an    *)
(* unresolved branch stands before the first entry whose mask names it.    *)
(* While squash(b) runs, the entries that still name b have left the line  *)
(* already: they went in the step that resolved the branch.                *)

(* The entries of s that are younger than exactly n unresolved branches.   *)
Group(s, n) ==
    LET g == SelectSeq(s, LAMBDA i : Cardinality(q[i].branch_mask) = n)
    IN [k \in DOMAIN g |-> [waiting |-> q[g[k]].waiting, srcs |-> q[g[k]].srcs,
                            lanes |-> q[g[k]].lanes]]

Line ==
    LET order == Order
        kept  == SelectSeq(order, LAMBDA i : todo.op = "squash" => todo.b \notin q[i].branch_mask)
        upto[n \in 0..Len(open)] ==
          IF n = 0 THEN Group(kept, 0)
          ELSE upto[n - 1] \o <<[branch |-> open[n]]>> \o Group(kept, n)
    IN upto[Len(open)]
=============================================================================
