------------------------------- MODULE Renamer -------------------------------
(***************************************************************************)
(* The register renamer of 721sim (uarchsim/renamer.{h,cc}): map tables,   *)
(* free list, active list, ready bits, branch mask and branch checkpoints, *)
(* driven as rename2, dispatch, the execution lanes, writeback and retire  *)
(* drive it.                                                               *)
(*                                                                         *)
(* An instruction is what the payload buffer and the pipeline registers    *)
(* keep of it: its registers, its branch ID and its branch mask. It waits  *)
(* in DISPATCH, then it is in the active list.                             *)
(***************************************************************************)
EXTENDS Integers, Sequences, FiniteSets

CONSTANTS
  NumLogRegs,     (* n_log_regs                                            *)
  NumPhysRegs,    (* n_phys_regs                                           *)
  NumBranches,    (* n_branches: branch checkpoints                        *)
  NumActive,      (* n_active: size of the active list                     *)
  DispatchWidth,  (* instructions in a rename bundle                       *)
  Insns           (* the kinds of instruction that are renamed             *)

LogReg   == 0 .. NumLogRegs - 1
PhysReg  == 0 .. NumPhysRegs - 1
BranchID == 0 .. NumBranches - 1
ALIndex  == 0 .. NumActive - 1
FLSize   == NumPhysRegs - NumLogRegs
FLIndex  == 0 .. FLSize - 1
None     == -1

(* What decode says of an instruction: its destination if it has one       *)
(* (C_valid, C_log_reg), whether it needs a checkpoint, whether rename2    *)
(* predicts its value, and whether it produces its result in the retire    *)
(* stage (atomics and CSR instructions). An instruction that skips the     *)
(* issue queue, which dispatch completes, is one with no destination that  *)
(* executes at once.                                                       *)
Insn == {i \in [dst : LogReg \cup {None}, checkpoint : BOOLEAN, vp_pred : BOOLEAN,
                at_retire : BOOLEAN] :
           /\ i.vp_pred => i.dst # None /\ ~i.checkpoint /\ ~i.at_retire
           /\ i.at_retire => ~i.checkpoint}

ASSUME RenamerAssumption ==
  /\ NumLogRegs \in Nat \ {0}
  /\ NumPhysRegs \in Nat /\ NumPhysRegs > NumLogRegs
  /\ NumBranches \in Nat \ {0}
  /\ NumActive \in Nat \ {0}
  /\ DispatchWidth \in Nat \ {0}
  /\ Insns \subseteq Insn

VARIABLES
  RMT, AMT,                    (* rename and architectural map tables      *)
  FL, FL_head, FL_tail,        (* free list, its ends with their phases    *)
  FL_count,
  AL, AL_head, AL_tail,        (* active list, its ends with their phases  *)
  AL_count,
  PRF_ready,                   (* ready bit of each physical register      *)
  GBM,                         (* branch IDs in use                        *)
  checkpoint_count,
  checkpoints,                 (* shadow_RMT, FL_head and GBM of a branch  *)
  rename_bundle,               (* instructions rename2 has still to rename *)
  DISPATCH                     (* renamed instructions, not yet dispatched *)

map_vars    == <<RMT, AMT>>
fl_vars     == <<FL, FL_head, FL_tail, FL_count>>
al_vars     == <<AL, AL_head, AL_tail, AL_count>>
branch_vars == <<GBM, checkpoint_count, checkpoints>>
front_vars  == <<rename_bundle, DISPATCH>>
vars == <<map_vars, fl_vars, al_vars, PRF_ready, branch_vars, front_vars>>

Flags   == {"exception", "load_viol", "val_misp"}
Renamed == [dst : LogReg \cup {None}, phys_reg : PhysReg, checkpoint : BOOLEAN,
            vp_pred : BOOLEAN, at_retire : BOOLEAN, branch_ID : BranchID,
            branch_mask : SUBSET BranchID, woken : BOOLEAN,
            completed : BOOLEAN, flags : SUBSET Flags]
Pointer(n)  == [pos : 0 .. n - 1, phase : BOOLEAN]
Checkpoints == [shadow_RMT : [LogReg -> PhysReg], FL_head : Pointer(FLSize),
                GBM : SUBSET BranchID]

-----------------------------------------------------------------------------
(* The slot k places after p in a circular list of n slots, the pointer k  *)
(* places after p, and how far q is ahead of p, for k and distances in     *)
(* 0 .. n.                                                                 *)
SlotAt(p, k, n) == IF p.pos + k < n THEN p.pos + k ELSE p.pos + k - n

Advance(p, k, n) == [pos |-> SlotAt(p, k, n),
                     phase |-> IF p.pos + k < n THEN p.phase ELSE ~p.phase]
Ahead(p, q, n)   == IF p.phase = q.phase THEN q.pos - p.pos ELSE q.pos - p.pos + n

Free(k) == FL[SlotAt(FL_head, k - 1, FLSize)]

(* The instructions in flight, oldest first.                               *)
ActiveList == [k \in 1 .. AL_count |-> AL[SlotAt(AL_head, k - 1, NumActive)]]
InFlight   == ActiveList \o DISPATCH

bundle_dst(b)    == Cardinality({k \in DOMAIN b : b[k].dst # None})
bundle_branch(b) == Cardinality({k \in DOMAIN b : b[k].checkpoint})

Start == [pos |-> 0, phase |-> FALSE]

EmptyEntry == [dst |-> None, phys_reg |-> 0, checkpoint |-> FALSE, vp_pred |-> FALSE,
               at_retire |-> FALSE, branch_ID |-> 0, branch_mask |-> {},
               woken |-> FALSE, completed |-> FALSE, flags |-> {}]

Init ==
  /\ RMT = [r \in LogReg |-> r]
  /\ AMT = RMT
  /\ FL = [k \in FLIndex |-> NumLogRegs + k]
  /\ FL_head = Start
  /\ FL_tail = [pos |-> 0, phase |-> TRUE]
  /\ FL_count = FLSize
  /\ AL = [k \in ALIndex |-> EmptyEntry]
  /\ AL_head = Start
  /\ AL_tail = Start
  /\ AL_count = 0
  /\ PRF_ready = [p \in PhysReg |-> TRUE]
  /\ GBM = {}
  /\ checkpoint_count = 0
  /\ checkpoints = [b \in BranchID |-> [shadow_RMT |-> RMT, FL_head |-> Start, GBM |-> {}]]
  /\ rename_bundle = << >>
  /\ DISPATCH = << >>

-----------------------------------------------------------------------------
stall_reg(n)      == n > FL_count
stall_branch(n)   == n > NumBranches - checkpoint_count
stall_dispatch(n) == n > NumActive - AL_count

Bundles == UNION {[1 .. n -> Insns] : n \in 1 .. DispatchWidth}

(* rename2 renames a bundle only when the previous one has been dispatched *)
(* and there are registers and checkpoints for all of it.                  *)
Rename2(b) ==
  /\ rename_bundle = << >>
  /\ DISPATCH = << >>
  /\ ~stall_branch(bundle_branch(b))
  /\ ~stall_reg(bundle_dst(b))
  /\ rename_bundle' = b
  /\ UNCHANGED <<map_vars, fl_vars, al_vars, PRF_ready, branch_vars, DISPATCH>>

(* Mutants: the checkpoint taken before the branch renames its own         *)
(* destination; the architectural map saved instead of the rename map.     *)
NewCheckpoint_Early == [shadow_RMT |-> RMT, FL_head |-> FL_head, GBM |-> GBM']
NewCheckpoint_AMT   == [shadow_RMT |-> AMT, FL_head |-> FL_head', GBM |-> GBM']

NewCheckpoint == [shadow_RMT |-> RMT', FL_head |-> FL_head', GBM |-> GBM']

(* One instruction of the bundle: a register from the head of the free     *)
(* list for its destination, the mask of the branches before it, and, for  *)
(* a branch, the lowest free ID and a checkpoint that includes its own     *)
(* destination and its own bit of the mask.                                *)
RenameInsn ==
  /\ rename_bundle # << >>
  /\ LET i   == Head(rename_bundle)
         id  == CHOOSE b \in BranchID \ GBM : \A c \in BranchID \ GBM : b <= c
         reg == Free(1)
     IN  /\ IF i.dst # None
              THEN /\ RMT' = [RMT EXCEPT ![i.dst] = reg]
                   /\ PRF_ready' = [PRF_ready EXCEPT ![reg] = FALSE]
                   /\ FL_head' = Advance(FL_head, 1, FLSize)
                   /\ FL_count' = FL_count - 1
              ELSE UNCHANGED <<RMT, PRF_ready, FL_head, FL_count>>
         /\ IF i.checkpoint
              THEN /\ GBM' = GBM \cup {id}
                   /\ checkpoint_count' = checkpoint_count + 1
                   /\ checkpoints' = [checkpoints EXCEPT ![id] = NewCheckpoint]
              ELSE UNCHANGED branch_vars
         /\ DISPATCH' = Append(DISPATCH,
              [dst |-> i.dst, phys_reg |-> IF i.dst # None THEN reg ELSE 0,
               checkpoint |-> i.checkpoint, vp_pred |-> i.vp_pred,
               at_retire |-> i.at_retire,
               branch_ID |-> IF i.checkpoint THEN id ELSE 0, branch_mask |-> GBM,
               woken |-> FALSE, completed |-> FALSE, flags |-> {}])
  /\ rename_bundle' = Tail(rename_bundle)
  /\ UNCHANGED <<AMT, FL, FL_tail, al_vars>>

(* dispatch: the bundle enters the active list as a whole. A destination   *)
(* whose value is predicted is ready at once.                              *)
Dispatch ==
  LET n == Len(DISPATCH)
  IN  /\ rename_bundle = << >>
      /\ n > 0
      /\ ~stall_dispatch(n)
      /\ AL' = [x \in ALIndex |->
                  IF \E k \in 1 .. n : x = SlotAt(AL_tail, k - 1, NumActive)
                    THEN DISPATCH[CHOOSE k \in 1 .. n : x = SlotAt(AL_tail, k - 1, NumActive)]
                    ELSE AL[x]]
      /\ AL_tail' = Advance(AL_tail, n, NumActive)
      /\ AL_count' = AL_count + n
      /\ PRF_ready' = [p \in PhysReg |->
                         IF \E k \in 1 .. n : DISPATCH[k].dst # None /\ DISPATCH[k].phys_reg = p
                           THEN \E k \in 1 .. n : DISPATCH[k].phys_reg = p /\ DISPATCH[k].vp_pred
                           ELSE PRF_ready[p]]
      /\ DISPATCH' = << >>
      /\ UNCHANGED <<map_vars, fl_vars, AL_head, branch_vars, rename_bundle>>

-----------------------------------------------------------------------------
Idle == rename_bundle = << >>

(* The active list entry of the k-th instruction in flight.                *)
AL_index(k) == SlotAt(AL_head, k - 1, NumActive)

(* Its producer makes a destination ready: register_read, execute or       *)
(* load_replay.                                                            *)
Wakeup(k) ==
  /\ Idle
  /\ LET e == AL[AL_index(k)]
     IN  /\ e.dst # None /\ ~e.at_retire /\ ~e.woken /\ ~e.completed
         /\ PRF_ready' = [PRF_ready EXCEPT ![e.phys_reg] = TRUE]
  /\ AL' = [AL EXCEPT ![AL_index(k)].woken = TRUE]
  /\ UNCHANGED <<map_vars, fl_vars, AL_head, AL_tail, AL_count, branch_vars, front_vars>>

(* set_exception while it executes, set_load_violation once a load has its *)
(* value, set_value_misprediction when the value differs.                  *)
Post(k, flag) ==
  /\ Idle
  /\ LET e == AL[AL_index(k)]
     IN  \/ flag = "exception" /\ ~e.completed /\ ~e.checkpoint
         \/ flag = "load_viol" /\ e.woken /\ ~e.checkpoint
         \/ flag = "val_misp" /\ e.vp_pred /\ e.woken /\ ~e.completed
  /\ AL' = [AL EXCEPT ![AL_index(k)].flags = @ \cup {flag}]
  /\ UNCHANGED <<map_vars, fl_vars, AL_head, AL_tail, AL_count, PRF_ready, branch_vars, front_vars>>

Executed(e) == ~e.completed /\ (e.dst = None \/ e.woken \/ e.at_retire)

Writeback(k) ==
  /\ Idle
  /\ Executed(AL[AL_index(k)]) /\ ~AL[AL_index(k)].checkpoint
  /\ AL' = [AL EXCEPT ![AL_index(k)].completed = TRUE]
  /\ UNCHANGED <<map_vars, fl_vars, AL_head, AL_tail, AL_count, PRF_ready, branch_vars, front_vars>>

(* Mutant: the bit of a resolved branch left in the masks.                 *)
clear_bit_Stale(e, b) == e

clear_bit(e, b) == [e EXCEPT !.branch_mask = @ \ {b}]

(* writeback of a branch that was predicted correctly: its bit is cleared  *)
(* in GBM, in the checkpoints and in every branch mask of the pipeline.    *)
ResolveCorrect(k) ==
  LET x == AL_index(k)
      b == AL[x].branch_ID
  IN  /\ Idle
      /\ Executed(AL[x]) /\ AL[x].checkpoint
      /\ GBM' = GBM \ {b}
      /\ checkpoints' = [c \in BranchID |-> [checkpoints[c] EXCEPT !.GBM = @ \ {b}]]
      /\ checkpoint_count' = checkpoint_count - 1
      /\ AL' = [y \in ALIndex |-> [clear_bit(AL[y], b) EXCEPT !.completed = @ \/ y = x]]
      /\ DISPATCH' = [j \in DOMAIN DISPATCH |-> clear_bit(DISPATCH[j], b)]
      /\ UNCHANGED <<map_vars, fl_vars, AL_head, AL_tail, AL_count, PRF_ready, rename_bundle>>

(* Mutant: a full free list taken for an empty one.                        *)
FL_length_NoPhase(head, tail) ==
  IF tail.pos >= head.pos THEN tail.pos - head.pos ELSE FLSize - head.pos + tail.pos

(* The number of free registers, from the two ends of the free list.       *)
FL_length(head, tail) ==
  IF head.pos = tail.pos THEN IF head.phase = tail.phase THEN 0 ELSE FLSize
  ELSE IF head.phase = tail.phase
         THEN IF tail.pos >= head.pos THEN tail.pos - head.pos
                                      ELSE FLSize - head.pos + tail.pos
         ELSE FLSize - head.pos + tail.pos

(* writeback of a mispredicted branch: everything goes back to its         *)
(* checkpoint, the active list to the branch itself.                       *)
ResolveMispredict(k) ==
  LET x == AL_index(k)
      b == AL[x].branch_ID
      c == checkpoints[b]
  IN  /\ Idle
      /\ Executed(AL[x]) /\ AL[x].checkpoint
      /\ RMT' = c.shadow_RMT
      /\ FL_head' = c.FL_head
      /\ FL_count' = FL_length(c.FL_head, FL_tail)
      /\ GBM' = c.GBM \ {b}
      /\ checkpoint_count' = Cardinality(GBM')
      /\ AL_count' = IF x >= AL_head.pos THEN x - AL_head.pos + 1
                                         ELSE NumActive - AL_head.pos + x + 1
      /\ AL_tail' = Advance(AL_head, AL_count', NumActive)
      /\ AL' = [AL EXCEPT ![x].completed = TRUE]
      /\ DISPATCH' = << >>
      /\ UNCHANGED <<AMT, FL, FL_tail, AL_head, PRF_ready, checkpoints, rename_bundle>>

-----------------------------------------------------------------------------
(* squash() and the rest of squash_complete: everything in flight goes.    *)
(* The free list is refilled, in order, with what amt does not map.        *)
SquashTo(amt) ==
  LET free == PhysReg \ {amt[r] : r \in LogReg}
  IN  /\ RMT' = amt
      /\ GBM' = {}
      /\ checkpoint_count' = 0
      /\ AL_head' = Start /\ AL_tail' = Start /\ AL_count' = 0
      /\ FL' = [k \in FLIndex |->
                  IF k < Cardinality(free)
                    THEN CHOOSE p \in free : Cardinality({q \in free : q < p}) = k
                    ELSE FL[k]]
      /\ FL_count' = Cardinality(free)
      /\ FL_head' = Start
      /\ FL_tail' = [pos |-> 0, phase |-> TRUE]
      /\ PRF_ready' = [p \in PhysReg |-> TRUE]
      /\ DISPATCH' = << >>
      /\ UNCHANGED <<AL, checkpoints, rename_bundle>>

(* The architectural map once e has committed.                             *)
CommittedAMT(e) == IF e.dst # None THEN [AMT EXCEPT ![e.dst] = e.phys_reg] ELSE AMT

AL_first == AL[AL_head.pos]

(* retire commits the head of the active list; the register its            *)
(* destination was mapped to goes to the tail of the free list.            *)
RetireCommit ==
  /\ Idle
  /\ AL_count > 0 /\ AL_first.completed /\ AL_first.flags = {}
  /\ AMT' = CommittedAMT(AL_first)
  /\ IF AL_first.dst # None
       THEN /\ FL' = [FL EXCEPT ![FL_tail.pos] = AMT[AL_first.dst]]
            /\ FL_tail' = Advance(FL_tail, 1, FLSize)
            /\ FL_count' = FL_count + 1
       ELSE UNCHANGED <<FL, FL_tail, FL_count>>
  /\ PRF_ready' = IF AL_first.dst # None /\ AL_first.at_retire
                    THEN [PRF_ready EXCEPT ![AL_first.phys_reg] = TRUE] ELSE PRF_ready
  /\ AL_head' = Advance(AL_head, 1, NumActive)
  /\ AL_count' = AL_count - 1
  /\ UNCHANGED <<RMT, FL_head, AL, AL_tail, branch_vars, front_vars>>

(* A wrong predicted value: the instruction commits, all others go.        *)
RetireValueMisprediction ==
  /\ Idle
  /\ AL_count > 0 /\ AL_first.completed /\ AL_first.flags = {"val_misp"}
  /\ AMT' = CommittedAMT(AL_first)
  /\ SquashTo(AMT')

(* An exception, one raised in the retire stage included, or a load that   *)
(* overtook a store: the instruction does not commit.                      *)
RetireSquash ==
  /\ Idle
  /\ AL_count > 0 /\ AL_first.completed
  /\ AL_first.flags \cap {"exception", "load_viol"} # {} \/ AL_first.at_retire
  /\ SquashTo(AMT)
  /\ UNCHANGED AMT

Next ==
  \/ \E b \in Bundles : Rename2(b)
  \/ RenameInsn
  \/ Dispatch
  \/ \E k \in 1 .. AL_count :
       \/ Wakeup(k)
       \/ \E flag \in Flags : Post(k, flag)
       \/ Writeback(k)
       \/ ResolveCorrect(k)
       \/ ResolveMispredict(k)
  \/ RetireCommit
  \/ RetireValueMisprediction
  \/ RetireSquash

Spec == Init /\ [][Next]_vars

-----------------------------------------------------------------------------
TypeOK ==
  /\ RMT \in [LogReg -> PhysReg] /\ AMT \in [LogReg -> PhysReg]
  /\ FL \in [FLIndex -> PhysReg]
  /\ FL_head \in Pointer(FLSize) /\ FL_tail \in Pointer(FLSize)
  /\ FL_count \in 0 .. FLSize
  /\ AL \in [ALIndex -> Renamed]
  /\ AL_head \in Pointer(NumActive) /\ AL_tail \in Pointer(NumActive)
  /\ AL_count \in 0 .. NumActive
  /\ PRF_ready \in [PhysReg -> BOOLEAN]
  /\ GBM \in SUBSET BranchID
  /\ checkpoint_count \in 0 .. NumBranches
  /\ checkpoints \in [BranchID -> Checkpoints]
  /\ rename_bundle \in Seq(Insn)
  /\ DISPATCH \in Seq(Renamed)

(* No physical register is lost or allocated twice: the architectural map  *)
(* and the slots of the free list hold each register exactly once, the     *)
(* slots behind FL_head being those of the destinations in flight          *)
(* (renamer.cc:48-70, 310-343, 346-398).                                   *)
RegistersConserved ==
  /\ \A r, s \in LogReg : AMT[r] = AMT[s] => r = s
  /\ \A k, l \in FLIndex : FL[k] = FL[l] => k = l
  /\ \A r \in LogReg, k \in FLIndex : AMT[r] # FL[k]

(* Destinations among the first k instructions in flight.                  *)
Dsts(k) == Cardinality({j \in 1 .. k : InFlight[j].dst # None})

LiveBranch(k) == InFlight[k].checkpoint /\ ~InFlight[k].completed

(* The free list remembers the destinations in flight in program order,    *)
(* from its tail up to its head, so that moving FL_head back to the one    *)
(* saved by a live branch frees the destinations younger than the branch   *)
(* and no other; the counters agree with the pointers.                     *)
FreeListInOrder ==
  LET n == Len(InFlight)
      After(k) == Advance([FL_tail EXCEPT !.phase = ~@], Dsts(k), FLSize)
  IN  /\ FL_head = After(n)
      /\ FL_count = FLSize - Dsts(n)
      /\ AL_tail = Advance(AL_head, AL_count, NumActive)
      /\ \A k \in 1 .. n :
           /\ InFlight[k].dst # None =>
                InFlight[k].phys_reg = FL[SlotAt(FL_tail, Dsts(k) - 1, FLSize)]
           /\ LiveBranch(k) => checkpoints[InFlight[k].branch_ID].FL_head = After(k)

(* The register a logical register is mapped to after the first k          *)
(* instructions in flight: that of its youngest writer, if there is one.   *)
MapAfter(k) ==
  [r \in LogReg |->
     LET writers == {j \in 1 .. k : InFlight[j].dst = r}
     IN  IF writers = {} THEN AMT[r]
         ELSE InFlight[CHOOSE j \in writers : \A i \in writers : i <= j].phys_reg]

(* A source is renamed to the youngest older writer of its register, and   *)
(* so it is again after the recovery of any branch in flight.              *)
MapsExact ==
  /\ RMT = MapAfter(Len(InFlight))
  /\ \A k \in 1 .. Len(InFlight) : LiveBranch(k) =>
       checkpoints[InFlight[k].branch_ID].shadow_RMT = MapAfter(k)

(* A branch mask holds the unresolved branches older than the instruction, *)
(* so that killing the instructions with a branch's bit (squash.cc:131-156)*)
(* and cutting the active list behind the branch (renamer.cc:209-231) drop *)
(* the same instructions; a saved GBM holds the branch and the older ones. *)
BranchMasksExact ==
  LET n == Len(InFlight)
      Live(k) == {InFlight[j].branch_ID : j \in {l \in 1 .. k : LiveBranch(l)}}
  IN  /\ GBM = Live(n)
      /\ checkpoint_count = Cardinality({j \in 1 .. n : LiveBranch(j)})
      /\ checkpoint_count = Cardinality(GBM)
      /\ \A k \in 1 .. n :
           /\ ~InFlight[k].completed => InFlight[k].branch_mask = Live(k - 1)
           /\ LiveBranch(k) => checkpoints[InFlight[k].branch_ID].GBM = Live(k)

(* A register in flight is ready exactly when its producer has woken its   *)
(* consumers or its predicted value is in the register file: a consumer    *)
(* neither reads a stale register nor waits for one already written.       *)
ReadyExact ==
  /\ \A r \in LogReg : PRF_ready[AMT[r]]
  /\ \A k \in 1 .. Len(InFlight) : InFlight[k].dst # None =>
       (PRF_ready[InFlight[k].phys_reg] <=>
          InFlight[k].woken \/ (InFlight[k].vp_pred /\ k <= AL_count))

(* Committing frees the register of the previous writer only when no       *)
(* instruction in flight, and no later recovery, maps to it: a register    *)
(* goes to the free list from the architectural map, never from the future *)
(* of the program.                                                         *)
FreedIsDead ==
  [][AMT' # AMT =>
       \A r \in LogReg : AMT[r] \notin {AMT'[s] : s \in LogReg} =>
         /\ AMT[r] \notin {RMT'[s] : s \in LogReg}
         /\ \A b \in GBM' : AMT[r] \notin {checkpoints'[b].shadow_RMT[s] : s \in LogReg}]_vars

-----------------------------------------------------------------------------
(* No register is lost or handed out twice, and the free list returns them *)
(* in the order in which the instructions in flight took and will free     *)
(* them (renamer.cc: rename_rdst, commit, resolve, squash).                *)
RegistersExact == TypeOK /\ RegistersConserved /\ FreeListInOrder

(* The maps, the saved maps and the branch masks are those of program      *)
(* order at their branches (checkpoint, resolve).                          *)
MapsAndMasksExact == MapsExact /\ BranchMasksExact

(* A ready bit is set once the value is there or predicted, and no         *)
(* register is freed that an instruction in flight, or a recovery, still   *)
(* maps to (set_ready, commit).                                            *)
ReadersSafe == []ReadyExact /\ FreedIsDead

-----------------------------------------------------------------------------
(* Renamer implements the in-order renamer: its free list, checkpoints and *)
(* recoveries never hand out a register that is held, and after any of     *)
(* them the rename map is the architectural map overlaid with exactly the  *)
(* instructions that survive.                                              *)
InOrder == INSTANCE InOrderRename WITH
  LogRegs  <- LogReg,
  PhysRegs <- PhysReg,
  amt      <- AMT,
  rmt      <- RMT,
  window   <- LET w == InFlight IN [k \in DOMAIN w |-> <<w[k].dst, w[k].phys_reg>>]

(* Every step of the renamer is a step of the in-order renamer or leaves   *)
(* its state alone (renamer.cc as a whole).                                *)
ImplementsInOrder == InOrder!Spec
=============================================================================
